-------------------------- MODULE BackgroundProofs --------------------------
(***************************************************************************)
(* Proofs about the components of Background, for every value of the       *)
(* constants: the verdicts of ProxyProbe, the rebalances of Placements,    *)
(* the runs of RotationPlan, the crawls of UsageCrawl.                     *)
(***************************************************************************)
EXTENDS Background, PlacementProofs, TLAPS

LEMMA Thresholds ==
    /\ FailureThreshold \in Nat \ {0}
    /\ RecoveryThreshold \in Nat \ {0}
    /\ Whitelisted \subseteq Proxies
BY BackgroundAssumption DEF Probe!ProbeAssumption

ProbeSteps ==
    \/ \E obs \in [listed -> Probe!Observation] : Probe!StartProbe(obs)
    \/ \E p \in Proxies : \/ Probe!SaveState(p) \/ Probe!ForgetState(p) \/ Probe!DeleteProxy(p)
                          \/ Probe!DeletedElsewhere(p) \/ Probe!ClearState(p)
    \/ Probe!SaveSamples \/ Probe!SamplesFail
    \/ Probe!ClearSample \/ Probe!ClearSampleFails \/ Probe!Crash

LEMMA NextIsProbing == Probe!Next => ProbeSteps
BY DEF Probe!Next, Probe!Ticking, Probe!Deleting, ProbeSteps

-----------------------------------------------------------------------------
(* The verdict on one proxy.                                               *)

\* What one probe makes of a stored state: one counter grows by at most one, the other is
\* reset, and the verdict follows from the counters.
Follows(s, o) ==
    /\ o \in Probe!State
    /\ \/ o.fails = 0 /\ o.succs \in 1..RecoveryThreshold /\ o.succs <= s.succs + 1
       \/ o.succs = 0 /\ o.fails \in 1..FailureThreshold /\ o.fails <= s.fails + 1
    /\ o.health = Probe!NextHealth(s.health, o.fails, o.succs)

LEMMA StoredStates ==
    ASSUME Probe!TypeOK, NEW p \in Proxies
    PROVE  /\ Probe!Stored(p) \in Probe!State
           /\ Probe!Stored(p).fails = states[p].fails
           /\ Probe!Stored(p).succs = states[p].succs
           /\ Probe!Stored(p).health =
                 (IF states[p] = Probe!NoState THEN "unknown" ELSE states[p].health)
BY DEF Probe!TypeOK, Probe!Stored, Probe!State, Probe!NoState

LEMMA ProbedFollows ==
    ASSUME NEW s \in Probe!State, NEW o \in Probe!Observation
    PROVE  Follows(s, Probe!Probed(s, o))
<1> DEFINE good == Probe!Good(s, o)
           fails == IF good THEN 0 ELSE Probe!Capped(s.fails + 1, FailureThreshold)
           succs == IF good THEN Probe!Capped(s.succs + 1, RecoveryThreshold) ELSE 0
<1>1. fails \in Nat /\ succs \in Nat
  BY Thresholds DEF Probe!Capped, Probe!State
<1>2. \/ fails = 0 /\ succs \in 1..RecoveryThreshold /\ succs <= s.succs + 1
      \/ succs = 0 /\ fails \in 1..FailureThreshold /\ fails <= s.fails + 1
  BY Thresholds DEF Probe!Capped, Probe!State
<1>3. Probe!Failing(s, o) \in BOOLEAN
  BY DEF Probe!Failing, Probe!Observation, Probe!State
<1>4. Probe!NextHealth(s.health, fails, succs) \in {"unknown", "healthy", "dead"}
  BY DEF Probe!NextHealth
<1>5. Probe!Probed(s, o) = [health |-> Probe!NextHealth(s.health, fails, succs),
                      fails |-> fails, succs |-> succs, failing |-> Probe!Failing(s, o)]
  BY DEF Probe!Probed
<1> HIDE DEF fails, succs, good
<1>6. Probe!Probed(s, o) \in Probe!State
  BY <1>1, <1>3, <1>4, <1>5 DEF Probe!State
<1> QED
  BY <1>2, <1>5, <1>6 DEF Follows

LEMMA OutcomesFollow ==
    ASSUME Probe!TypeOK, NEW obs \in [listed -> Probe!Observation], Probe!StartProbe(obs)
    PROVE  \A p \in listed : Follows(Probe!Stored(p), outcomes'[p])
<1> TAKE p \in listed
<1>1. p \in Proxies /\ obs[p] \in Probe!Observation
  BY DEF Probe!TypeOK
<1>2. outcomes'[p] = Probe!Probed(Probe!Stored(p), obs[p])
  BY DEF Probe!StartProbe
<1>3. Probe!Stored(p) \in Probe!State
  BY <1>1, StoredStates
<1> QED
  BY <1>1, <1>2, <1>3, ProbedFollows

-----------------------------------------------------------------------------
(* Types.                                                                  *)

LEMMA ProbeInitTyped == Probe!Init => Probe!TypeOK
<1> SUFFICES ASSUME Probe!Init PROVE Probe!TypeOK
  OBVIOUS
<1>1. \A p \in Proxies : Probe!NoState \in Probe!State \cup {Probe!NoState} /\ 0 \in Int
  OBVIOUS
<1> QED
  BY <1>1 DEF Probe!Init, Probe!TypeOK

LEMMA NoOperationTyped ==
    ASSUME Probe!NoOperation
    PROVE  /\ step' = "idle" /\ DOMAIN outcomes' = {} /\ unsaved' = {} /\ vanished' = {}
           /\ recovered' = FALSE
BY DEF Probe!NoOperation

LEMMA ProbeNextTyped == Probe!TypeOK /\ [Probe!Next]_Probe!vars => Probe!TypeOK'
<1> SUFFICES ASSUME Probe!TypeOK, [Probe!Next]_Probe!vars PROVE Probe!TypeOK'
  OBVIOUS
<1> USE DEF Probe!TypeOK
<1>1. ASSUME NEW obs \in [listed -> Probe!Observation], Probe!StartProbe(obs)
      PROVE  Probe!TypeOK'
  <2>1. DOMAIN outcomes' = listed /\ unsaved' = listed
    BY <1>1 DEF Probe!StartProbe
  <2>2. \A p \in listed : outcomes'[p] \in Probe!State
    BY <1>1, OutcomesFollow DEF Follows
  <2>3. recovered' \in BOOLEAN /\ vanished' \in SUBSET Proxies /\ step' = "saving"
    BY <1>1 DEF Probe!StartProbe
  <2> QED
    BY <1>1, <2>1, <2>2, <2>3 DEF Probe!StartProbe
<1>2. ASSUME NEW p \in Proxies, Probe!SaveState(p) PROVE Probe!TypeOK'
  <2>1. outcomes[p] \in Probe!State
    BY <1>2 DEF Probe!SaveState
  <2>2. states' \in [Proxies -> Probe!State \cup {Probe!NoState}]
    BY <1>2, <2>1 DEF Probe!SaveState
  <2>3. \A n \in Int, g \in BOOLEAN : Probe!Lengthened(n, g) \in Int
    BY Thresholds DEF Probe!Lengthened, Probe!Capped, Probe!Bound
  <2>4. (outcomes[p].succs > 0) \in BOOLEAN
    BY <2>1 DEF Probe!State
  <2>5. streak' \in [Proxies -> Int]
    BY <1>2, <2>3, <2>4 DEF Probe!SaveState
  <2> QED
    BY <1>2, <2>2, <2>5 DEF Probe!SaveState
<1>3. ASSUME NEW p \in Proxies, Probe!ForgetState(p) PROVE Probe!TypeOK'
  BY <1>3 DEF Probe!ForgetState
<1>4. ASSUME NEW p \in Proxies, Probe!DeleteProxy(p) PROVE Probe!TypeOK'
  BY <1>4 DEF Probe!DeleteProxy
<1>5. ASSUME NEW p \in Proxies, Probe!DeletedElsewhere(p) PROVE Probe!TypeOK'
  BY <1>5 DEF Probe!DeletedElsewhere
<1>6. ASSUME NEW p \in Proxies, Probe!ClearState(p) PROVE Probe!TypeOK'
  BY <1>6 DEF Probe!ClearState
<1>7. CASE Probe!SaveSamples
  <2>1. alert' \in SUBSET Proxies /\ allDown' \in BOOLEAN
    BY <1>7 DEF Probe!SaveSamples, Probe!Dead
  <2> QED
    BY <1>7, <2>1, NoOperationTyped DEF Probe!SaveSamples
<1>8. CASE Probe!SamplesFail
  BY <1>8, NoOperationTyped DEF Probe!SamplesFail
<1>9. CASE Probe!ClearSample
  BY <1>9, NoOperationTyped DEF Probe!ClearSample
<1>10. CASE Probe!ClearSampleFails
  BY <1>10, NoOperationTyped DEF Probe!ClearSampleFails
<1>11. CASE Probe!Crash
  BY <1>11, NoOperationTyped DEF Probe!Crash
<1>12. CASE UNCHANGED Probe!vars
  BY <1>12 DEF Probe!vars
<1> QED
  BY <1>1, <1>2, <1>3, <1>4, <1>5, <1>6, <1>7, <1>8, <1>9, <1>10, <1>11, <1>12, NextIsProbing
     DEF ProbeSteps

-----------------------------------------------------------------------------
(* Cleared traces.                                                         *)

\* Neither a tick that goes on nor a clearing that goes on has anything of a cleared proxy
\* in hand: a proxy that was deleted is not listed again, and ticks hold the lock.
ClearedInv ==
    /\ Probe!TypeOK
    /\ Probe!ClearedStaysCleared
    /\ \A p \in cleared : p \notin listed /\ p \notin DOMAIN outcomes
    /\ clearing \cap listed = {}
    /\ step = "idle" => DOMAIN outcomes = {}
    /\ step = "clearSample" =>
          /\ DOMAIN outcomes = {}
          /\ \A p \in vanished : p \notin listed /\ states[p] = Probe!NoState

LEMMA InitCleared == Probe!Init => ClearedInv
BY ProbeInitTyped DEF Probe!Init, ClearedInv, Probe!ClearedStaysCleared

LEMMA NextCleared == ClearedInv /\ [Probe!Next]_Probe!vars => ClearedInv'
<1> SUFFICES ASSUME ClearedInv, [Probe!Next]_Probe!vars PROVE ClearedInv'
  OBVIOUS
<1> USE DEF ClearedInv, Probe!ClearedStaysCleared
<1>0. Probe!TypeOK'
  BY ProbeNextTyped
<1>1. ASSUME NEW obs \in [listed -> Probe!Observation], Probe!StartProbe(obs) PROVE ClearedInv'
  BY <1>0, <1>1 DEF Probe!StartProbe
<1>2. ASSUME NEW p \in Proxies, Probe!SaveState(p) PROVE ClearedInv'
  BY <1>0, <1>2 DEF Probe!SaveState, Probe!TypeOK
<1>3. ASSUME NEW p \in Proxies, Probe!ForgetState(p) PROVE ClearedInv'
  BY <1>0, <1>3 DEF Probe!ForgetState, Probe!TypeOK
<1>4. ASSUME NEW p \in Proxies, Probe!DeleteProxy(p) PROVE ClearedInv'
  BY <1>0, <1>4 DEF Probe!DeleteProxy, Probe!TypeOK
<1>5. ASSUME NEW p \in Proxies, Probe!DeletedElsewhere(p) PROVE ClearedInv'
  BY <1>0, <1>5 DEF Probe!DeletedElsewhere, Probe!TypeOK
<1>6. ASSUME NEW p \in Proxies, Probe!ClearState(p) PROVE ClearedInv'
  <2>1. p \notin listed /\ listed' = listed /\ vanished' = {p}
    BY <1>6 DEF Probe!ClearState
  <2>2. \A q \in Proxies : states'[q] = (IF q = p THEN Probe!NoState ELSE states[q])
    BY <1>6 DEF Probe!ClearState, Probe!TypeOK
  <2>3. /\ alert' = alert /\ cleared' = cleared /\ outcomes' = outcomes
        /\ clearing' = clearing \ {p}
    BY <1>6 DEF Probe!ClearState
  <2>4. Probe!ClearedStaysCleared'
    BY <2>2, <2>3 DEF Probe!TypeOK
  <2>5. DOMAIN outcomes = {}
    BY <1>6 DEF Probe!ClearState
  <2> QED
    BY <1>0, <2>1, <2>2, <2>3, <2>4, <2>5
<1>7. CASE Probe!SaveSamples
  BY <1>0, <1>7, NoOperationTyped DEF Probe!SaveSamples, Probe!Dead
<1>8. CASE Probe!SamplesFail
  BY <1>0, <1>8, NoOperationTyped DEF Probe!SamplesFail
<1>9. CASE Probe!ClearSample
  BY <1>0, <1>9, NoOperationTyped DEF Probe!ClearSample, Probe!TypeOK
<1>10. CASE Probe!ClearSampleFails
  BY <1>0, <1>10, NoOperationTyped DEF Probe!ClearSampleFails
<1>11. CASE Probe!Crash
  BY <1>0, <1>11, NoOperationTyped DEF Probe!Crash
<1>12. CASE UNCHANGED Probe!vars
  BY <1>0, <1>12 DEF Probe!vars
<1> QED
  BY <1>1, <1>2, <1>3, <1>4, <1>5, <1>6, <1>7, <1>8, <1>9, <1>10, <1>11, <1>12, NextIsProbing
     DEF ProbeSteps

-----------------------------------------------------------------------------
(* Hysteresis.                                                             *)

\* The stored counters never exceed the run of equal verdicts that were stored, and what
\* a tick has still to store was computed from what is stored.
StreakInv ==
    /\ Probe!TypeOK
    /\ \A p \in Proxies :
          /\ states[p].fails <= FailureThreshold /\ states[p].succs <= RecoveryThreshold
          /\ states[p].succs > 0 => streak[p] >= states[p].succs
          /\ states[p].fails > 0 => streak[p] <= -states[p].fails
    /\ step = "idle" => unsaved = {}
    /\ \A p \in unsaved : Follows(Probe!Stored(p), outcomes[p])

LEMMA InitHysteresis == Probe!Init => StreakInv
BY Thresholds, ProbeInitTyped DEF Probe!Init, StreakInv, Probe!NoState

LEMMA StreakGrows ==
    ASSUME StreakInv, NEW p \in Proxies, Probe!SaveState(p)
    PROVE  /\ Follows(Probe!Stored(p), outcomes[p])
           /\ states'[p] = outcomes[p]
           /\ outcomes[p].succs > 0 => streak'[p] >= outcomes[p].succs
           /\ outcomes[p].fails > 0 => streak'[p] <= -outcomes[p].fails
<1>1. Follows(Probe!Stored(p), outcomes[p]) /\ p \in unsaved
  BY DEF StreakInv, Probe!SaveState
<1>2. /\ states'[p] = outcomes[p]
      /\ streak'[p] = Probe!Lengthened(streak[p], outcomes[p].succs > 0)
  BY DEF Probe!SaveState, StreakInv, Probe!TypeOK
<1>3. /\ outcomes[p].fails \in Nat /\ outcomes[p].succs \in Nat
      /\ states[p].fails \in Nat /\ states[p].succs \in Nat /\ streak[p] \in Int
  BY <1>1 DEF Follows, Probe!State, StreakInv, Probe!TypeOK, Probe!NoState
<1>4. /\ states[p].succs > 0 => streak[p] >= states[p].succs
      /\ states[p].fails > 0 => streak[p] <= -states[p].fails
  BY DEF StreakInv
<1>5. \/ outcomes[p].fails = 0 /\ outcomes[p].succs \in 1..RecoveryThreshold
         /\ outcomes[p].succs <= states[p].succs + 1
      \/ outcomes[p].succs = 0 /\ outcomes[p].fails \in 1..FailureThreshold
         /\ outcomes[p].fails <= states[p].fails + 1
  BY <1>1, StoredStates DEF Follows, StreakInv
<1>6. CASE outcomes[p].succs > 0
  <2>1. streak'[p] = IF streak[p] > 0 THEN Probe!Capped(streak[p] + 1, Probe!Bound) ELSE 1
    BY <1>2, <1>6 DEF Probe!Lengthened
  <2> QED
    BY <1>3, <1>4, <1>5, <1>6, <2>1, Thresholds, <1>1, <1>2 DEF Probe!Capped, Probe!Bound
<1>7. CASE ~(outcomes[p].succs > 0)
  <2>1. streak'[p] = IF streak[p] < 0 THEN -Probe!Capped(1 - streak[p], Probe!Bound) ELSE -1
    BY <1>2, <1>7 DEF Probe!Lengthened
  <2> QED
    BY <1>3, <1>4, <1>5, <1>7, <2>1, Thresholds, <1>1, <1>2 DEF Probe!Capped, Probe!Bound
<1> QED
  BY <1>6, <1>7

LEMMA NextHysteresis == StreakInv /\ [Probe!Next]_Probe!vars => StreakInv'
<1> SUFFICES ASSUME StreakInv, [Probe!Next]_Probe!vars PROVE StreakInv'
  OBVIOUS
<1> USE DEF StreakInv, Probe!Stored
<1>0. Probe!TypeOK'
  BY ProbeNextTyped
<1>1. ASSUME NEW obs \in [listed -> Probe!Observation], Probe!StartProbe(obs) PROVE StreakInv'
  <2>1. \A p \in listed : Follows(Probe!Stored(p), outcomes'[p])
    BY <1>1, OutcomesFollow
  <2> QED
    BY <1>0, <1>1, <2>1 DEF Probe!StartProbe
<1>2. ASSUME NEW p \in Proxies, Probe!SaveState(p) PROVE StreakInv'
  <2>1. /\ Follows(Probe!Stored(p), outcomes[p])
        /\ states'[p] = outcomes[p]
        /\ outcomes[p].succs > 0 => streak'[p] >= outcomes[p].succs
        /\ outcomes[p].fails > 0 => streak'[p] <= -outcomes[p].fails
    BY <1>2, StreakGrows
  <2>2. outcomes[p].fails <= FailureThreshold /\ outcomes[p].succs <= RecoveryThreshold
    BY <2>1, Thresholds DEF Follows
  <2>3. \A q \in Proxies \ {p} : states'[q] = states[q] /\ streak'[q] = streak[q]
    BY <1>2 DEF Probe!SaveState, Probe!TypeOK
  <2>4. /\ \A q \in Proxies :
              /\ states'[q].fails <= FailureThreshold /\ states'[q].succs <= RecoveryThreshold
              /\ states'[q].succs > 0 => streak'[q] >= states'[q].succs
              /\ states'[q].fails > 0 => streak'[q] <= -states'[q].fails
    BY <2>1, <2>2, <2>3
  <2>5. unsaved' = unsaved \ {p} /\ outcomes' = outcomes /\ step' = step /\ step = "saving"
    BY <1>2 DEF Probe!SaveState
  <2>6. \A q \in unsaved' : Follows(Probe!Stored(q)', outcomes'[q])
    BY <2>3, <2>5 DEF Probe!TypeOK
  <2> QED
    BY <1>0, <2>4, <2>5, <2>6
<1>3. ASSUME NEW p \in Proxies, Probe!ForgetState(p) PROVE StreakInv'
  BY <1>0, <1>3, Thresholds DEF Probe!ForgetState, Probe!TypeOK, Probe!NoState
<1>4. ASSUME NEW p \in Proxies, Probe!DeleteProxy(p) PROVE StreakInv'
  BY <1>0, <1>4 DEF Probe!DeleteProxy
<1>5. ASSUME NEW p \in Proxies, Probe!DeletedElsewhere(p) PROVE StreakInv'
  BY <1>0, <1>5 DEF Probe!DeletedElsewhere
<1>6. ASSUME NEW p \in Proxies, Probe!ClearState(p) PROVE StreakInv'
  BY <1>0, <1>6, Thresholds DEF Probe!ClearState, Probe!TypeOK, Probe!NoState
<1>7. CASE Probe!SaveSamples
  BY <1>0, <1>7, NoOperationTyped DEF Probe!SaveSamples
<1>8. CASE Probe!SamplesFail
  BY <1>0, <1>8, NoOperationTyped DEF Probe!SamplesFail
<1>9. CASE Probe!ClearSample
  BY <1>0, <1>9, NoOperationTyped DEF Probe!ClearSample
<1>10. CASE Probe!ClearSampleFails
  BY <1>0, <1>10, NoOperationTyped DEF Probe!ClearSampleFails
<1>11. CASE Probe!Crash
  BY <1>0, <1>11, NoOperationTyped DEF Probe!Crash
<1>12. CASE UNCHANGED Probe!vars
  BY <1>0, <1>12 DEF Probe!vars
<1> QED
  BY <1>1, <1>2, <1>3, <1>4, <1>5, <1>6, <1>7, <1>8, <1>9, <1>10, <1>11, <1>12, NextIsProbing
     DEF ProbeSteps

\* What one step may do to the verdict on a proxy.
SettledByStreak(p) ==
    /\ states[p].health # "dead" /\ states'[p].health = "dead"
           => streak'[p] <= -FailureThreshold
    /\ states[p].health = "dead" /\ states'[p].health = "healthy"
           => streak'[p] >= RecoveryThreshold

LEMMA StepSettled ==
    ASSUME StreakInv, [Probe!Next]_Probe!vars, NEW p \in Proxies
    PROVE  SettledByStreak(p)
<1>1. CASE Probe!SaveState(p)
  <2>1. /\ Follows(Probe!Stored(p), outcomes[p])
        /\ states'[p] = outcomes[p]
        /\ outcomes[p].succs > 0 => streak'[p] >= outcomes[p].succs
        /\ outcomes[p].fails > 0 => streak'[p] <= -outcomes[p].fails
    BY <1>1, StreakGrows
  <2>2. outcomes[p].health =
            Probe!NextHealth(Probe!Stored(p).health, outcomes[p].fails, outcomes[p].succs)
    BY <2>1 DEF Follows
  <2>3. /\ states[p].health = "dead" => Probe!Stored(p).health = "dead"
        /\ states[p].health # "dead" => Probe!Stored(p).health # "dead"
    BY DEF Probe!Stored, Probe!NoState
  <2>4. /\ outcomes[p].fails \in 0..FailureThreshold
        /\ outcomes[p].succs \in 0..RecoveryThreshold
        /\ streak'[p] \in Int
    BY <2>1, Thresholds, ProbeNextTyped DEF Follows, Probe!State, StreakInv, Probe!TypeOK
  <2>5. /\ Probe!Stored(p).health # "dead" /\ outcomes[p].health = "dead"
              => outcomes[p].fails = FailureThreshold
        /\ Probe!Stored(p).health = "dead" /\ outcomes[p].health = "healthy"
              => outcomes[p].succs = RecoveryThreshold
    BY <2>2, <2>4, Thresholds DEF Probe!NextHealth
  <2> QED
    BY <2>1, <2>3, <2>4, <2>5, Thresholds DEF SettledByStreak
<1>2. CASE ~Probe!SaveState(p)
  <2>1. states'[p] = states[p] \/ states'[p] = Probe!NoState
    <3>1. ASSUME NEW q \in Proxies, Probe!SaveState(q) PROVE states'[p] = states[p]
      BY <1>2, <3>1 DEF Probe!SaveState, StreakInv, Probe!TypeOK
    <3>2. ASSUME NEW q \in Proxies, Probe!ForgetState(q) \/ Probe!ClearState(q)
          PROVE  states'[p] = states[p] \/ states'[p] = Probe!NoState
      BY <3>2 DEF Probe!ForgetState, Probe!ClearState, StreakInv, Probe!TypeOK
    <3>3. ASSUME NEW q \in Proxies, Probe!DeleteProxy(q) \/ Probe!DeletedElsewhere(q)
          PROVE  states' = states
      BY <3>3 DEF Probe!DeleteProxy, Probe!DeletedElsewhere
    <3>4. ASSUME NEW obs \in [listed -> Probe!Observation], Probe!StartProbe(obs)
          PROVE  states' = states
      BY <3>4 DEF Probe!StartProbe
    <3>5. CASE \/ Probe!SaveSamples \/ Probe!SamplesFail \/ Probe!ClearSample
               \/ Probe!ClearSampleFails \/ Probe!Crash
               \/ UNCHANGED Probe!vars
      BY <3>5
         DEF Probe!SaveSamples, Probe!SamplesFail, Probe!ClearSample, Probe!ClearSampleFails,
             Probe!Crash, Probe!vars
    <3> QED
      BY <3>1, <3>2, <3>3, <3>4, <3>5, NextIsProbing DEF ProbeSteps
  <2> QED
    BY <2>1 DEF SettledByStreak, Probe!NoState
<1> QED
  BY <1>1, <1>2

-----------------------------------------------------------------------------
(* The composition.                                                        *)

LEMMA ProbeStarts == AnyInit => Probe!Init
BY DEF AnyInit

\* A step of the composition is a step of the probe, or leaves the probe alone.
LEMMA ProbeGoesOn == [AnyNext]_anyVars => [Probe!Next]_Probe!vars
BY DEF AnyNext, anyVars, probeVars, Probe!vars

(***************************************************************************)
(* Nothing of a proxy comes back once clear_proxy_state has run to its end *)
(* for it, whatever ticks were under way when it was deleted.              *)
(***************************************************************************)
THEOREM ClearedForGood == AnySpec => []ClearedStaysCleared
<1>1. ClearedInv => ClearedStaysCleared
  BY DEF ClearedInv, ClearedStaysCleared
<1> QED
  BY <1>1, ProbeStarts, ProbeGoesOn, InitCleared, NextCleared, PTL DEF AnySpec

(***************************************************************************)
(* Hysteresis holds for every pair of thresholds: no proxy is declared     *)
(* dead, or healthy again, before enough verdicts in a row were stored.    *)
(***************************************************************************)
THEOREM HysteresisHolds == AnySpec => Hysteresis
<1>1. StreakInv /\ [AnyNext]_anyVars =>
          [\A p \in Proxies :
              /\ states[p].health # "dead" /\ states'[p].health = "dead"
                     => streak'[p] <= -FailureThreshold
              /\ states[p].health = "dead" /\ states'[p].health = "healthy"
                     => streak'[p] >= RecoveryThreshold]_Probe!vars
  BY ProbeGoesOn, StepSettled DEF SettledByStreak
<1> QED
  BY <1>1, ProbeStarts, ProbeGoesOn, InitHysteresis, NextHysteresis, PTL
     DEF AnySpec, Hysteresis, Probe!Hysteresis

-----------------------------------------------------------------------------
(* Rebalances.                                                             *)

\* A rebalance keeps its promises from any placement, so only that is remembered.
PlacedInv ==
    subject = "placement" =>
        PlacementTyped /\ (rebalances > 0 => EverybodyPlaced /\ EvenSplit)

LEMMA PlacedStarts == AnyInit => PlacedInv
BY PlacementStarts DEF AnyInit, PlacedInv

LEMMA PlacedGoesOn == PlacedInv /\ [AnyNext]_anyVars => PlacedInv'
<1> SUFFICES ASSUME PlacedInv, [AnyNext]_anyVars, subject' = "placement" PROVE PlacedInv'
  BY DEF PlacedInv
<1>1. CASE PlacementNext /\ subject = "placement"
  BY <1>1, PlacementStep DEF PlacedInv
<1>2. CASE UNCHANGED <<subject, placementVars>>
  BY <1>2
     DEF PlacedInv, placementVars, PlacementTyped, EverybodyPlaced, EvenSplit, Even, On, Pinned
<1> QED
  BY <1>1, <1>2 DEF AnyNext, anyVars

(***************************************************************************)
(* Whatever the proxies, accounts, loads and pins: a rebalance finds a     *)
(* place for everybody, on the pinned proxy where that is eligible; the    *)
(* loads differ by one at most, pins permitting; and, without pins, no     *)
(* even placement takes fewer moves.                                       *)
(***************************************************************************)
THEOREM RebalancesPlaceEvenly == AnySpec => []PlacedEvenly
<1>1. PlacedInv => PlacedEvenly
  <2>1. PlacementTyped /\ ~(rebalances > 0) => EverybodyPlaced /\ EvenSplit
    BY DEF EverybodyPlaced, EvenSplit
  <2> QED
    BY <2>1, MovementIsMinimal DEF PlacedInv, PlacedEvenly
<1> QED
  BY <1>1, PlacedStarts, PlacedGoesOn, PTL DEF AnySpec

-----------------------------------------------------------------------------
(* Sums, as RotationPlan counts them.                                      *)

Sum(f, S) == Rotation!Total(f, S)

LEMMA SumCounts ==
    ASSUME NEW S, NEW f
    PROVE  Sum(f, S) = Cardinality(UNION {{x} \X (1..f[x]) : x \in S})
<1>1. \A X : Rotation!Cardinality(X) = Cardinality(X)
  BY DEF Rotation!Cardinality, Cardinality
<1> QED
  BY <1>1 DEF Sum, Rotation!Total

LEMMA SumIsNumber ==
    ASSUME NEW S, IsFiniteSet(S), NEW f, \A x \in S : f[x] \in Nat
    PROVE  IsFiniteSet(UNION {{x} \X (1..f[x]) : x \in S}) /\ Sum(f, S) \in Nat
<1> DEFINE part == [x \in S |-> {x} \X (1..f[x])]
           parts == {part[x] : x \in S}
<1>1. IsFiniteSet(parts)
  <2>1. DOMAIN part = S
    OBVIOUS
  <2> HIDE DEF part
  <2> QED
    BY <2>1, ImageIsFinite
<1>2. \A P \in parts : IsFiniteSet(P)
  <2>1. ASSUME NEW x \in S PROVE IsFiniteSet(part[x])
    <3>1. IsFiniteSet({x}) /\ IsFiniteSet(1..f[x])
      BY FS_Singleton, Numbers
    <3>2. IsFiniteSet({x} \X (1..f[x]))
      BY <3>1, FS_Product
    <3> QED
      BY <3>2
  <2> QED
    BY <2>1
<1>3. UNION parts = UNION {{x} \X (1..f[x]) : x \in S}
  OBVIOUS
<1>4. IsFiniteSet(UNION parts)
  <2> HIDE DEF parts
  <2> QED
    BY <1>1, <1>2, FS_UNION
<1>5. IsFiniteSet(UNION {{x} \X (1..f[x]) : x \in S})
  BY <1>3, <1>4
<1> QED
  BY <1>5, SumCounts, FS_CardinalityType

LEMMA SumWithout ==
    ASSUME NEW S, IsFiniteSet(S), NEW f, \A x \in S : f[x] \in Nat, NEW a \in S
    PROVE  Sum(f, S) = Sum(f, S \ {a}) + f[a]
<1> DEFINE rest == UNION {{x} \X (1..f[x]) : x \in S \ {a}}
           part == {a} \X (1..f[a])
<1>1. UNION {{x} \X (1..f[x]) : x \in S} = rest \cup part /\ rest \cap part = {}
  OBVIOUS
<1>2. IsFiniteSet(rest)
  <2>1. IsFiniteSet(S \ {a})
    BY FS_Difference
  <2> QED
    BY <2>1, SumIsNumber
<1>3. IsFiniteSet(part) /\ Cardinality(part) = f[a]
  <2>1. IsFiniteSet({a}) /\ Cardinality({a}) = 1
    BY FS_Singleton
  <2>2. f[a] \in Nat /\ IsFiniteSet(1..f[a]) /\ Cardinality(1..f[a]) = f[a]
    BY Numbers
  <2>3. IsFiniteSet(part) /\ Cardinality(part) = Cardinality({a}) * Cardinality(1..f[a])
    BY <2>1, <2>2, FS_Product
  <2> HIDE DEF part
  <2> QED
    BY <2>1, <2>2, <2>3
<1>4. Sum(f, S \ {a}) = Cardinality(rest)
  BY SumCounts
<1> HIDE DEF rest, part
<1>5. Cardinality(rest \cup part) = Cardinality(rest) + Cardinality(part)
  BY <1>1, <1>2, <1>3, Apart
<1>6. Sum(f, S) = Cardinality(rest \cup part)
  BY <1>1, SumCounts
<1> QED
  BY <1>3, <1>4, <1>5, <1>6

LEMMA SumOfSame ==
    ASSUME NEW S, NEW f, NEW k, \A x \in S : f[x] = k[x]
    PROVE  Sum(f, S) = Sum(k, S)
<1>1. UNION {{x} \X (1..f[x]) : x \in S} = UNION {{x} \X (1..k[x]) : x \in S}
  OBVIOUS
<1> QED
  BY <1>1, SumCounts

\* Two sums of terms that differ in two places.
LEMMA SumOfChanged ==
    ASSUME NEW S, IsFiniteSet(S), NEW f, NEW k, NEW a \in S, NEW b \in S, a # b,
           \A x \in S : f[x] \in Nat /\ k[x] \in Nat,
           \A x \in S \ {a, b} : f[x] = k[x]
    PROVE  Sum(f, S) + k[a] + k[b] = Sum(k, S) + f[a] + f[b]
<1> DEFINE T == S \ {a}
           U == T \ {b}
<1>1. IsFiniteSet(T) /\ IsFiniteSet(U) /\ b \in T
  BY FS_Difference
<1>2. Sum(f, S) = Sum(f, T) + f[a] /\ Sum(k, S) = Sum(k, T) + k[a]
  BY SumWithout
<1>3. Sum(f, T) = Sum(f, U) + f[b] /\ Sum(k, T) = Sum(k, U) + k[b]
  <2> \A x \in T : f[x] \in Nat /\ k[x] \in Nat
    OBVIOUS
  <2> HIDE DEF T
  <2> QED
    BY <1>1, SumWithout
<1>4. Sum(f, U) = Sum(k, U)
  <2> \A x \in U : f[x] = k[x]
    OBVIOUS
  <2> QED
    BY SumOfSame
<1>5. Sum(f, U) \in Nat
  <2> \A x \in U : f[x] \in Nat
    OBVIOUS
  <2> QED
    BY <1>1, SumIsNumber
<1>6. f[a] \in Nat /\ f[b] \in Nat /\ k[a] \in Nat /\ k[b] \in Nat
  OBVIOUS
<1> HIDE DEF T, U
<1>7. Sum(f, S) = Sum(f, U) + f[a] + f[b] /\ Sum(k, S) = Sum(f, U) + k[a] + k[b]
  BY <1>2, <1>3, <1>4, <1>5, <1>6
<1> QED
  BY <1>5, <1>6, <1>7

\* The least key of a finite set.
LEMMA FirstKey ==
    ASSUME NEW T, NEW h \in [T -> Pairs], \A x, y \in T : h[x] = h[y] => x = y,
           NEW S \in SUBSET T, IsFiniteSet(S), S # {}
    PROVE  \E m \in S : \A n \in S : ~Precedes(h[n], h[m])
<1>1. PICK r \in 0..(Cardinality(S) - 1) : r = 0
  BY FS_CardinalityType, FS_EmptySet
<1>2. PICK m \in S : Ranked(S, h, m) = r
  <2>1. r \in 0..(Cardinality(S) - 1)
    OBVIOUS
  <2> QED
    BY <2>1, RanksAreNumbers
<1> DEFINE K == {h[y] : y \in S}
           B == {k \in K : Precedes(k, h[m])}
<1>3. IsFiniteSet(K)
  <2> DEFINE g == [x \in S |-> h[x]]
  <2>1. DOMAIN g = S /\ {g[x] : x \in S} = K
    OBVIOUS
  <2> HIDE DEF g, K
  <2>2. IsFiniteSet({g[x] : x \in S})
    BY <2>1, ImageIsFinite
  <2> QED
    BY <2>1, <2>2
<1>4. B = {}
  <2>1. Cardinality(B) = 0
    BY <1>1, <1>2 DEF Ranked, Rank
  <2>2. IsFiniteSet(B)
    BY <1>3, FS_Subset
  <2> HIDE DEF B
  <2> QED
    BY <2>1, <2>2, FS_EmptySet
<1> QED
  BY <1>4

LEMMA LeastNumber ==
    ASSUME NEW S \in SUBSET Int, IsFiniteSet(S), S # {}
    PROVE  \E m \in S : \A n \in S : m <= n
<1> DEFINE h == [x \in S |-> <<x, 0>>]
<1>1. h \in [S -> Pairs] /\ \A x, y \in S : h[x] = h[y] => x = y
  BY DEF Pairs
<1>2. \A x \in S : h[x] = <<x, 0>>
  OBVIOUS
<1> HIDE DEF h
<1>3. PICK m \in S : \A n \in S : ~Precedes(h[n], h[m])
  <2>1. S \in SUBSET S /\ IsFiniteSet(S) /\ S # {}
    OBVIOUS
  <2> QED
    BY <1>1, <2>1, FirstKey
<1> QED
  BY <1>2, <1>3 DEF Precedes

LEMMA LeastImage ==
    ASSUME NEW S, IsFiniteSet(S), S # {}, NEW f, DOMAIN f = S, \A x \in S : f[x] \in Int
    PROVE  \E m \in S : \A n \in S : f[m] <= f[n]
<1> DEFINE T == {f[x] : x \in S}
<1>1. T \in SUBSET Int /\ T # {}
  OBVIOUS
<1>2. IsFiniteSet(T)
  BY ImageIsFinite
<1>3. PICK m \in T : \A n \in T : m <= n
  <2> HIDE DEF T
  <2> QED
    BY <1>1, <1>2, LeastNumber
<1> QED
  BY <1>3

-----------------------------------------------------------------------------
(* The groups and their loads.                                             *)

InputsTyped ==
    in \in [usage : [Rotation!Members -> Nat], reading : [Rotation!Groups -> Int],
            weighted : BOOLEAN, protected : SUBSET Rotation!Members, evacuate : BOOLEAN]

\* Where users may be, and what groups may carry.
Seatings == [Rotation!Members -> Rotation!Groups \cup {Rotation!Nowhere}]
Charts == [Rotation!Groups -> Nat]

LEMMA PlanFacts ==
    /\ NGroups \in Nat /\ NUsers \in Nat /\ Quota \in Nat /\ Delta \in Nat
    /\ Rotation!PlanAssumption
    /\ IsFiniteSet(Rotation!Groups) /\ IsFiniteSet(Rotation!Members)
    /\ Rotation!Nowhere \notin Rotation!Groups
    /\ Rotation!Healthy \in SUBSET Rotation!Groups /\ IsFiniteSet(Rotation!Healthy)
<1>1. /\ Rotation!PlanAssumption
      /\ NGroups \in Nat /\ NUsers \in Nat /\ Quota \in Nat /\ Delta \in Nat
  BY BackgroundAssumption DEF Rotation!PlanAssumption
<1>2. IsFiniteSet(Rotation!Groups) /\ IsFiniteSet(Rotation!Members)
  BY <1>1, Numbers DEF Rotation!Groups, Rotation!Members
<1>3. Rotation!Healthy \in SUBSET Rotation!Groups
  BY DEF Rotation!Healthy
<1>4. IsFiniteSet(Rotation!Healthy)
  BY <1>2, <1>3, FS_Subset
<1>5. Rotation!Nowhere \notin Rotation!Groups
  BY <1>1 DEF Rotation!Groups, Rotation!Nowhere
<1> QED
  BY <1>1, <1>2, <1>3, <1>4, <1>5

LEMMA AmountsTyped ==
    ASSUME InputsTyped, NEW l \in Charts
    PROVE  /\ \A g \in Rotation!Groups : Rotation!Remaining(g) \in Nat
           /\ Rotation!Scale \in Nat
           /\ Rotation!Total(l, Rotation!Healthy) \in Nat
           /\ \A g \in Rotation!Groups : Rotation!Share(l, g) \in Nat
           /\ \A g \in Rotation!Groups : Rotation!Excess(l, g) \in Int
<1>1. \A g \in Rotation!Groups : Rotation!Remaining(g) \in Nat
  BY PlanFacts DEF Rotation!Remaining, Rotation!Known, InputsTyped
<1> DEFINE weight == [g \in Rotation!Groups |-> Rotation!Remaining(g)]
<1>2. \A g \in Rotation!Healthy : weight[g] \in Nat /\ l[g] \in Nat
  BY <1>1, PlanFacts DEF Charts
<1>3. Rotation!Weights \in Nat
  <2>1. Rotation!Weights = Sum(weight, Rotation!Healthy)
    BY DEF Rotation!Weights, Sum
  <2> HIDE DEF weight
  <2> QED
    BY <1>2, <2>1, PlanFacts, SumIsNumber
<1>4. Rotation!Total(l, Rotation!Healthy) \in Nat
  BY <1>2, PlanFacts, SumIsNumber DEF Sum
<1>5. Rotation!Scale \in Nat
  <2>1. Rotation!Cardinality(Rotation!Healthy) = Cardinality(Rotation!Healthy)
    BY DEF Rotation!Cardinality, Cardinality
  <2> QED
    BY <1>3, <2>1, PlanFacts, FS_CardinalityType DEF Rotation!Scale
<1>6. \A g \in Rotation!Groups : Rotation!Share(l, g) \in Nat
  BY <1>1, <1>4 DEF Rotation!Share
<1>7. \A g \in Rotation!Groups : Rotation!Excess(l, g) \in Int
  BY <1>5, <1>6 DEF Rotation!Excess, Charts
<1> QED
  BY <1>1, <1>4, <1>5, <1>6, <1>7

LEMMA LandingIsHealthy ==
    ASSUME InputsTyped, NEW l \in Charts, Rotation!Healthy # {}
    PROVE  Rotation!Landing(l) \in Rotation!Healthy
<1> DEFINE H == Rotation!Healthy
           second(g) == IF in.weighted THEN -Rotation!Remaining(g) ELSE 0
           f1 == [g \in H |-> Rotation!Excess(l, g)]
<1>1. \A g \in H : /\ g \in Rotation!Groups /\ g \in Int
                   /\ Rotation!Excess(l, g) \in Int /\ second(g) \in Int
  <2>1. \A g \in H : g \in Rotation!Groups /\ g \in Int
    BY PlanFacts DEF Rotation!Groups
  <2> QED
    BY <2>1, AmountsTyped
<1>2. PICK m1 \in H : \A n \in H : Rotation!Excess(l, m1) <= Rotation!Excess(l, n)
  <2>1. DOMAIN f1 = H /\ \A g \in H : f1[g] \in Int /\ f1[g] = Rotation!Excess(l, g)
    BY <1>1
  <2>2. IsFiniteSet(H) /\ H # {}
    BY PlanFacts
  <2> HIDE DEF H, f1
  <2>3. PICK m \in H : \A n \in H : f1[m] <= f1[n]
    BY <2>1, <2>2, LeastImage
  <2> QED
    BY <2>1, <2>3
<1> DEFINE H2 == {g \in H : Rotation!Excess(l, g) = Rotation!Excess(l, m1)}
           f2 == [g \in H2 |-> second(g)]
<1>3. PICK m2 \in H2 : \A n \in H2 : second(m2) <= second(n)
  <2>1. DOMAIN f2 = H2 /\ \A g \in H2 : f2[g] \in Int /\ f2[g] = second(g)
    BY <1>1
  <2>2. IsFiniteSet(H2) /\ H2 # {}
    BY PlanFacts, FS_Subset
  <2> HIDE DEF H2, f2, second
  <2>3. PICK m \in H2 : \A n \in H2 : f2[m] <= f2[n]
    BY <2>1, <2>2, LeastImage
  <2> QED
    BY <2>1, <2>3
<1> DEFINE H3 == {g \in H2 : second(g) = second(m2)}
<1>4. PICK m3 \in H3 : \A n \in H3 : m3 <= n
  <2>1. H3 \in SUBSET Int /\ H3 # {}
    BY <1>1
  <2>2. IsFiniteSet(H3)
    <3>1. H3 \in SUBSET H /\ IsFiniteSet(H)
      BY PlanFacts
    <3> QED
      BY <3>1, FS_Subset
  <2> HIDE DEF H3
  <2> QED
    BY <2>1, <2>2, LeastNumber
<1>5. \A h \in H \ {m3} : Rotation!Before(Rotation!Rank(l, m3), Rotation!Rank(l, h))
  <2> SUFFICES ASSUME NEW h \in H, h # m3
               PROVE  Rotation!Before(Rotation!Rank(l, m3), Rotation!Rank(l, h))
    OBVIOUS
  <2>1. /\ Rotation!Excess(l, m3) = Rotation!Excess(l, m1) /\ second(m3) = second(m2)
        /\ Rotation!Excess(l, m1) <= Rotation!Excess(l, h)
        /\ Rotation!Excess(l, m1) \in Int /\ Rotation!Excess(l, h) \in Int
        /\ second(h) \in Int /\ second(m2) \in Int /\ h \in Int /\ m3 \in Int
    BY <1>1, <1>2, <1>3, <1>4
  <2>2. Rotation!Excess(l, h) = Rotation!Excess(l, m1) => second(m2) <= second(h)
    BY <1>3
  <2>3. Rotation!Excess(l, h) = Rotation!Excess(l, m1) /\ second(h) = second(m2) => m3 <= h
    BY <1>4
  <2>4. /\ Rotation!Rank(l, m3) = <<Rotation!Excess(l, m3), second(m3), m3>>
        /\ Rotation!Rank(l, h) = <<Rotation!Excess(l, h), second(h), h>>
    BY DEF Rotation!Rank
  <2> HIDE DEF second, H, H2, H3
  <2> QED
    BY <2>1, <2>2, <2>3, <2>4 DEF Rotation!Before
<1>6. m3 \in Rotation!Healthy
  OBVIOUS
<1> HIDE DEF H, H2, H3, second
<1>7. \E g \in Rotation!Healthy : \A h \in Rotation!Healthy \ {g} :
          Rotation!Before(Rotation!Rank(l, g), Rotation!Rank(l, h))
  BY <1>5, <1>6 DEF H
<1> QED
  BY <1>7 DEF Rotation!Landing

\* The load of a group under a seating.
LEMMA LoadsTyped ==
    ASSUME InputsTyped, NEW w \in Seatings
    PROVE  Rotation!Loads(w) \in Charts
<1>1. ASSUME NEW g \in Rotation!Groups
      PROVE  Rotation!Total(in.usage, {u \in Rotation!Members : w[u] = g}) \in Nat
  <2>1. IsFiniteSet({u \in Rotation!Members : w[u] = g})
    BY PlanFacts, FS_Subset
  <2>2. \A u \in {v \in Rotation!Members : w[v] = g} : in.usage[u] \in Nat
    BY DEF InputsTyped
  <2> QED
    BY <2>1, <2>2, SumIsNumber DEF Sum
<1> QED
  BY <1>1 DEF Charts, Rotation!Loads

\* From one seating to another, u moves to g and nobody else moves.
Relocates(w, w2, u, g) ==
    /\ w2 \in Seatings /\ w2[u] = g /\ g # w[u]
    /\ \A v \in Rotation!Members \ {u} : w2[v] = w[v]

LEMMA MovedLoads ==
    ASSUME InputsTyped, NEW w \in Seatings, NEW u \in Rotation!Members,
           NEW g \in Rotation!Groups, NEW w2, Relocates(w, w2, u, g)
    PROVE  \A h \in Rotation!Groups :
               Rotation!Loads(w2)[h] =
                   IF h = g THEN Rotation!Loads(w)[h] + in.usage[u]
                   ELSE IF h = w[u] THEN Rotation!Loads(w)[h] - in.usage[u]
                   ELSE Rotation!Loads(w)[h]
<1> DEFINE At(v, h) == {x \in Rotation!Members : v[x] = h}
           use == in.usage
<1>1. \A v, h : IsFiniteSet(At(v, h)) /\ \A x \in At(v, h) : use[x] \in Nat
  BY PlanFacts, FS_Subset DEF InputsTyped
<1>2. /\ u \in At(w2, g) /\ At(w2, g) \ {u} = At(w, g)
      /\ u \in At(w, w[u]) /\ At(w, w[u]) \ {u} = At(w2, w[u])
      /\ \A h \in Rotation!Groups \ {g, w[u]} : At(w2, h) = At(w, h)
  BY DEF Relocates
<1>3. Sum(use, At(w2, g)) = Sum(use, At(w, g)) + use[u]
  <2> HIDE DEF At, use
  <2>1. IsFiniteSet(At(w2, g)) /\ u \in At(w2, g) /\ \A x \in At(w2, g) : use[x] \in Nat
    BY <1>1, <1>2
  <2>2. Sum(use, At(w2, g)) = Sum(use, At(w2, g) \ {u}) + use[u]
    BY <2>1, SumWithout
  <2> QED
    BY <1>2, <2>2
<1>4. Sum(use, At(w, w[u])) = Sum(use, At(w2, w[u])) + use[u]
  <2> HIDE DEF At, use
  <2>1. IsFiniteSet(At(w, w[u])) /\ u \in At(w, w[u]) /\ \A x \in At(w, w[u]) : use[x] \in Nat
    BY <1>1, <1>2
  <2>2. Sum(use, At(w, w[u])) = Sum(use, At(w, w[u]) \ {u}) + use[u]
    BY <2>1, SumWithout
  <2> QED
    BY <1>2, <2>2
<1>5. Sum(use, At(w2, w[u])) \in Nat /\ use[u] \in Nat
  <2>1. use[u] \in Nat
    BY DEF InputsTyped
  <2> HIDE DEF At, use
  <2> QED
    BY <1>1, <2>1, SumIsNumber
<1>6. \A v : Rotation!Loads(v) = [h \in Rotation!Groups |-> Sum(use, At(v, h))]
  BY DEF Rotation!Loads, Sum
<1> HIDE DEF At, use
<1>7. Sum(use, At(w2, w[u])) = Sum(use, At(w, w[u])) - use[u]
  BY <1>4, <1>5
<1>8. \A h \in Rotation!Groups :
          Sum(use, At(w2, h)) = IF h = g THEN Sum(use, At(w, h)) + use[u]
                                ELSE IF h = w[u] THEN Sum(use, At(w, h)) - use[u]
                                ELSE Sum(use, At(w, h))
  BY <1>2, <1>3, <1>7
<1>9. \A v : \A h \in Rotation!Groups : Rotation!Loads(v)[h] = Sum(use, At(v, h))
  BY <1>6
<1> QED
  BY <1>8, <1>9 DEF use

LEMMA Squares ==
    ASSUME NEW a \in Int, NEW b \in Int, NEW u \in Nat, NEW d \in Nat, a > b,
           Rotation!Abs(a - b - 2 * u) < a - b - d
    PROVE  (a - u) * (a - u) + (b + u) * (b + u) < a * a + b * b
<1>1. u > 0 /\ a - b - u > 0
  BY DEF Rotation!Abs
<1>2. PICK v \in Int : v = a - b - u
  OBVIOUS
<1>3. u * v > 0
  BY <1>1, <1>2
<1>4. (a - u) * (a - u) + (b + u) * (b + u) = a * a + b * b - 2 * (u * (a - b - u))
  OBVIOUS
<1>5. a * a \in Int /\ b * b \in Int /\ u * v \in Int
  BY <1>2
<1> QED
  BY <1>2, <1>3, <1>4, <1>5

LEMMA Distance ==
    ASSUME NEW n \in Int
    PROVE  Rotation!Abs(n) \in Nat
BY DEF Rotation!Abs

\* What a move between two groups of the pool does to where they should be.
LEMMA MovedExcess ==
    ASSUME InputsTyped, NEW w \in Seatings, NEW u \in Rotation!Members,
           w[u] \in Rotation!Healthy, NEW g \in Rotation!Healthy,
           NEW w2, Relocates(w, w2, u, g),
           NEW l, NEW k, l = Rotation!Loads(w), k = Rotation!Loads(w2)
    PROVE  /\ l \in Charts /\ k \in Charts
           /\ k[w[u]] = l[w[u]] - in.usage[u] /\ k[g] = l[g] + in.usage[u]
           /\ \A h \in Rotation!Healthy \ {w[u], g} : k[h] = l[h]
           /\ in.usage[u] * Rotation!Scale \in Nat
           /\ Rotation!Excess(k, w[u]) =
                 Rotation!Excess(l, w[u]) - in.usage[u] * Rotation!Scale
           /\ Rotation!Excess(k, g) = Rotation!Excess(l, g) + in.usage[u] * Rotation!Scale
           /\ \A h \in Rotation!Healthy \ {w[u], g} :
                 Rotation!Excess(k, h) = Rotation!Excess(l, h)
<1> DEFINE a == w[u]
           use == in.usage[u]
           H == Rotation!Healthy
<1>0. /\ a \in H /\ g \in H /\ a # g /\ a \in Rotation!Groups /\ g \in Rotation!Groups
      /\ IsFiniteSet(H) /\ \A h \in H : h \in Rotation!Groups
  BY PlanFacts DEF Relocates
<1>1. l \in Charts /\ k \in Charts
  BY <1>0, LoadsTyped DEF Relocates
<1>2. \A h \in Rotation!Groups :
          k[h] = IF h = g THEN l[h] + use ELSE IF h = a THEN l[h] - use ELSE l[h]
  BY <1>0, MovedLoads
<1>3. k[a] = l[a] - use /\ k[g] = l[g] + use /\ \A h \in H \ {a, g} : k[h] = l[h]
  BY <1>0, <1>2
<1>4. use \in Nat /\ \A h \in H : l[h] \in Nat /\ k[h] \in Nat
  BY <1>0, <1>1 DEF InputsTyped, Charts
<1>5. Sum(l, H) = Sum(k, H)
  <2> HIDE DEF a, H, use
  <2>0. /\ \A h \in H : l[h] \in Nat /\ k[h] \in Nat
        /\ \A h \in H \ {a, g} : l[h] = k[h]
    BY <1>3, <1>4
  <2>1. Sum(l, H) + k[a] + k[g] = Sum(k, H) + l[a] + l[g]
    BY <1>0, <2>0, SumOfChanged
  <2>2. Sum(l, H) \in Nat /\ Sum(k, H) \in Nat
    BY <1>0, <1>4, SumIsNumber
  <2> QED
    BY <1>0, <1>3, <1>4, <2>1, <2>2
<1>6. \A h \in H : Rotation!Share(k, h) = Rotation!Share(l, h)
  BY <1>5 DEF Rotation!Share, Sum
<1>7. Rotation!Scale \in Nat /\ \A h \in H : Rotation!Share(l, h) \in Nat
  BY <1>0, <1>1, AmountsTyped
<1> DEFINE due(h) == IF in.weighted THEN Rotation!Share(l, h) ELSE 0
<1>8. \A h \in H : /\ Rotation!Excess(l, h) = l[h] * Rotation!Scale - due(h)
                   /\ Rotation!Excess(k, h) = k[h] * Rotation!Scale - due(h)
                   /\ due(h) \in Nat
  BY <1>6, <1>7 DEF Rotation!Excess
<1> HIDE DEF a, H, use, due
<1>9. use * Rotation!Scale \in Nat
  BY <1>4, <1>7
<1>10. Rotation!Excess(k, a) = Rotation!Excess(l, a) - use * Rotation!Scale
  <2>1. (l[a] - use) * Rotation!Scale = l[a] * Rotation!Scale - use * Rotation!Scale
    BY <1>0, <1>4, <1>7
  <2>2. k[a] * Rotation!Scale = l[a] * Rotation!Scale - use * Rotation!Scale
    BY <1>3, <2>1
  <2>3. l[a] * Rotation!Scale \in Int
    BY <1>0, <1>4, <1>7
  <2>4. /\ Rotation!Excess(l, a) = l[a] * Rotation!Scale - due(a)
        /\ Rotation!Excess(k, a) = k[a] * Rotation!Scale - due(a)
        /\ due(a) \in Nat
    BY <1>0, <1>8
  <2> QED
    BY <1>9, <2>2, <2>3, <2>4
<1>11. Rotation!Excess(k, g) = Rotation!Excess(l, g) + use * Rotation!Scale
  <2>1. (l[g] + use) * Rotation!Scale = l[g] * Rotation!Scale + use * Rotation!Scale
    BY <1>0, <1>4, <1>7
  <2>2. k[g] * Rotation!Scale = l[g] * Rotation!Scale + use * Rotation!Scale
    BY <1>3, <2>1
  <2>3. l[g] * Rotation!Scale \in Int
    BY <1>0, <1>4, <1>7
  <2>4. /\ Rotation!Excess(l, g) = l[g] * Rotation!Scale - due(g)
        /\ Rotation!Excess(k, g) = k[g] * Rotation!Scale - due(g)
        /\ due(g) \in Nat
    BY <1>0, <1>8
  <2> QED
    BY <1>9, <2>2, <2>3, <2>4
<1>12. \A h \in H \ {a, g} : Rotation!Excess(k, h) = Rotation!Excess(l, h)
  BY <1>3, <1>8
<1> QED
  BY <1>1, <1>3, <1>9, <1>10, <1>11, <1>12 DEF a, H, use

LEMMA DisorderTyped ==
    ASSUME InputsTyped, NEW w \in Seatings
    PROVE  Rotation!Disorder(w) \in Nat
<1> DEFINE l == Rotation!Loads(w)
           amount == [g \in Rotation!Groups |->
                         IF in.weighted THEN Rotation!Abs(Rotation!Excess(l, g)) ELSE l[g] * l[g]]
<1>1. l \in Charts
  BY LoadsTyped
<1>2. \A g \in Rotation!Groups : l[g] * l[g] \in Nat /\ Rotation!Excess(l, g) \in Int
  <2>1. \A g \in Rotation!Groups : l[g] \in Nat
    BY <1>1 DEF Charts
  <2> HIDE DEF l
  <2> QED
    BY <1>1, <2>1, AmountsTyped
<1>3. \A g \in Rotation!Healthy : amount[g] \in Nat
  <2> HIDE DEF l
  <2> QED
    BY <1>2, Distance, PlanFacts
<1>4. Rotation!Disorder(w) = Sum(amount, Rotation!Healthy)
  BY DEF Rotation!Disorder, Sum
<1> HIDE DEF amount
<1> QED
  BY <1>3, <1>4, PlanFacts, SumIsNumber

(***************************************************************************)
(* Every voluntary move makes the pool tidier: the distances from the      *)
(* shares become less, or else the squares of the loads.                   *)
(***************************************************************************)
LEMMA DisorderDrops ==
    ASSUME InputsTyped, NEW w \in Seatings, NEW u \in Rotation!Members,
           w[u] \in Rotation!Healthy, NEW g \in Rotation!Healthy,
           Rotation!Improves(Rotation!Loads(w), w[u], g, in.usage[u]),
           NEW w2, Relocates(w, w2, u, g)
    PROVE  Rotation!Disorder(w2) < Rotation!Disorder(w)
<1>a. PICK l, k : l = Rotation!Loads(w) /\ k = Rotation!Loads(w2)
  OBVIOUS
<1> DEFINE a == w[u]
           use == in.usage[u]
           H == Rotation!Healthy
           here == Rotation!Excess(l, a)
           there == Rotation!Excess(l, g)
           scaled == use * Rotation!Scale
           Amount(c, h) ==
               IF in.weighted THEN Rotation!Abs(Rotation!Excess(c, h)) ELSE c[h] * c[h]
           before == [h \in Rotation!Groups |-> Amount(l, h)]
           after == [h \in Rotation!Groups |-> Amount(k, h)]
<1>0. /\ a \in H /\ g \in H /\ a # g /\ a \in Rotation!Groups /\ g \in Rotation!Groups
      /\ IsFiniteSet(H) /\ \A h \in H : h \in Rotation!Groups
  BY PlanFacts DEF Relocates
<1>1. l \in Charts /\ k \in Charts
  BY <1>a, MovedExcess
<1>2. /\ k[a] = l[a] - use /\ k[g] = l[g] + use /\ \A h \in H \ {a, g} : k[h] = l[h]
      /\ scaled \in Nat
      /\ Rotation!Excess(k, a) = here - scaled /\ Rotation!Excess(k, g) = there + scaled
      /\ \A h \in H \ {a, g} : Rotation!Excess(k, h) = Rotation!Excess(l, h)
  BY <1>a, MovedExcess
<1>3. /\ use \in Nat /\ Delta \in Nat /\ Rotation!Scale \in Nat
      /\ here \in Int /\ there \in Int
      /\ \A c \in {l, k} : \A h \in H : c[h] \in Nat /\ Rotation!Excess(c, h) \in Int
  BY <1>0, <1>1, AmountsTyped, PlanFacts DEF InputsTyped, Charts
<1>4. /\ Rotation!Disorder(w) = Sum(before, H)
      /\ Rotation!Disorder(w2) = Sum(after, H)
  BY <1>a DEF Rotation!Disorder, Sum
<1>5. /\ \A h \in H : before[h] = Amount(l, h) /\ after[h] = Amount(k, h)
  BY <1>0
<1>6. IF in.weighted
      THEN Rotation!Abs(here - scaled) + Rotation!Abs(there + scaled)
               < Rotation!Abs(here) + Rotation!Abs(there) - Delta * Rotation!Scale
      ELSE here > there /\ Rotation!Abs(here - there - 2 * scaled) < here - there - Delta
  BY <1>a DEF Rotation!Improves
<1> HIDE DEF a, use, H, here, there, scaled, before, after
<1>7. \A c \in {l, k} : \A h \in H : Amount(c, h) \in Nat
  <2>1. \A c \in {l, k} : \A h \in H : c[h] * c[h] \in Nat
    BY <1>3
  <2> QED
    BY <1>3, <2>1, Distance
<1>8. \A h \in H \ {a, g} : Amount(k, h) = Amount(l, h)
  BY <1>2
<1>9. Amount(k, a) + Amount(k, g) < Amount(l, a) + Amount(l, g)
  <2>1. CASE in.weighted
    <3>1. Delta * Rotation!Scale \in Nat
      BY <1>3
    <3>2. /\ Amount(k, a) = Rotation!Abs(here - scaled)
          /\ Amount(k, g) = Rotation!Abs(there + scaled)
          /\ Amount(l, a) = Rotation!Abs(here) /\ Amount(l, g) = Rotation!Abs(there)
      BY <1>2, <2>1 DEF here, there
    <3>3. /\ Rotation!Abs(here - scaled) \in Nat /\ Rotation!Abs(there + scaled) \in Nat
          /\ Rotation!Abs(here) \in Nat /\ Rotation!Abs(there) \in Nat
      BY <1>2, <1>3, Distance
    <3> QED
      BY <1>6, <2>1, <3>1, <3>2, <3>3
  <2>2. CASE ~in.weighted
    <3>1. Rotation!Scale = 1
      BY <2>2 DEF Rotation!Scale
    <3>2. here = l[a] /\ there = l[g] /\ scaled = use
      <4>1. l[a] \in Nat /\ l[g] \in Nat
        BY <1>0, <1>3
      <4> QED
        BY <1>3, <2>2, <3>1, <4>1 DEF here, there, scaled, Rotation!Excess
    <3>3. (l[a] - use) * (l[a] - use) + (l[g] + use) * (l[g] + use)
              < l[a] * l[a] + l[g] * l[g]
      BY <1>3, <1>6, <2>2, <3>2, Squares
    <3> QED
      BY <1>2, <2>2, <3>3
  <2> QED
    BY <2>1, <2>2
<1> HIDE DEF Amount
<1>10. \A h \in H : before[h] \in Nat /\ after[h] \in Nat
  BY <1>5, <1>7
<1>11. Sum(before, H) + after[a] + after[g] = Sum(after, H) + before[a] + before[g]
  <2>1. \A h \in H \ {a, g} : before[h] = after[h]
    BY <1>5, <1>8
  <2> QED
    BY <1>0, <1>10, <2>1, SumOfChanged
<1>12. Sum(before, H) \in Nat /\ Sum(after, H) \in Nat
  BY <1>0, <1>10, SumIsNumber
<1> QED
  BY <1>0, <1>4, <1>5, <1>9, <1>10, <1>11, <1>12

\* Inputs stay what they are, and so does all that is read from them.
LEMMA SameGroups ==
    ASSUME in' = in
    PROVE  /\ Rotation!Healthy' = Rotation!Healthy
           /\ InputsTyped' <=> InputsTyped
           /\ \A g : Rotation!Serves(g)' <=> Rotation!Serves(g)
           /\ \A g : Rotation!Evacuated(g)' <=> Rotation!Evacuated(g)
BY DEF Rotation!Healthy, InputsTyped, Rotation!Serves, Rotation!Evacuated, Rotation!Known,
       Rotation!Groups, Rotation!Members

LEMMA SameLoads ==
    ASSUME in' = in
    PROVE  Rotation!Loads(place)' = Rotation!Loads(place')
BY DEF Rotation!Loads, Rotation!Total

LEMMA SameDisorder ==
    ASSUME in' = in
    PROVE  /\ Rotation!Disorder(place)' = Rotation!Disorder(place')
           /\ Rotation!Disorder(began)' = Rotation!Disorder(began')
<1>1. Rotation!Healthy' = Rotation!Healthy
  BY SameGroups
<1> QED
  BY <1>1 DEF Rotation!Disorder, Rotation!Loads, Rotation!Total, Rotation!Excess, Rotation!Scale,
              Rotation!Share, Rotation!Weights, Rotation!Remaining, Rotation!Known, Rotation!Abs

-----------------------------------------------------------------------------
(* The runs.                                                               *)

RotationTyped ==
    /\ InputsTyped
    /\ place \in Seatings /\ began \in Seatings
    /\ left \in SUBSET Rotation!Members /\ rotations \in Nat

\* Nobody is to be placed or evacuated.
Calm(w) == Rotation!Stranded(w) = {} /\ \A u \in Rotation!Members : w[u] # Rotation!Nowhere

\* Those a run has looked at have a place that can serve, if there is one; and if nobody
\* had to be moved when it began, every move of it was an improvement.
RotationInv ==
    /\ RotationTyped
    /\ left # {} => rotations > 0
    /\ rotations > 0 => loads = Rotation!Loads(place)
    /\ rotations > 0 /\ Rotation!Healthy # {}
       /\ (\A g \in Rotation!Healthy : Rotation!Serves(g))
       => \A u \in Rotation!Members \ left :
              /\ place[u] # Rotation!Nowhere
              /\ u \in in.protected \/ ~Rotation!Evacuated(place[u])
    /\ Calm(began) /\ Rotation!Healthy # {}
       => /\ Calm(place)
          /\ place = began \/ Rotation!Disorder(place) < Rotation!Disorder(began)

LEMMA RotationStarts == Rotation!Init => RotationInv
<1> SUFFICES ASSUME Rotation!Init PROVE RotationInv
  OBVIOUS
<1>1. InputsTyped
  <2>1. /\ in.usage \in [Rotation!Members -> 0..MaxUsage]
        /\ in.reading \in [Rotation!Groups -> Rotation!Readings]
        /\ in.weighted \in BOOLEAN /\ in.protected \in Protections
        /\ in.evacuate \in Evacuations
        /\ in = [usage |-> in.usage, reading |-> in.reading, weighted |-> in.weighted,
                 protected |-> in.protected, evacuate |-> in.evacuate]
    BY DEF Rotation!Init, Rotation!Inputs
  <2>2. /\ Protections \subseteq SUBSET Rotation!Members /\ Evacuations \subseteq BOOLEAN
        /\ MaxUsage \in Nat /\ Quota \in Nat
    BY PlanFacts DEF Rotation!PlanAssumption, Rotation!Members
  <2>3. in.usage \in [Rotation!Members -> Nat]
    BY <2>1, <2>2
  <2>4. in.reading \in [Rotation!Groups -> Int]
    BY <2>1, <2>2 DEF Rotation!Readings, Rotation!Missing
  <2> QED
    BY <2>1, <2>2, <2>3, <2>4 DEF InputsTyped
<1>2. RotationTyped
  BY <1>1 DEF Rotation!Init, RotationTyped, Seatings
<1> QED
  BY <1>2 DEF Rotation!Init, RotationInv

\* _execute_rotation: the seating and the chart change together, or not at all.
LEMMA MoveSeats ==
    ASSUME RotationTyped, in' = in, loads = Rotation!Loads(place),
           NEW u \in Rotation!Members, NEW g, Rotation!Move(u, g)
    PROVE  /\ place' \in Seatings /\ loads' = Rotation!Loads(place')
           /\ \A v \in Rotation!Members \ {u} : place'[v] = place[v]
           /\ IF g \in Rotation!Groups /\ g # place[u] /\ Rotation!Serves(g)
              THEN Relocates(place, place', u, g) ELSE place' = place
<1>1. CASE g \in Rotation!Groups /\ g # place[u] /\ Rotation!Serves(g)
  <2>1. place' = [place EXCEPT ![u] = g]
    BY <1>1 DEF Rotation!Move
  <2>2. Relocates(place, place', u, g)
    BY <1>1, <2>1 DEF Relocates, RotationTyped, Seatings
  <2>3. \A h \in Rotation!Groups :
            Rotation!Loads(place')[h] =
                IF h = g THEN Rotation!Loads(place)[h] + in.usage[u]
                ELSE IF h = place[u] THEN Rotation!Loads(place)[h] - in.usage[u]
                ELSE Rotation!Loads(place)[h]
    BY <1>1, <2>2, MovedLoads DEF RotationTyped
  <2>4. loads' = [h \in Rotation!Groups |-> IF h = g THEN loads[h] + in.usage[u]
                                            ELSE IF h = place[u] THEN loads[h] - in.usage[u]
                                            ELSE loads[h]]
    BY <1>1 DEF Rotation!Move
  <2>5. Rotation!Loads(place') \in Charts
    BY <2>2, LoadsTyped DEF Relocates, RotationTyped
  <2>6. Rotation!Loads(place') = [h \in Rotation!Groups |-> Rotation!Loads(place')[h]]
    BY <2>5 DEF Charts
  <2>7. loads' = Rotation!Loads(place')
    BY <2>3, <2>4, <2>6
  <2> QED
    BY <1>1, <2>2, <2>7 DEF Relocates
<1>2. CASE ~(g \in Rotation!Groups /\ g # place[u] /\ Rotation!Serves(g))
  BY <1>2 DEF Rotation!Move, RotationTyped
<1> QED
  BY <1>1, <1>2

\* The choice made for a user.
LEMMA ChoiceOfTarget ==
    ASSUME RotationTyped, loads = Rotation!Loads(place), NEW u \in Rotation!Members
    PROVE  \/ /\ Rotation!Target(u) = place[u]
              /\ \/ u \in in.protected \/ Rotation!Healthy = {}
                 \/ ~Rotation!Evacuated(place[u])
           \/ /\ Rotation!Target(u) \in Rotation!Healthy /\ u \notin in.protected
              /\ \/ Rotation!Evacuated(place[u])
                 \/ /\ Rotation!Target(u) # place[u]
                    /\ Rotation!Improves(loads, place[u], Rotation!Target(u), in.usage[u])
<1>1. Rotation!Healthy # {} => Rotation!Landing(loads) \in Rotation!Healthy
  BY LoadsTyped, LandingIsHealthy DEF RotationTyped
<1>2. CASE u \in in.protected \/ Rotation!Healthy = {} \/ Rotation!Settled(place[u])
  BY <1>2 DEF Rotation!Target, Rotation!Settled
<1>3. CASE ~(u \in in.protected \/ Rotation!Healthy = {} \/ Rotation!Settled(place[u]))
  <2>1. Rotation!Target(u) =
            IF \/ Rotation!Evacuated(place[u])
               \/ /\ Rotation!Landing(loads) # place[u]
                  /\ Rotation!Improves(loads, place[u], Rotation!Landing(loads), in.usage[u])
            THEN Rotation!Landing(loads) ELSE place[u]
    BY <1>3 DEF Rotation!Target
  <2> QED
    BY <1>1, <1>3, <2>1
<1> QED
  BY <1>2, <1>3

\* What looking at u does to the seating.
LEMMA SeatingStep ==
    ASSUME RotationInv, NEW u \in left, Rotation!PlaceNewcomer(u) \/ Rotation!Balance(u)
    PROVE  /\ u \in Rotation!Members /\ rotations > 0
           /\ in' = in /\ began' = began /\ rotations' = rotations /\ left' = left \ {u}
           /\ place' \in Seatings /\ loads' = Rotation!Loads(place')
           /\ \A v \in Rotation!Members \ {u} : place'[v] = place[v]
           /\ \/ place' = place
                 /\ \/ place[u] = Rotation!Nowhere
                       /\ (Rotation!Healthy = {} \/ \E g \in Rotation!Healthy : ~Rotation!Serves(g))
                    \/ /\ place[u] # Rotation!Nowhere
                       /\ \/ u \in in.protected \/ ~Rotation!Evacuated(place[u])
                          \/ Rotation!Healthy = {}
                          \/ \E g \in Rotation!Healthy : ~Rotation!Serves(g)
              \/ \E g \in Rotation!Healthy :
                    /\ Relocates(place, place', u, g)
                    /\ \/ place[u] = Rotation!Nowhere
                       \/ /\ u \notin in.protected
                          /\ \/ Rotation!Evacuated(place[u])
                             \/ Rotation!Improves(loads, place[u], g, in.usage[u])
<1>1. /\ u \in Rotation!Members /\ rotations > 0 /\ RotationTyped
      /\ loads = Rotation!Loads(place)
  BY DEF RotationInv, RotationTyped
<1>2. in' = in /\ began' = began /\ rotations' = rotations /\ left' = left \ {u}
  BY DEF Rotation!PlaceNewcomer, Rotation!Balance
<1>3. \A g \in Rotation!Healthy : g \in Rotation!Groups /\ ~Rotation!Evacuated(g)
  BY DEF Rotation!Healthy
<1>4. CASE Rotation!PlaceNewcomer(u)
  <2>1. place[u] = Rotation!Nowhere
    BY <1>4 DEF Rotation!PlaceNewcomer
  <2>2. CASE Rotation!Healthy = {}
    <3>1. place' = place /\ loads' = loads
      BY <1>4, <2>2 DEF Rotation!PlaceNewcomer
    <3> QED
      BY <1>1, <1>2, <2>1, <2>2, <3>1 DEF RotationTyped
  <2>3. CASE Rotation!Healthy # {}
    <3> DEFINE g == Rotation!Landing(loads)
    <3>1. Rotation!Move(u, g)
      BY <1>4, <2>3 DEF Rotation!PlaceNewcomer
    <3>2. g \in Rotation!Healthy
      BY <1>1, <2>3, LoadsTyped, LandingIsHealthy DEF RotationTyped
    <3> HIDE DEF g
    <3>3. /\ place' \in Seatings /\ loads' = Rotation!Loads(place')
          /\ \A v \in Rotation!Members \ {u} : place'[v] = place[v]
          /\ IF g \in Rotation!Groups /\ g # place[u] /\ Rotation!Serves(g)
             THEN Relocates(place, place', u, g) ELSE place' = place
      BY <1>1, <1>2, <3>1, MoveSeats
    <3>4. g \in Rotation!Groups /\ g # place[u]
      BY <1>3, <2>1, <3>2, PlanFacts
    <3> QED
      BY <1>1, <1>2, <2>1, <3>2, <3>3, <3>4
  <2> QED
    BY <2>2, <2>3
<1>5. CASE Rotation!Balance(u)
  <2> DEFINE g == Rotation!Target(u)
  <2>1. place[u] # Rotation!Nowhere /\ Rotation!Move(u, g)
    BY <1>5 DEF Rotation!Balance
  <2>2. \/ /\ g = place[u]
           /\ u \in in.protected \/ Rotation!Healthy = {} \/ ~Rotation!Evacuated(place[u])
        \/ /\ g \in Rotation!Healthy /\ u \notin in.protected
           /\ \/ Rotation!Evacuated(place[u])
              \/ g # place[u] /\ Rotation!Improves(loads, place[u], g, in.usage[u])
    BY <1>1, ChoiceOfTarget
  <2> HIDE DEF g
  <2>3. /\ place' \in Seatings /\ loads' = Rotation!Loads(place')
        /\ \A v \in Rotation!Members \ {u} : place'[v] = place[v]
        /\ IF g \in Rotation!Groups /\ g # place[u] /\ Rotation!Serves(g)
           THEN Relocates(place, place', u, g) ELSE place' = place
    BY <1>1, <1>2, <2>1, MoveSeats
  <2> QED
    BY <1>1, <1>2, <1>3, <2>1, <2>2, <2>3
<1> QED
  BY <1>4, <1>5

LEMMA BeginKeeps == RotationInv /\ Rotation!Begin => RotationInv'
<1> SUFFICES ASSUME RotationInv, Rotation!Begin PROVE RotationInv'
  OBVIOUS
<1>1. /\ in' = in /\ place' = place /\ began' = place /\ left' = Rotation!Members
      /\ rotations' = rotations + 1 /\ loads' = Rotation!Loads(place)
  BY DEF Rotation!Begin
<1>2. RotationTyped'
  BY <1>1, SameGroups DEF RotationInv, RotationTyped, Seatings, Rotation!Members, Rotation!Groups
<1>3. rotations' > 0
  BY <1>1 DEF RotationInv, RotationTyped
<1>4. loads' = Rotation!Loads(place)'
  BY <1>1, SameLoads
<1>5. \A u \in Rotation!Members' \ left' : FALSE
  BY <1>1 DEF Rotation!Members
<1>6. Calm(began)' => Calm(place)'
  BY <1>1 DEF Calm, Rotation!Stranded
<1> QED
  BY <1>1, <1>2, <1>3, <1>4, <1>5, <1>6 DEF RotationInv

LEMMA LookingKeeps ==
    ASSUME RotationInv, NEW u \in left, Rotation!PlaceNewcomer(u) \/ Rotation!Balance(u)
    PROVE  RotationInv'
<1>1. /\ u \in Rotation!Members /\ rotations > 0
      /\ in' = in /\ began' = began /\ rotations' = rotations /\ left' = left \ {u}
      /\ place' \in Seatings /\ loads' = Rotation!Loads(place')
      /\ \A v \in Rotation!Members \ {u} : place'[v] = place[v]
  BY SeatingStep
<1>2. \/ place' = place
         /\ \/ place[u] = Rotation!Nowhere
               /\ (Rotation!Healthy = {} \/ \E g \in Rotation!Healthy : ~Rotation!Serves(g))
            \/ /\ place[u] # Rotation!Nowhere
               /\ \/ u \in in.protected \/ ~Rotation!Evacuated(place[u])
                  \/ Rotation!Healthy = {}
                  \/ \E g \in Rotation!Healthy : ~Rotation!Serves(g)
      \/ \E g \in Rotation!Healthy :
            /\ Relocates(place, place', u, g)
            /\ \/ place[u] = Rotation!Nowhere
               \/ /\ u \notin in.protected
                  /\ \/ Rotation!Evacuated(place[u])
                     \/ Rotation!Improves(loads, place[u], g, in.usage[u])
  BY SeatingStep
<1>3. /\ Rotation!Healthy' = Rotation!Healthy
      /\ \A g : Rotation!Serves(g)' <=> Rotation!Serves(g)
      /\ \A g : Rotation!Evacuated(g)' <=> Rotation!Evacuated(g)
  BY <1>1, SameGroups
<1>4. RotationTyped'
  BY <1>1, SameGroups DEF RotationInv, RotationTyped, Seatings, Rotation!Members, Rotation!Groups
<1>5. (left' # {} => rotations' > 0) /\ loads' = Rotation!Loads(place)'
  BY <1>1, SameLoads
<1>6. \A g \in Rotation!Healthy :
          ~Rotation!Evacuated(g) /\ g # Rotation!Nowhere /\ g \in Rotation!Groups
  BY PlanFacts DEF Rotation!Healthy
<1>7. ASSUME Rotation!Healthy # {}, \A g \in Rotation!Healthy : Rotation!Serves(g),
             NEW v \in Rotation!Members \ left'
      PROVE  /\ place'[v] # Rotation!Nowhere
             /\ v \in in.protected \/ ~Rotation!Evacuated(place'[v])
  <2>1. CASE v = u
    <3>1. CASE place' = place
      BY <1>2, <1>6, <1>7, <2>1, <3>1 DEF Relocates
    <3>2. CASE place' # place
      BY <1>2, <1>6, <2>1, <3>2 DEF Relocates
    <3> QED
      BY <3>1, <3>2
  <2>2. CASE v # u
    BY <1>1, <1>7, <2>2 DEF RotationInv
  <2> QED
    BY <2>1, <2>2
<1>8. ASSUME Calm(began), Rotation!Healthy # {}
      PROVE  /\ Calm(place')
             /\ place' = began \/ Rotation!Disorder(place') < Rotation!Disorder(began)
  <2>1. Calm(place) /\ (place = began \/ Rotation!Disorder(place) < Rotation!Disorder(began))
    BY <1>8 DEF RotationInv
  <2>2. CASE place' = place
    BY <2>1, <2>2
  <2>3. CASE place' # place
    <3>1. PICK g \in Rotation!Healthy :
              /\ Relocates(place, place', u, g)
              /\ \/ place[u] = Rotation!Nowhere
                 \/ /\ u \notin in.protected
                    /\ \/ Rotation!Evacuated(place[u])
                       \/ Rotation!Improves(loads, place[u], g, in.usage[u])
      BY <1>2, <2>3
    <3>2. place[u] # Rotation!Nowhere /\ (u \in in.protected \/ ~Rotation!Evacuated(place[u]))
      BY <1>1, <2>1 DEF Calm, Rotation!Stranded
    <3>3. place[u] \in Rotation!Healthy
      BY <1>1, <3>1, <3>2 DEF RotationInv, RotationTyped, Seatings, Rotation!Healthy
    <3>4. InputsTyped /\ place \in Seatings /\ loads = Rotation!Loads(place)
      BY <1>1 DEF RotationInv, RotationTyped
    <3>5. Rotation!Disorder(place') < Rotation!Disorder(place)
      BY <1>1, <3>1, <3>2, <3>3, <3>4, DisorderDrops
    <3>6. /\ Rotation!Disorder(place') \in Nat /\ Rotation!Disorder(place) \in Nat
          /\ Rotation!Disorder(began) \in Nat
      BY <1>1, <3>4, DisorderTyped DEF RotationInv, RotationTyped
    <3>7. Calm(place')
      BY <1>1, <1>6, <2>1, <3>1 DEF Calm, Rotation!Stranded, Relocates
    <3> QED
      BY <2>1, <3>5, <3>6, <3>7
  <2> QED
    BY <2>2, <2>3
<1>9. /\ Calm(began)' <=> Calm(began)
      /\ Calm(place)' <=> Calm(place')
      /\ Rotation!Disorder(place)' = Rotation!Disorder(place')
      /\ Rotation!Disorder(began)' = Rotation!Disorder(began)
  <2>1. (Calm(began)' <=> Calm(began)) /\ (Calm(place)' <=> Calm(place'))
    BY <1>1, <1>3 DEF Calm, Rotation!Stranded, Rotation!Members
  <2> QED
    BY <1>1, <2>1, SameDisorder
<1>10. Rotation!Members' = Rotation!Members /\ in' = in
  BY <1>1 DEF Rotation!Members
<1> QED
  BY <1>1, <1>3, <1>4, <1>5, <1>7, <1>8, <1>9, <1>10 DEF RotationInv

LEMMA RotationGoesOn == RotationInv /\ [Rotation!Next]_Rotation!vars => RotationInv'
<1> SUFFICES ASSUME RotationInv, [Rotation!Next]_Rotation!vars PROVE RotationInv'
  OBVIOUS
<1>1. CASE UNCHANGED Rotation!vars
  <2>1. /\ in' = in /\ place' = place /\ loads' = loads /\ left' = left
        /\ rotations' = rotations /\ began' = began
    BY <1>1 DEF Rotation!vars
  <2>2. RotationTyped'
    BY <2>1, SameGroups DEF RotationInv, RotationTyped, Seatings, Rotation!Members, Rotation!Groups
  <2>3. /\ Rotation!Healthy' = Rotation!Healthy
        /\ \A g : Rotation!Serves(g)' <=> Rotation!Serves(g)
        /\ \A g : Rotation!Evacuated(g)' <=> Rotation!Evacuated(g)
    BY <2>1, SameGroups
  <2>4. /\ (Calm(began)' <=> Calm(began)) /\ (Calm(place)' <=> Calm(place))
        /\ Rotation!Members' = Rotation!Members
    BY <2>1, <2>3 DEF Calm, Rotation!Stranded, Rotation!Members
  <2>5. /\ Rotation!Disorder(place)' = Rotation!Disorder(place)
        /\ Rotation!Disorder(began)' = Rotation!Disorder(began)
        /\ Rotation!Loads(place)' = Rotation!Loads(place)
    BY <2>1, SameDisorder, SameLoads
  <2> QED
    BY <2>1, <2>2, <2>3, <2>4, <2>5 DEF RotationInv
<1>2. ASSUME NEW u \in left, Rotation!PlaceNewcomer(u) \/ Rotation!Balance(u)
      PROVE  RotationInv'
  BY <1>2, LookingKeeps
<1> QED
  BY <1>1, <1>2, BeginKeeps DEF Rotation!Next

\* The same in the composition.
SeatedInv == subject = "rotation" => RotationInv

LEMMA SeatedStarts == AnyInit => SeatedInv
BY RotationStarts DEF AnyInit, SeatedInv

LEMMA SeatedGoesOn == SeatedInv /\ [AnyNext]_anyVars => SeatedInv'
<1> SUFFICES ASSUME SeatedInv, [AnyNext]_anyVars, subject' = "rotation" PROVE RotationInv'
  BY DEF SeatedInv
<1>1. subject = "rotation" /\ [Rotation!Next]_Rotation!vars
  BY DEF AnyNext, anyVars, rotationVars, Rotation!vars
<1> QED
  BY <1>1, RotationGoesOn DEF SeatedInv

(***************************************************************************)
(* For all usages, readings, protections and settings: at the end of a run *)
(* nobody who may be moved is on a group that can no longer serve, and     *)
(* every newcomer has a group, if every other group of the pool can take   *)
(* users (rotation.py, the evacuation before the balancing shortcut).      *)
(***************************************************************************)
THEOREM RunsEvacuate == AnySpec => []EvacuationEmpties
<1>1. SeatedInv => EvacuationEmpties
  <2> SUFFICES ASSUME SeatedInv, subject = "rotation", rotations > 0, left = {},
                      Rotation!Healthy # {}, \A g \in Rotation!Healthy : Rotation!Serves(g)
               PROVE  /\ Rotation!Stranded(place) = {}
                      /\ \A u \in Rotation!Members : place[u] # Rotation!Nowhere
    BY DEF EvacuationEmpties, Rotation!EvacuationEmpties
  <2>1. \A u \in Rotation!Members : /\ place[u] # Rotation!Nowhere
                                    /\ u \in in.protected \/ ~Rotation!Evacuated(place[u])
    BY DEF SeatedInv, RotationInv
  <2> QED
    BY <2>1 DEF Rotation!Stranded
<1> QED
  BY <1>1, SeatedStarts, SeatedGoesOn, PTL DEF AnySpec

(***************************************************************************)
(* Runs that have nobody to place and nobody to evacuate do not undo each  *)
(* other: such a run moves nobody or leaves the pool tidier, so that no    *)
(* seating is ever seen again.                                             *)
(***************************************************************************)
THEOREM RunsDoSettle == AnySpec => []RunsSettle
<1>1. SeatedInv => RunsSettle
  BY DEF SeatedInv, RotationInv, Calm, RunsSettle, Rotation!Settling
<1> QED
  BY <1>1, SeatedStarts, SeatedGoesOn, PTL DEF AnySpec

-----------------------------------------------------------------------------
(* Usage rows: their pages.                                                *)

LEMMA CrawlFacts ==
    /\ PageSize \in Nat \ {0} /\ Width \in Nat \ {0} /\ MaxPages \in Nat \ {0}
    /\ MaxItems \in Nat /\ MaxRows \in Nat
BY BackgroundAssumption DEF Crawl!CrawlAssumption

\* The page that the i-th row is on.
PageOf(i) == (i - 1) \div PageSize + 1

LEMMA PageHolds ==
    ASSUME NEW i \in Nat \ {0}
    PROVE  /\ PageOf(i) \in Nat \ {0}
           /\ (PageOf(i) - 1) * PageSize < i /\ i <= PageOf(i) * PageSize
BY CrawlFacts DEF PageOf

LEMMA PagesInOrder ==
    ASSUME NEW p \in Nat, NEW q \in Nat, p < q
    PROVE  (p + 1) * PageSize <= q * PageSize /\ p * PageSize < q * PageSize
BY CrawlFacts

LEMMA PageAfterPage ==
    ASSUME NEW p \in Nat \ {0}
    PROVE  /\ (p - 1) * PageSize \in Nat /\ p * PageSize \in Nat
           /\ (p - 1) * PageSize + PageSize = p * PageSize
           /\ (p + 1) * PageSize = p * PageSize + PageSize
BY CrawlFacts

LEMMA PageShows ==
    ASSUME NEW p \in Nat \ {0}, NEW n \in Nat
    PROVE  /\ Crawl!OnPage(p, n) \in 0..PageSize
           /\ Crawl!OnPage(p, n) > 0 => n >= (p - 1) * PageSize + Crawl!OnPage(p, n)
           /\ ~Crawl!Short(p, n) => Crawl!OnPage(p, n) = PageSize /\ n >= p * PageSize
           /\ Crawl!Short(p, n) => \/ n < (p - 1) * PageSize /\ Crawl!OnPage(p, n) = 0
                                   \/ n = (p - 1) * PageSize + Crawl!OnPage(p, n)
BY CrawlFacts, PageAfterPage DEF Crawl!OnPage, Crawl!Short

-----------------------------------------------------------------------------
(* Rows in the order of the listing.                                       *)

\* Going down, no row is passed over.
Descends(items) == \A i, j \in 1..Len(items) : j = i + 1 => items[j] >= items[i] - 1

\* Unless the limit was reached, the oldest row is there.
Complete(items) == items # <<>> /\ ~Crawl!Capped(items) => items[Len(items)] = 1

\* The newest row is the first one.
Led(items) == \A i \in 1..Len(items) : items[i] <= items[1]

\* Every row of n, once.
Exact(items, n) ==
    /\ Len(items) <= n /\ \A i \in 1..Len(items) : items[i] = n - i + 1
    /\ Len(items) < n => Crawl!Capped(items)

\* The first n rows are on the pages up to one, and those before it are full.
Covers(pages, n, last, top) ==
    /\ \A p \in 1..last : p \in DOMAIN pages /\ pages[p] \in 0..top
    /\ \A p \in 1..(last - 1) : pages[p] >= p * PageSize
    /\ (last - 1) * PageSize <= n /\ n <= last * PageSize
    /\ n > (last - 1) * PageSize => pages[last] >= n

LEMMA CoveredRow ==
    ASSUME NEW n \in Nat, NEW last \in Nat \ {0}, NEW top \in Nat, NEW pages,
           Covers(pages, n, last, top), NEW i \in 1..n
    PROVE  /\ PageOf(i) \in 1..last
           /\ pages[PageOf(i)] \in i..top
           /\ Crawl!RowAt(pages, i) = pages[PageOf(i)] - i + 1
           /\ Crawl!RowAt(pages, i) \in 1..top
<1>1. PageOf(i) \in Nat \ {0} /\ (PageOf(i) - 1) * PageSize < i /\ i <= PageOf(i) * PageSize
  BY PageHolds
<1>2. PageOf(i) \in 1..last
  <2>1. SUFFICES ASSUME last < PageOf(i) PROVE FALSE
    BY <1>1
  <2>2. last <= PageOf(i) - 1 /\ PageOf(i) - 1 \in Nat
    BY <1>1, <2>1
  <2>3. last * PageSize <= (PageOf(i) - 1) * PageSize
    <3>1. last = PageOf(i) - 1 \/ last < PageOf(i) - 1
      BY <2>2
    <3>2. CASE last < PageOf(i) - 1
      BY <3>2, <2>2, PagesInOrder, PageAfterPage, CrawlFacts
    <3>3. CASE last = PageOf(i) - 1
      BY <3>3, PageAfterPage
    <3> QED
      BY <3>1, <3>2, <3>3
  <2>4. last * PageSize \in Nat /\ (PageOf(i) - 1) * PageSize \in Nat
    BY <1>1, PageAfterPage
  <2> QED
    BY <1>1, <2>3, <2>4 DEF Covers
<1>3. pages[PageOf(i)] \in 0..top
  BY <1>2 DEF Covers
<1>4. pages[PageOf(i)] >= i
  <2>1. CASE PageOf(i) = last
    <3>1. n > (last - 1) * PageSize
      BY <1>1, <2>1, PageAfterPage
    <3> QED
      BY <1>3, <2>1, <3>1 DEF Covers
  <2>2. CASE PageOf(i) \in 1..(last - 1)
    <3>1. pages[PageOf(i)] >= PageOf(i) * PageSize /\ PageOf(i) * PageSize \in Nat
      BY <1>1, <2>2, PageAfterPage DEF Covers
    <3> QED
      BY <1>1, <1>3, <3>1
  <2> QED
    BY <1>2, <2>1, <2>2
<1>5. Crawl!RowAt(pages, i) = pages[PageOf(i)] - i + 1
  BY DEF Crawl!RowAt, PageOf
<1> QED
  BY <1>2, <1>3, <1>4, <1>5

\* Later pages show listings that are no shorter.
Growing(pages) == \A p, q \in DOMAIN pages : p < q => pages[p] <= pages[q]

LEMMA MergedRows ==
    ASSUME NEW n \in Nat, NEW last \in Nat \ {0}, NEW top \in Nat, NEW pages,
           Covers(pages, n, last, top)
    PROVE  /\ Crawl!Merged(pages, n) \in Seq(1..top)
           /\ Len(Crawl!Merged(pages, n)) = n
           /\ \A i \in 1..n : Crawl!Merged(pages, n)[i] = pages[PageOf(i)] - i + 1
           /\ Growing(pages) => Descends(Crawl!Merged(pages, n))
           /\ n > 0 => Crawl!Merged(pages, n)[1] = pages[1]
           /\ (\A p \in 1..last : pages[p] = top)
                => n <= top /\ \A i \in 1..n : Crawl!Merged(pages, n)[i] = top - i + 1
<1> DEFINE s == Crawl!Merged(pages, n)
<1>1. \A i \in 1..n : /\ PageOf(i) \in 1..last /\ pages[PageOf(i)] \in i..top
                      /\ Crawl!RowAt(pages, i) = pages[PageOf(i)] - i + 1
                      /\ Crawl!RowAt(pages, i) \in 1..top
  BY CoveredRow
<1>2. s = [i \in 1..n |-> Crawl!RowAt(pages, i)]
  BY DEF Crawl!Merged
<1>3. s \in Seq(1..top) /\ Len(s) = n
  BY <1>1, <1>2
<1>4. \A i \in 1..n : s[i] = pages[PageOf(i)] - i + 1
  BY <1>1, <1>2
<1> HIDE DEF s
<1>5. ASSUME Growing(pages) PROVE Descends(s)
  <2> SUFFICES ASSUME NEW i \in 1..n, NEW j \in 1..n, j = i + 1 PROVE s[j] >= s[i] - 1
    BY <1>3 DEF Descends
  <2>1. PageOf(i) <= PageOf(j)
    <3>1. SUFFICES ASSUME PageOf(j) < PageOf(i) PROVE FALSE
      BY <1>1
    <3>2. PageOf(j) \in Nat \ {0} /\ PageOf(i) - 1 \in Nat /\ PageOf(j) <= PageOf(i) - 1
      BY <1>1, <3>1
    <3>3. PageOf(j) * PageSize <= (PageOf(i) - 1) * PageSize
      <4>1. CASE PageOf(j) = PageOf(i) - 1
        BY <4>1, <3>2, PageAfterPage
      <4>2. CASE PageOf(j) < PageOf(i) - 1
        BY <4>2, <3>2, PagesInOrder, PageAfterPage, CrawlFacts
      <4> QED
        BY <3>2, <4>1, <4>2
    <3>4. j <= PageOf(j) * PageSize /\ (PageOf(i) - 1) * PageSize < i
      BY PageHolds
    <3>5. PageOf(j) * PageSize \in Nat /\ (PageOf(i) - 1) * PageSize \in Nat
      BY <3>2, <1>1, PageAfterPage
    <3> QED
      BY <3>3, <3>4, <3>5
  <2>2. pages[PageOf(i)] <= pages[PageOf(j)]
    <3>1. PageOf(i) \in DOMAIN pages /\ PageOf(j) \in DOMAIN pages
      BY <1>1 DEF Covers
    <3>2. CASE PageOf(i) = PageOf(j)
      BY <1>1, <3>2
    <3>3. CASE PageOf(i) < PageOf(j)
      BY <1>5, <3>1, <3>3 DEF Growing
    <3> QED
      BY <1>1, <2>1, <3>2, <3>3
  <2>3. pages[PageOf(i)] \in Int /\ pages[PageOf(j)] \in Int
    BY <1>1
  <2> QED
    BY <1>4, <2>2, <2>3
<1>6. ASSUME n > 0 PROVE s[1] = pages[1]
  <2>1. PageOf(1) = 1
    BY CrawlFacts DEF PageOf
  <2>2. pages[1] \in Int
    BY <1>1, <1>6, <2>1
  <2> QED
    BY <1>4, <1>6, <2>1, <2>2
<1>7. ASSUME \A p \in 1..last : pages[p] = top
      PROVE  n <= top /\ \A i \in 1..n : s[i] = top - i + 1
  <2>1. n > 0 => pages[PageOf(n)] \in n..top
    BY <1>1
  <2> QED
    BY <1>1, <1>4, <1>7, <2>1
<1> QED
  BY <1>3, <1>4, <1>5, <1>6, <1>7 DEF s

LEMMA CrawlEnds ==
    ASSUME NEW last \in Nat \ {0}, NEW top \in Nat, NEW pages,
           \A p \in 1..last : p \in DOMAIN pages /\ pages[p] \in 0..top,
           \A p \in 1..(last - 1) : pages[p] >= p * PageSize
    PROVE  LET n == (last - 1) * PageSize + Crawl!OnPage(last, pages[last])
           IN  /\ n \in Nat /\ Covers(pages, n, last, top)
               /\ n = 0 => last = 1 /\ pages[1] = 0
               /\ Growing(pages) /\ (Crawl!Short(last, pages[last]) \/ Crawl!Limited(last * PageSize))
                    => Complete(Crawl!Merged(pages, n))
               /\ (\A p \in 1..last : pages[p] = top)
                  /\ (Crawl!Short(last, pages[last]) \/ Crawl!Limited(last * PageSize))
                    => Exact(Crawl!Merged(pages, n), top)
<1> DEFINE size == Crawl!OnPage(last, pages[last])
           n == (last - 1) * PageSize + size
           s == Crawl!Merged(pages, n)
<1>1. pages[last] \in Nat
  OBVIOUS
<1>2. /\ size \in 0..PageSize
      /\ size > 0 => pages[last] >= (last - 1) * PageSize + size
      /\ ~Crawl!Short(last, pages[last]) => size = PageSize /\ pages[last] >= last * PageSize
      /\ Crawl!Short(last, pages[last]) => \/ pages[last] < (last - 1) * PageSize /\ size = 0
                                           \/ pages[last] = (last - 1) * PageSize + size
  BY <1>1, PageShows
<1>3. (last - 1) * PageSize \in Nat /\ last * PageSize \in Nat
      /\ (last - 1) * PageSize + PageSize = last * PageSize /\ PageSize \in Nat \ {0}
  BY PageAfterPage, CrawlFacts
<1> HIDE DEF size
<1>4. n \in Nat /\ Covers(pages, n, last, top)
  BY <1>1, <1>2, <1>3 DEF Covers
<1> HIDE DEF n, s
<1>5. /\ Len(s) = n
      /\ \A i \in 1..n : s[i] = pages[PageOf(i)] - i + 1
      /\ (\A p \in 1..last : pages[p] = top) => n <= top /\ \A i \in 1..n : s[i] = top - i + 1
  BY <1>4, MergedRows DEF s
<1>6. ASSUME n = 0 PROVE last = 1 /\ pages[1] = 0
  <2>1. last = 1
    <3>1. SUFFICES ASSUME 1 < last PROVE FALSE
      OBVIOUS
    <3>2. last - 1 \in Nat \ {0}
      BY <3>1
    <3>3. (last - 1) * PageSize > 0
      BY <1>3, <3>2
    <3> QED
      BY <1>2, <1>3, <1>6, <3>3 DEF n
  <2> QED
    BY <1>1, <1>2, <1>3, <1>6, <2>1 DEF n
<1>7. ASSUME Growing(pages), Crawl!Short(last, pages[last]), n > 0 PROVE pages[last] = n
  <2>1. SUFFICES ASSUME pages[last] < (last - 1) * PageSize PROVE FALSE
    BY <1>2, <1>7 DEF n
  <2>2. last > 1
    BY <1>1, <1>3, <2>1
  <2>3. last - 1 \in DOMAIN pages /\ last \in DOMAIN pages /\ pages[last - 1] \in Nat
        /\ pages[last - 1] >= (last - 1) * PageSize
    BY <2>2
  <2>4. pages[last - 1] <= pages[last]
    BY <1>7, <2>3 DEF Growing
  <2> QED
    BY <1>1, <1>3, <2>1, <2>3, <2>4
<1>8. ASSUME Crawl!Limited(last * PageSize), ~Crawl!Short(last, pages[last]) PROVE Crawl!Capped(s)
  <2>1. n = last * PageSize
    BY <1>2, <1>3, <1>8 DEF n
  <2> QED
    BY <1>5, <1>8, <2>1 DEF Crawl!Capped
<1>9. ASSUME Growing(pages), Crawl!Short(last, pages[last]) \/ Crawl!Limited(last * PageSize)
      PROVE  Complete(s)
  <2> SUFFICES ASSUME s # <<>>, ~Crawl!Capped(s) PROVE s[Len(s)] = 1
    BY DEF Complete
  <2>1. n > 0
    <3>1. s \in Seq(1..top)
      BY <1>4, MergedRows DEF s
    <3> QED
      BY <1>4, <1>5, <3>1
  <2>2. pages[last] = n
    BY <1>7, <1>8, <1>9, <2>1
  <2>3. PageOf(n) \in 1..last /\ pages[PageOf(n)] \in n..top
    BY <1>4, <2>1, CoveredRow
  <2>4. pages[PageOf(n)] <= pages[last]
    <3>1. PageOf(n) \in DOMAIN pages /\ last \in DOMAIN pages
      BY <2>3
    <3>2. CASE PageOf(n) < last
      BY <1>9, <3>1, <3>2 DEF Growing
    <3>3. CASE PageOf(n) = last
      BY <1>1, <3>3
    <3> QED
      BY <2>3, <3>2, <3>3
  <2> QED
    BY <1>4, <1>5, <2>1, <2>2, <2>3, <2>4
<1>10. ASSUME \A p \in 1..last : pages[p] = top,
              Crawl!Short(last, pages[last]) \/ Crawl!Limited(last * PageSize)
       PROVE  Exact(s, top)
  <2>1. Growing(pages) \/ TRUE
    OBVIOUS
  <2>2. ASSUME n < top PROVE Crawl!Capped(s)
    <3>1. pages[last] = top
      BY <1>10
    <3>2. CASE Crawl!Short(last, pages[last])
      <4>1. pages[last] < (last - 1) * PageSize
        BY <1>2, <2>2, <3>1, <3>2 DEF n
      <4>2. last > 1
        BY <1>1, <1>3, <4>1
      <4>3. pages[last - 1] = top /\ pages[last - 1] >= (last - 1) * PageSize
        BY <1>10, <4>2
      <4> QED
        BY <1>3, <3>1, <4>1, <4>3
    <3> QED
      BY <1>8, <1>10, <3>2
  <2> QED
    BY <1>5, <1>10, <2>2 DEF Exact
<1> QED
  BY <1>4, <1>6, <1>9, <1>10 DEF n, s, size

\* Cutting rows to the limit.
LEMMA KeptRows ==
    ASSUME NEW S, NEW items \in Seq(S)
    PROVE  /\ Crawl!Kept(items) \in Seq(S)
           /\ Len(Crawl!Kept(items)) <= Len(items)
           /\ \A i \in 1..Len(Crawl!Kept(items)) : Crawl!Kept(items)[i] = items[i]
           /\ ~Crawl!Capped(items) => Crawl!Kept(items) = items
           /\ Crawl!Capped(items) => Crawl!Capped(Crawl!Kept(items))
           /\ Crawl!Kept(items) = <<>> => items = <<>>
<1>1. CASE ~Crawl!Capped(items)
  BY <1>1 DEF Crawl!Kept
<1>2. CASE Crawl!Capped(items)
  <2>1. Crawl!Kept(items) = SubSeq(items, 1, MaxItems)
    BY <1>2 DEF Crawl!Kept
  <2>2. MaxItems \in Nat \ {0} /\ MaxItems <= Len(items)
    BY <1>2, CrawlFacts DEF Crawl!Capped, Crawl!Limited
  <2>3. /\ SubSeq(items, 1, MaxItems) \in Seq(S)
        /\ Len(SubSeq(items, 1, MaxItems)) = MaxItems
        /\ \A i \in 1..MaxItems : SubSeq(items, 1, MaxItems)[i] = items[i]
    BY <2>2
  <2> QED
    BY <1>2, <2>1, <2>2, <2>3 DEF Crawl!Capped, Crawl!Limited
<1> QED
  BY <1>1, <1>2

LEMMA KeptKeeps ==
    ASSUME NEW n \in Nat, NEW items \in Seq(1..n)
    PROVE  /\ Descends(items) => Descends(Crawl!Kept(items))
           /\ Complete(items) => Complete(Crawl!Kept(items))
           /\ Exact(items, n) => Exact(Crawl!Kept(items), n)
<1> DEFINE cut == Crawl!Kept(items)
<1>1. /\ cut \in Seq(1..n) /\ Len(cut) <= Len(items) /\ Len(cut) \in Nat /\ Len(items) \in Nat
      /\ \A i \in 1..Len(cut) : cut[i] = items[i]
      /\ ~Crawl!Capped(items) => cut = items
      /\ Crawl!Capped(items) => Crawl!Capped(cut)
  BY KeptRows
<1> HIDE DEF cut
<1>2. Descends(items) => Descends(cut)
  BY <1>1 DEF Descends
<1>3. Complete(items) => Complete(cut)
  BY <1>1 DEF Complete
<1>4. Exact(items, n) => Exact(cut, n)
  BY <1>1 DEF Exact
<1> QED
  BY <1>2, <1>3, <1>4 DEF cut

\* Rows that go down in steps of one at most, from above a row to below it, contain it.
LEMMA NoGap ==
    ASSUME NEW n \in Nat, NEW items \in Seq(1..n), Descends(items), NEW row \in Int,
           items # <<>>, row <= items[1],
           NEW k \in 1..Len(items), items[k] <= row
    PROVE  \E i \in 1..Len(items) : items[i] = row
<1> DEFINE S == {i \in 1..Len(items) : items[i] <= row}
<1>1. PICK m \in S : \A i \in S : m <= i
  <2>1. S \in SUBSET Int /\ k \in S /\ S \subseteq 1..Len(items)
    OBVIOUS
  <2>2. IsFiniteSet(S)
    <3>1. IsFiniteSet(1..Len(items))
      BY FS_Interval
    <3> QED
      BY <2>1, <3>1, FS_Subset
  <2> HIDE DEF S
  <2> QED
    BY <2>1, <2>2, LeastNumber
<1>2. m \in 1..Len(items) /\ items[m] <= row /\ items[m] \in Int
  OBVIOUS
<1>3. CASE m = 1
  BY <1>2, <1>3
<1>4. CASE m > 1
  <2>1. m - 1 \in 1..Len(items) /\ items[m - 1] \in Int
    BY <1>2, <1>4
  <2>2. ~(items[m - 1] <= row)
    BY <1>1, <1>2, <2>1
  <2>3. items[m] >= items[m - 1] - 1
    BY <1>2, <2>1 DEF Descends
  <2> QED
    BY <1>2, <2>1, <2>2, <2>3
<1> QED
  BY <1>2, <1>3, <1>4

Below(P, i) == {j \in P : j < i}

LEMMA RanksFill ==
    ASSUME NEW S, IsFiniteSet(S), NEW rank \in [S -> 0..(Cardinality(S) - 1)],
           \A x, y \in S : rank[x] = rank[y] => x = y
    PROVE  \A r \in 0..(Cardinality(S) - 1) : \E x \in S : rank[x] = r
<1> DEFINE ranks == 0..(Cardinality(S) - 1)
<1>1. IsFiniteSet(ranks) /\ Cardinality(S) = Cardinality(ranks)
  <2>1. Cardinality(S) \in Nat
    BY FS_CardinalityType
  <2> QED
    BY <2>1, FS_Interval
<1> HIDE DEF ranks
<1>2. rank \in [S -> ranks]
  BY DEF ranks
<1>3. \A r \in ranks : \E x \in S : rank[x] = r
  BY <1>1, <1>2, FillsUp
<1> QED
  BY <1>3 DEF ranks

\* There is an element for every rank of a finite set of numbers, and only one.
LEMMA NumbersRank ==
    ASSUME NEW P \in SUBSET Int, IsFiniteSet(P)
    PROVE  /\ Cardinality(P) \in Nat
           /\ \A i \in P : Cardinality(Below(P, i)) \in 0..(Cardinality(P) - 1)
           /\ \A i, j \in P : Cardinality(Below(P, i)) = Cardinality(Below(P, j)) => i = j
           /\ \A r \in 0..(Cardinality(P) - 1) : \E i \in P : Cardinality(Below(P, i)) = r
<1>1. \A i : IsFiniteSet(Below(P, i)) /\ Cardinality(Below(P, i)) \in Nat
  BY FS_Subset, FS_CardinalityType DEF Below
<1>2. Cardinality(P) \in Nat
  BY FS_CardinalityType
<1>3. ASSUME NEW i \in P PROVE Cardinality(Below(P, i)) \in 0..(Cardinality(P) - 1)
  <2>1. Below(P, i) \subseteq P /\ Below(P, i) # P
    BY DEF Below
  <2>2. Cardinality(Below(P, i)) < Cardinality(P)
    BY <1>1, <1>2, <2>1, FS_Subset
  <2> QED
    BY <1>1, <1>2, <2>2
<1>4. ASSUME NEW i \in P, NEW j \in P, i < j
      PROVE  Cardinality(Below(P, i)) < Cardinality(Below(P, j))
  <2>1. Below(P, i) \subseteq Below(P, j) /\ i \in Below(P, j) /\ i \notin Below(P, i)
    <3>1. i \in Int /\ j \in Int /\ \A x \in P : x \in Int
      OBVIOUS
    <3>2. i \in Below(P, j) /\ i \notin Below(P, i)
      BY <1>4, <3>1 DEF Below
    <3>3. \A x \in P : x < i => x < j
      BY <1>4, <3>1
    <3>4. Below(P, i) \subseteq Below(P, j)
      BY <3>3 DEF Below
    <3> QED
      BY <3>2, <3>4
  <2>2. Below(P, i) # Below(P, j)
    BY <2>1
  <2> QED
    BY <1>1, <2>1, <2>2, FS_Subset
<1>5. \A i, j \in P : Cardinality(Below(P, i)) = Cardinality(Below(P, j)) => i = j
  <2> SUFFICES ASSUME NEW i \in P, NEW j \in P,
                      Cardinality(Below(P, i)) = Cardinality(Below(P, j))
               PROVE  i = j
    OBVIOUS
  <2>1. i \in Int /\ j \in Int
    OBVIOUS
  <2>2. ~(i < j) /\ ~(j < i)
    BY <1>1, <1>4
  <2> QED
    BY <2>1, <2>2
<1>6. \A r \in 0..(Cardinality(P) - 1) : \E i \in P : Cardinality(Below(P, i)) = r
  <2> DEFINE rank == [i \in P |-> Cardinality(Below(P, i))]
  <2>1. rank \in [P -> 0..(Cardinality(P) - 1)]
    BY <1>3
  <2>2. \A i, j \in P : rank[i] = rank[j] => i = j
    BY <1>5
  <2>3. \A i \in P : rank[i] = Cardinality(Below(P, i))
    OBVIOUS
  <2> HIDE DEF rank
  <2>4. \A r \in 0..(Cardinality(P) - 1) : \E i \in P : rank[i] = r
    BY <2>1, <2>2, RanksFill
  <2> QED
    BY <2>3, <2>4
<1> QED
  BY <1>2, <1>3, <1>5, <1>6

\* The items at some positions.
LEMMA PickedItems ==
    ASSUME NEW S, NEW items \in Seq(S), NEW P \in SUBSET (1..Len(items))
    PROVE  /\ Crawl!Picked(items, P) \in Seq(S)
           /\ P = 1..Len(items) => Crawl!Picked(items, P) = items
<1> DEFINE pick(r) == CHOOSE i \in P : Cardinality(Below(P, i)) = r
           size == Cardinality(P)
<1>1. P \in SUBSET Int /\ IsFiniteSet(P)
  <2>1. Len(items) \in Nat
    OBVIOUS
  <2>2. IsFiniteSet(1..Len(items))
    BY <2>1, FS_Interval
  <2>3. IsFiniteSet(P)
    BY <2>2, FS_Subset
  <2> QED
    BY <2>1, <2>3
<1>2. /\ size \in Nat
      /\ \A r \in 0..(size - 1) : \E i \in P : Cardinality(Below(P, i)) = r
  BY <1>1, NumbersRank
<1>3. Crawl!Picked(items, P) = [r \in 1..size |-> items[pick(r - 1)]]
  BY DEF Crawl!Picked, Below, Crawl!Cardinality, Cardinality
<1>4. \A r \in 0..(size - 1) : pick(r) \in P /\ Cardinality(Below(P, pick(r))) = r
  BY <1>2
<1> HIDE DEF pick, size
<1>5. \A r \in 1..size : pick(r - 1) \in P /\ Cardinality(Below(P, pick(r - 1))) = r - 1
  <2> TAKE r \in 1..size
  <2>1. r - 1 \in 0..(size - 1)
    BY <1>2
  <2> QED
    BY <1>4, <2>1
<1>6. Crawl!Picked(items, P) \in Seq(S)
  <2>1. ASSUME NEW r \in 1..size PROVE items[pick(r - 1)] \in S
    <3>1. pick(r - 1) \in 1..Len(items)
      BY <1>5
    <3> QED
      BY <3>1
  <2> QED
    BY <1>2, <1>3, <2>1
<1>7. ASSUME P = 1..Len(items) PROVE Crawl!Picked(items, P) = items
  <2>1. size = Len(items)
    BY <1>7, FS_Interval DEF size
  <2>2. ASSUME NEW r \in 1..size PROVE pick(r - 1) = r
    <3>1. pick(r - 1) \in P /\ pick(r - 1) \in Int
          /\ Cardinality(Below(P, pick(r - 1))) = r - 1
      BY <1>5, <1>7
    <3>2. Below(P, pick(r - 1)) = 1..(pick(r - 1) - 1)
      BY <1>7, <3>1 DEF Below
    <3>3. Cardinality(1..(pick(r - 1) - 1)) = pick(r - 1) - 1
      BY <1>7, <3>1, FS_Interval
    <3> QED
      BY <3>1, <3>2, <3>3
  <2>3. Crawl!Picked(items, P) = [r \in 1..Len(items) |-> items[r]]
    BY <1>3, <2>1, <2>2
  <2> QED
    BY <2>3
<1> QED
  BY <1>6, <1>7

-----------------------------------------------------------------------------
(* A crawl.                                                                *)

SomePages == UNION {[D -> Nat] : D \in SUBSET Nat}

Locals ==
    [pc : {"idle", "wave", "incremental", "answer"}, window : {"open", "grace", "closed"},
     from : Nat, page : Nat \ {0}, pending : SUBSET Nat,
     pages : SomePages, items : Seq(Nat), cached : Seq(Nat)]

\* What holds of a crawl whatever it does, n rows being there on a day d.
Aware(l, n, d) ==
    /\ l \in Locals /\ l.from <= n /\ l.items \in Seq(1..n)
    /\ l.window = "closed" => d = "closed" /\ l.from = n

\* The pages before the wave were full; those of the wave are pending or read.
InWave(l) ==
    /\ l.pending \subseteq Crawl!Wave(l.page)
    /\ DOMAIN l.pages = (1..(l.page - 1)) \cup (Crawl!Wave(l.page) \ l.pending)
    /\ \A p \in 1..(l.page - 1) : l.pages[p] >= p * PageSize

\* The newest cached row is below the pages read.
InSplice(l, n) ==
    /\ l.window # "closed"
    /\ l.cached # <<>> /\ l.cached \in Seq(1..n) /\ l.cached[1] <= l.from
    /\ DOMAIN l.pages = 1..(l.page - 1) /\ Growing(l.pages)
    /\ \A p \in 1..(l.page - 1) : l.pages[p] >= p * PageSize + l.cached[1]

LocalTyped(l, n, d) ==
    /\ Aware(l, n, d)
    /\ \A p \in DOMAIN l.pages : l.from <= l.pages[p] /\ l.pages[p] <= n
    /\ l.pc = "wave" => InWave(l)
    /\ l.pc = "incremental" => InSplice(l, n)
    /\ l.pc = "answer" /\ l.window = "closed" => Exact(l.items, n)

\* What holds besides if no wave was shifted and no cached rows were lapped.
Whole(l, n) ==
    /\ l.pc = "wave" =>
          /\ Growing(l.pages)
          /\ \A p \in l.pending, q \in DOMAIN l.pages : p < q => l.pages[q] = n
    /\ l.pc = "incremental" => Descends(l.cached) /\ Complete(l.cached) /\ Led(l.cached)
    /\ l.pc = "answer" =>
          /\ Descends(l.items) /\ Complete(l.items)
          /\ IF l.items = <<>> THEN l.from = 0 ELSE l.items[1] >= l.from

LEMMA NoPages == <<>> \in SomePages /\ DOMAIN <<>> = {}
<1>1. <<>> = [p \in {} |-> 0]
  OBVIOUS
<1>2. [p \in {} |-> 0] \in [{} -> Nat] /\ {} \in SUBSET Nat
  OBVIOUS
<1> QED
  BY <1>1, <1>2 DEF SomePages

LEMMA LimitOnPage ==
    MaxItems > 0 => Crawl!LastPage \in Nat \ {0} /\ MaxItems <= Crawl!LastPage * PageSize
<1>1. PageSize \in Nat \ {0} /\ MaxItems \in Nat /\ MaxItems + PageSize - 1 \in Nat
  BY CrawlFacts
<1> DEFINE k == (MaxItems + PageSize - 1) \div PageSize
<1>2. k \in Nat /\ k * PageSize <= MaxItems + PageSize - 1
      /\ MaxItems + PageSize - 1 < (k + 1) * PageSize
  BY <1>1
<1>3. Crawl!LastPage = k
  BY DEF Crawl!LastPage
<1> HIDE DEF k
<1>4. (k + 1) * PageSize = k * PageSize + PageSize /\ k * PageSize \in Nat
  BY <1>1, <1>2
<1>5. MaxItems > 0 => k # 0
  BY <1>1, <1>2
<1> QED
  BY <1>1, <1>2, <1>3, <1>4, <1>5

LEMMA WavePages ==
    ASSUME NEW p \in Nat \ {0}
    PROVE  /\ Crawl!Wave(p) \subseteq p..(p + Width - 1) /\ Crawl!Wave(p) \subseteq Nat \ {0}
           /\ \A q \in Crawl!Wave(p) : p..q \subseteq Crawl!Wave(p)
           /\ Crawl!Wave(p) = {} => Crawl!Limited((p - 1) * PageSize) /\ p > 1
           /\ \/ Crawl!Wave(p) = {}
              \/ Crawl!Wave(p) = p..(p + Width - 1)
              \/ \E q \in Crawl!Wave(p) : Crawl!Limited(q * PageSize)
<1>1. PageSize \in Nat \ {0} /\ Width \in Nat \ {0} /\ MaxItems \in Nat
  BY CrawlFacts
<1>2. /\ Crawl!Wave(p) \subseteq p..(p + Width - 1) /\ Crawl!Wave(p) \subseteq Nat \ {0}
      /\ \A q \in p..(p + Width - 1) :
            q \in Crawl!Wave(p) <=> (MaxItems > 0 => q <= Crawl!LastPage)
  BY <1>1 DEF Crawl!Wave
<1>3. CASE MaxItems = 0
  <2>1. \A q \in p..(p + Width - 1) : q \in Crawl!Wave(p)
    BY <1>1, <1>2, <1>3
  <2>2. p \in p..(p + Width - 1)
    BY <1>1
  <2>3. Crawl!Wave(p) = p..(p + Width - 1) /\ Crawl!Wave(p) # {}
    BY <1>2, <2>1, <2>2
  <2>4. ASSUME NEW q \in Crawl!Wave(p), NEW r \in p..q PROVE r \in Crawl!Wave(p)
    <3>1. q \in p..(p + Width - 1)
      BY <2>3
    <3> QED
      BY <1>1, <2>3, <3>1
  <2> QED
    BY <1>2, <2>3, <2>4
<1>4. CASE MaxItems > 0
  <2> DEFINE last == Crawl!LastPage
  <2>1. last \in Nat \ {0} /\ MaxItems <= last * PageSize
    BY <1>4, LimitOnPage
  <2> HIDE DEF last
  <2>2. \A q \in p..(p + Width - 1) : q \in Crawl!Wave(p) <=> q <= last
    BY <1>2, <1>4 DEF last
  <2>3. p \in p..(p + Width - 1)
    BY <1>1
  <2>4. ASSUME NEW q \in Crawl!Wave(p), NEW r \in p..q PROVE r \in Crawl!Wave(p)
    <3>1. q \in p..(p + Width - 1) /\ q <= last
      BY <1>2, <2>2
    <3>2. r \in p..(p + Width - 1) /\ r <= last
      BY <1>1, <2>1, <3>1
    <3> QED
      BY <2>2, <3>2
  <2>5. ASSUME Crawl!Wave(p) = {} PROVE Crawl!Limited((p - 1) * PageSize) /\ p > 1
    <3>1. last < p
      BY <2>1, <2>2, <2>3, <2>5
    <3>2. last * PageSize <= (p - 1) * PageSize
      <4>1. CASE last = p - 1
        BY <4>1, <1>1
      <4>2. CASE last < p - 1
        BY <4>2, <2>1, <3>1, PagesInOrder, PageAfterPage, <1>1
      <4> QED
        BY <2>1, <3>1, <4>1, <4>2
    <3>3. (p - 1) * PageSize \in Nat /\ last * PageSize \in Nat
      BY <1>1, <2>1, PageAfterPage
    <3>4. (p - 1) * PageSize >= MaxItems
      BY <1>1, <2>1, <3>2, <3>3
    <3> QED
      BY <1>4, <2>1, <3>1, <3>4 DEF Crawl!Limited
  <2>6. ASSUME Crawl!Wave(p) # {}, Crawl!Wave(p) # p..(p + Width - 1)
        PROVE  \E q \in Crawl!Wave(p) : Crawl!Limited(q * PageSize)
    <3>1. PICK q \in p..(p + Width - 1) : q > last
      <4>1. PICK q \in p..(p + Width - 1) : q \notin Crawl!Wave(p)
        BY <1>2, <2>6
      <4>2. q \in Int
        OBVIOUS
      <4> QED
        BY <2>1, <2>2, <4>1, <4>2
    <3>2. PICK r \in Crawl!Wave(p) : r <= last /\ r \in p..(p + Width - 1)
      BY <1>2, <2>2, <2>6
    <3>3. last \in p..(p + Width - 1)
      BY <1>1, <2>1, <3>1, <3>2
    <3>4. last \in Crawl!Wave(p)
      BY <2>1, <2>2, <3>3
    <3>5. last * PageSize \in Nat /\ last * PageSize >= MaxItems
      BY <1>1, <2>1, PageAfterPage
    <3> QED
      BY <1>4, <3>4, <3>5 DEF Crawl!Limited
  <2> QED
    BY <1>2, <2>4, <2>5, <2>6
<1> QED
  BY <1>1, <1>3, <1>4

LEMMA IdleTyped ==
    ASSUME NEW n \in Nat, NEW d
    PROVE  Crawl!Idle \in Locals /\ LocalTyped(Crawl!Idle, n, d) /\ Whole(Crawl!Idle, n)
BY NoPages DEF Crawl!Idle, Locals, LocalTyped, Aware, Whole

LEMMA CrawlStarts ==
    ASSUME NEW n \in Nat, NEW d, NEW l, Aware(l, n, d)
    PROVE  LocalTyped(Crawl!FullCrawl(l), n, d) /\ Whole(Crawl!FullCrawl(l), n)
<1> DEFINE m == Crawl!FullCrawl(l)
<1>1. Crawl!Wave(1) \subseteq Nat \ {0}
  BY WavePages
<1>2. /\ m \in Locals /\ m.pc = "wave" /\ m.page = 1 /\ m.pages = <<>>
      /\ m.pending = Crawl!Wave(1)
      /\ m.from = l.from /\ m.window = l.window /\ m.items = l.items
  <2>1. l \in Locals
    BY DEF Aware
  <2>2. Crawl!Wave(1) \in SUBSET Nat /\ <<>> \in SomePages
    BY <1>1, NoPages
  <2>3. m = [l EXCEPT !.pc = "wave", !.page = 1, !.pending = Crawl!Wave(1), !.pages = <<>>]
    BY DEF Crawl!FullCrawl
  <2> HIDE DEF m
  <2>4. /\ m.pc = "wave" /\ m.page = 1 /\ m.pages = <<>> /\ m.pending = Crawl!Wave(1)
        /\ m.from = l.from /\ m.window = l.window /\ m.items = l.items /\ m.cached = l.cached
    BY <2>1, <2>3 DEF Locals
  <2>5. m = [pc |-> "wave", window |-> l.window, from |-> l.from, page |-> 1,
             pending |-> Crawl!Wave(1), pages |-> <<>>, items |-> l.items,
             cached |-> l.cached]
    BY <2>1, <2>3 DEF Locals
  <2>6. /\ l.window \in {"open", "grace", "closed"} /\ l.from \in Nat
        /\ l.items \in Seq(Nat) /\ l.cached \in Seq(Nat)
    BY <2>1 DEF Locals
  <2>7. m \in Locals
    BY <2>2, <2>5, <2>6 DEF Locals
  <2> QED
    BY <2>4, <2>7
<1> HIDE DEF m
<1>3. Aware(m, n, d)
  BY <1>2 DEF Aware
<1>4. InWave(m)
  BY <1>2, NoPages DEF InWave
<1> QED
  BY <1>2, <1>3, <1>4, NoPages DEF LocalTyped, Whole, Growing, m

LEMMA CrawlAnswers ==
    ASSUME NEW n \in Nat, NEW d, NEW l, Aware(l, n, d), NEW items \in Seq(1..n),
           l.window = "closed" => Exact(items, n)
    PROVE  LET m == Crawl!Answer(l, items)
           IN  /\ LocalTyped(m, n, d)
               /\ m.pc = "answer" /\ m.items = items /\ m.from = l.from
<1> DEFINE m == Crawl!Answer(l, items)
<1>1. items \in Seq(Nat)
  OBVIOUS
<1>2. /\ m \in Locals /\ m.pc = "answer" /\ m.items = items /\ m.pages = <<>>
      /\ m.from = l.from /\ m.window = l.window
  BY <1>1, NoPages DEF Aware, Locals, Crawl!Answer
<1> HIDE DEF m
<1>3. Aware(m, n, d)
  BY <1>2 DEF Aware
<1> QED
  BY <1>2, <1>3, NoPages DEF LocalTyped, m

LEMMA PageIsRead ==
    ASSUME rows \in Nat, NEW pages \in SomePages, NEW p \in Nat
    PROVE  /\ Crawl!Reading(pages, p) \in SomePages
           /\ DOMAIN Crawl!Reading(pages, p) = DOMAIN pages \cup {p}
           /\ Crawl!Reading(pages, p)[p] = rows
           /\ \A q \in DOMAIN pages \ {p} : Crawl!Reading(pages, p)[q] = pages[q]
           /\ \A q \in DOMAIN pages : q \in Nat /\ pages[q] \in Nat
<1>1. PICK D \in SUBSET Nat : pages \in [D -> Nat]
  BY DEF SomePages
<1>2. DOMAIN pages = D /\ \A q \in D : pages[q] \in Nat /\ q \in Nat
  BY <1>1
<1> DEFINE new == Crawl!Reading(pages, p)
<1>3. new = [q \in D \cup {p} |-> IF q = p THEN rows ELSE pages[q]]
  BY <1>2 DEF Crawl!Reading
<1> HIDE DEF new
<1>4. DOMAIN new = D \cup {p} /\ new[p] = rows /\ \A q \in D \ {p} : new[q] = pages[q]
  BY <1>3
<1>5. new \in [D \cup {p} -> Nat] /\ D \cup {p} \in SUBSET Nat
  BY <1>2, <1>3
<1>6. new \in SomePages
  BY <1>5 DEF SomePages
<1> QED
  BY <1>2, <1>4, <1>6 DEF new

LEMMA PageFetched ==
    ASSUME rows \in Nat, NEW d, NEW l, LocalTyped(l, rows, d), l.pc = "wave", NEW p \in l.pending
    PROVE  LET m == [l EXCEPT !.pending = l.pending \ {p}, !.pages = Crawl!Reading(l.pages, p)]
           IN  LocalTyped(m, rows, d) /\ (Whole(l, rows) => Whole(m, rows))
<1> DEFINE m == [l EXCEPT !.pending = l.pending \ {p}, !.pages = Crawl!Reading(l.pages, p)]
           new == Crawl!Reading(l.pages, p)
           W == Crawl!Wave(l.page)
<1>1. /\ l \in Locals /\ l.pages \in SomePages /\ l.page \in Nat \ {0} /\ l.from <= rows
      /\ l.from \in Nat /\ l.pending \in SUBSET Nat /\ InWave(l)
      /\ \A q \in DOMAIN l.pages : l.from <= l.pages[q] /\ l.pages[q] <= rows
  BY DEF LocalTyped, Aware, Locals
<1>2. /\ new \in SomePages /\ DOMAIN new = DOMAIN l.pages \cup {p} /\ new[p] = rows
      /\ \A q \in DOMAIN l.pages \ {p} : new[q] = l.pages[q]
      /\ \A q \in DOMAIN l.pages : q \in Nat /\ l.pages[q] \in Nat
      /\ p \in Nat
  BY <1>1, PageIsRead
<1>3. W \subseteq Nat \ {0} /\ W \subseteq l.page..(l.page + Width - 1) /\ p \in W
  BY <1>1, WavePages DEF InWave
<1> HIDE DEF new, W
<1>4. /\ m.pc = "wave" /\ m.window = l.window /\ m.from = l.from /\ m.page = l.page
      /\ m.pending = l.pending \ {p} /\ m.pages = new /\ m.items = l.items /\ m.cached = l.cached
  BY <1>1 DEF Locals, new
<1>5. m \in Locals
  <2>1. m = [pc |-> "wave", window |-> l.window, from |-> l.from, page |-> l.page,
             pending |-> l.pending \ {p}, pages |-> new, items |-> l.items,
             cached |-> l.cached]
    <3> DEFINE less == l.pending \ {p}
    <3>1. l \in Locals
      BY <1>1
    <3>2. m = [l EXCEPT !.pending = less, !.pages = new]
      BY DEF new
    <3> HIDE DEF less, m
    <3>3. m = [pc |-> l.pc, window |-> l.window, from |-> l.from, page |-> l.page,
               pending |-> less, pages |-> new, items |-> l.items, cached |-> l.cached]
      BY <3>1, <3>2 DEF Locals
    <3> QED
      BY <3>3 DEF less
  <2>2. /\ l.window \in {"open", "grace", "closed"} /\ l.from \in Nat
        /\ l.items \in Seq(Nat) /\ l.cached \in Seq(Nat) /\ l.pending \ {p} \in SUBSET Nat
    BY <1>1 DEF Locals
  <2> QED
    <3> HIDE DEF m
    <3>1. new \in SomePages /\ l.page \in Nat \ {0}
      BY <1>1, <1>2
    <3> QED
      BY <2>1, <2>2, <3>1 DEF Locals
<1> HIDE DEF m
<1>6. Aware(m, rows, d)
  BY <1>4, <1>5 DEF LocalTyped, Aware
<1>7. \A q \in DOMAIN new : m.from <= new[q] /\ new[q] <= rows
  BY <1>1, <1>2, <1>4
<1>8. InWave(m)
  <2>1. m.pending \subseteq W
    BY <1>1, <1>4 DEF InWave, W
  <2>2. DOMAIN new = (1..(l.page - 1)) \cup (W \ m.pending)
    <3>1. DOMAIN l.pages = (1..(l.page - 1)) \cup (W \ l.pending)
      BY <1>1 DEF InWave, W
    <3> QED
      BY <1>2, <1>3, <1>4, <3>1
  <2>3. \A q \in 1..(l.page - 1) : new[q] >= q * PageSize
    <3> TAKE q \in 1..(l.page - 1)
    <3>1. q # p /\ q \in DOMAIN l.pages
      BY <1>1, <1>3 DEF InWave
    <3> QED
      BY <1>1, <1>2, <3>1 DEF InWave
  <2> QED
    BY <1>4, <2>1, <2>2, <2>3 DEF InWave, W
<1>9. ASSUME Whole(l, rows) PROVE Whole(m, rows)
  <2>1. Growing(l.pages) /\ \A a \in l.pending, q \in DOMAIN l.pages : a < q => l.pages[q] = rows
    BY <1>9 DEF Whole
  <2>2. Growing(new)
    <3> SUFFICES ASSUME NEW a \in DOMAIN new, NEW b \in DOMAIN new, a < b
                 PROVE  new[a] <= new[b]
      BY DEF Growing
    <3>1. CASE b = p
      BY <1>1, <1>2, <3>1
    <3>2. CASE b # p /\ a = p
      BY <1>1, <1>2, <2>1, <3>2
    <3>3. CASE b # p /\ a # p
      BY <1>2, <2>1, <3>3 DEF Growing
    <3> QED
      BY <3>1, <3>2, <3>3
  <2>3. \A a \in m.pending, q \in DOMAIN new : a < q => new[q] = rows
    BY <1>2, <1>4, <2>1
  <2> QED
    BY <1>4, <2>2, <2>3 DEF Whole
<1> QED
  BY <1>4, <1>6, <1>7, <1>8, <1>9 DEF LocalTyped, m

\* The answers: whole if the pages were.
LEMMA MergedAnswers ==
    ASSUME NEW n \in Nat, NEW d, NEW l, Aware(l, n, d), NEW pages, NEW size \in Nat,
           NEW last \in Nat \ {0}, Covers(pages, size, last, n),
           \A p \in 1..last : l.from <= pages[p],
           size = 0 => l.from = 0,
           l.window = "closed" => Exact(Crawl!Merged(pages, size), n),
           NEW m, m = Crawl!Answer(l, Crawl!Merged(pages, size))
    PROVE  /\ LocalTyped(m, n, d)
           /\ Growing(pages) /\ Complete(Crawl!Merged(pages, size)) => Whole(m, n)
<1> DEFINE s == Crawl!Merged(pages, size)
<1>1. /\ s \in Seq(1..n) /\ Len(s) = size
      /\ Growing(pages) => Descends(s)
      /\ size > 0 => s[1] = pages[1]
  BY MergedRows
<1> HIDE DEF s
<1>2. LocalTyped(m, n, d) /\ m.pc = "answer" /\ m.items = s /\ m.from = l.from
  BY <1>1, CrawlAnswers DEF s
<1>3. IF s = <<>> THEN l.from = 0 ELSE s[1] >= l.from
  <2>1. CASE s = <<>>
    BY <1>1, <2>1
  <2>2. CASE s # <<>>
    <3>1. size > 0
      BY <1>1, <2>2
    <3>2. pages[1] \in 0..n /\ l.from \in Nat /\ l.from <= pages[1]
      BY DEF Covers, Aware, Locals
    <3> QED
      BY <1>1, <2>2, <3>1, <3>2
  <2> QED
    BY <2>1, <2>2
<1> QED
  BY <1>1, <1>2, <1>3 DEF Whole, s

LEMMA WaveFacts ==
    ASSUME NEW n \in Nat, NEW d, NEW l, LocalTyped(l, n, d), l.pc = "wave", l.pending = {}
    PROVE  /\ Aware(l, n, d) /\ l \in Locals /\ l.pages \in SomePages /\ l.page \in Nat \ {0}
           /\ l.from <= n /\ l.from \in Nat
           /\ DOMAIN l.pages = (1..(l.page - 1)) \cup Crawl!Wave(l.page)
           /\ \A q \in DOMAIN l.pages : /\ l.from <= l.pages[q] /\ l.pages[q] <= n
                                        /\ l.pages[q] \in 0..n
           /\ \A q \in 1..(l.page - 1) : l.pages[q] >= q * PageSize
           /\ l.window = "closed" => l.from = n
<1>1. /\ Aware(l, n, d) /\ l \in Locals /\ l.pages \in SomePages /\ l.page \in Nat \ {0}
      /\ l.from <= n /\ l.from \in Nat
      /\ DOMAIN l.pages = (1..(l.page - 1)) \cup Crawl!Wave(l.page)
      /\ \A q \in DOMAIN l.pages : l.from <= l.pages[q] /\ l.pages[q] <= n
      /\ \A q \in 1..(l.page - 1) : l.pages[q] >= q * PageSize
      /\ l.window = "closed" => l.from = n
  BY DEF LocalTyped, Aware, Locals, InWave
<1>2. \A q \in DOMAIN l.pages : l.pages[q] \in 0..n
  <2>1. PICK D \in SUBSET Nat : l.pages \in [D -> Nat]
    BY <1>1 DEF SomePages
  <2>2. \A q \in DOMAIN l.pages : l.pages[q] \in Nat
    BY <2>1
  <2> QED
    BY <1>1, <2>2
<1> QED
  BY <1>1, <1>2

\* The locals with another wave.
LEMMA WithWave ==
    ASSUME NEW l \in Locals, NEW p, NEW V
    PROVE  [l EXCEPT !.page = p, !.pending = V] =
               [pc |-> l.pc, window |-> l.window, from |-> l.from, page |-> p, pending |-> V,
                pages |-> l.pages, items |-> l.items, cached |-> l.cached]
<1> DEFINE m == [l EXCEPT !.page = p, !.pending = V]
<1>1. m = [l EXCEPT !.page = p, !.pending = V]
  OBVIOUS
<1> HIDE DEF m
<1>2. m = [pc |-> l.pc, window |-> l.window, from |-> l.from, page |-> p, pending |-> V,
           pages |-> l.pages, items |-> l.items, cached |-> l.cached]
  BY <1>1 DEF Locals
<1> QED
  BY <1>2 DEF m

LEMMA WaveFollows ==
    ASSUME NEW n \in Nat, NEW d, NEW l, LocalTyped(l, n, d), l.pc = "wave", l.pending = {},
           Crawl!Wave(l.page) # {}, Crawl!Ends(l) = {}
    PROVE  LET m == [l EXCEPT !.page = l.page + Width, !.pending = Crawl!Wave(l.page + Width)]
           IN  LocalTyped(m, n, d) /\ (Whole(l, n) => Whole(m, n))
<1> DEFINE W == Crawl!Wave(l.page)
<1>1. /\ Aware(l, n, d) /\ l \in Locals /\ l.page \in Nat \ {0}
      /\ l.from <= n /\ l.from \in Nat
      /\ DOMAIN l.pages = (1..(l.page - 1)) \cup W
      /\ \A q \in DOMAIN l.pages : l.from <= l.pages[q] /\ l.pages[q] <= n
      /\ \A q \in 1..(l.page - 1) : l.pages[q] >= q * PageSize
      /\ l.window = "closed" => l.from = n
  BY WaveFacts
<1>2. /\ W \subseteq l.page..(l.page + Width - 1) /\ W \subseteq Nat \ {0}
      /\ \A q \in W : l.page..q \subseteq W
      /\ W = {} => Crawl!Limited((l.page - 1) * PageSize) /\ l.page > 1
      /\ \/ W = {}
         \/ W = l.page..(l.page + Width - 1)
         \/ \E q \in W : Crawl!Limited(q * PageSize)
  BY <1>1, WavePages
<1>3. \A q \in DOMAIN l.pages : l.pages[q] \in 0..n
  BY WaveFacts
<1>4. Whole(l, n) => Growing(l.pages)
  BY DEF Whole
<1> HIDE DEF W
<1> DEFINE next == l.page + Width
           V == Crawl!Wave(next)
           m == [l EXCEPT !.page = next, !.pending = V]
<1>5. \A q \in W : ~Crawl!Short(q, l.pages[q]) /\ ~Crawl!Limited(q * PageSize)
  BY DEF Crawl!Ends, W
<1>6. W = l.page..(l.page + Width - 1)
  BY <1>2, <1>5 DEF W
<1>7. next \in Nat \ {0} /\ W = l.page..(next - 1) /\ DOMAIN l.pages = 1..(next - 1)
  BY <1>1, <1>6, CrawlFacts
<1> HIDE DEF next
<1>8. V \in SUBSET Nat /\ V \subseteq next..(next + Width - 1)
  BY <1>7, WavePages
<1> HIDE DEF V
<1>9. m = [pc |-> l.pc, window |-> l.window, from |-> l.from, page |-> next, pending |-> V,
           pages |-> l.pages, items |-> l.items, cached |-> l.cached]
  BY <1>1, WithWave
<1> HIDE DEF m
<1>10. m \in Locals
  <2>1. /\ l.pc \in {"idle", "wave", "incremental", "answer"}
        /\ l.window \in {"open", "grace", "closed"} /\ l.from \in Nat
        /\ l.items \in Seq(Nat) /\ l.cached \in Seq(Nat) /\ l.pages \in SomePages
    BY <1>1 DEF Locals
  <2>2. next \in Nat \ {0}
    BY <1>7
  <2> QED
    BY <1>8, <1>9, <2>1, <2>2 DEF Locals
<1>11. /\ m.pc = "wave" /\ m.window = l.window /\ m.from = l.from /\ m.page = next
       /\ m.pending = V /\ m.pages = l.pages /\ m.items = l.items
  BY <1>9
<1>12. Aware(m, n, d)
  BY <1>1, <1>10, <1>11 DEF Aware
<1>13. InWave(m)
  <2>1. ASSUME NEW p \in 1..(next - 1) PROVE l.pages[p] >= p * PageSize
    <3>1. CASE p \in 1..(l.page - 1)
      BY <1>1, <3>1
    <3>2. CASE p \in W
      <4>1. p \in Nat \ {0} /\ l.pages[p] \in Nat
        BY <1>2, <1>3, <1>7, <3>2
      <4>2. ~Crawl!Short(p, l.pages[p])
        BY <1>5, <3>2
      <4> QED
        BY <4>1, <4>2, PageShows
    <3> QED
      BY <1>1, <1>7, <3>1, <3>2
  <2> QED
    BY <1>7, <1>8, <1>11, <2>1 DEF InWave, V
<1>14. ASSUME Whole(l, n) PROVE Whole(m, n)
  <2>1. \A a \in V, q \in DOMAIN l.pages : ~(a < q)
    BY <1>7, <1>8
  <2> QED
    BY <1>4, <1>11, <1>14, <2>1 DEF Whole
<1> QED
  BY <1>1, <1>11, <1>12, <1>13, <1>14 DEF LocalTyped, m, next, V

LEMMA WaveEnded ==
    ASSUME NEW n \in Nat, NEW d, NEW l, LocalTyped(l, n, d), l.pc = "wave", l.pending = {}
    PROVE  LET m ==
               IF Crawl!Wave(l.page) = {}
               THEN Crawl!Answer(l, Crawl!Merged(l.pages, (l.page - 1) * PageSize))
               ELSE IF Crawl!Ends(l) # {}
               THEN Crawl!Answer(l, Crawl!Until(l, Crawl!Min(Crawl!Ends(l))))
               ELSE [l EXCEPT !.page = l.page + Width, !.pending = Crawl!Wave(l.page + Width)]
           IN  LocalTyped(m, n, d) /\ (Whole(l, n) => Whole(m, n))
<1> DEFINE W == Crawl!Wave(l.page)
           m == IF W = {}
                THEN Crawl!Answer(l, Crawl!Merged(l.pages, (l.page - 1) * PageSize))
                ELSE IF Crawl!Ends(l) # {}
                THEN Crawl!Answer(l, Crawl!Until(l, Crawl!Min(Crawl!Ends(l))))
                ELSE [l EXCEPT !.page = l.page + Width, !.pending = Crawl!Wave(l.page + Width)]
<1>1. /\ Aware(l, n, d) /\ l \in Locals /\ l.page \in Nat \ {0}
      /\ l.from <= n /\ l.from \in Nat
      /\ DOMAIN l.pages = (1..(l.page - 1)) \cup W
      /\ \A q \in DOMAIN l.pages : l.from <= l.pages[q] /\ l.pages[q] <= n
      /\ \A q \in 1..(l.page - 1) : l.pages[q] >= q * PageSize
      /\ l.window = "closed" => l.from = n
  BY WaveFacts
<1>2. /\ W \subseteq l.page..(l.page + Width - 1) /\ W \subseteq Nat \ {0}
      /\ \A q \in W : l.page..q \subseteq W
      /\ W = {} => Crawl!Limited((l.page - 1) * PageSize) /\ l.page > 1
      /\ \/ W = {}
         \/ W = l.page..(l.page + Width - 1)
         \/ \E q \in W : Crawl!Limited(q * PageSize)
  BY <1>1, WavePages
<1>3. \A q \in DOMAIN l.pages : l.pages[q] \in 0..n
  BY WaveFacts
<1>4. Whole(l, n) => Growing(l.pages)
  BY DEF Whole
<1> HIDE DEF W, m
<1>5. ASSUME W = {}
      PROVE  LocalTyped(m, n, d) /\ (Whole(l, n) => Whole(m, n))
  <2> DEFINE last == l.page - 1
             size == last * PageSize
  <2>1. last \in Nat \ {0} /\ size \in Nat /\ size = (last - 1) * PageSize + PageSize /\ size > 0
    <3>1. last \in Nat \ {0}
      BY <1>1, <1>2, <1>5
    <3>2. PageSize \in Nat \ {0}
      BY CrawlFacts
    <3> HIDE DEF last
    <3>3. (last - 1) * PageSize \in Nat /\ last * PageSize = (last - 1) * PageSize + PageSize
      BY <3>1, PageAfterPage
    <3> QED
      BY <3>1, <3>2, <3>3
  <2>2. Covers(l.pages, size, last, n)
    <3>1. \A p \in 1..last : p \in DOMAIN l.pages /\ l.pages[p] \in 0..n /\ l.pages[p] >= p * PageSize
      BY <1>1, <1>3
    <3>2. (last - 1) * PageSize \in Nat /\ PageSize \in Nat
      BY <2>1, PageAfterPage, CrawlFacts
    <3> QED
      BY <2>1, <3>1, <3>2 DEF Covers
  <2>3. /\ Len(Crawl!Merged(l.pages, size)) = size
        /\ (\A p \in 1..last : l.pages[p] = n) =>
              size <= n /\ \A i \in 1..size : Crawl!Merged(l.pages, size)[i] = n - i + 1
    <3> DEFINE read == l.pages
    <3>1. last \in Nat \ {0} /\ size \in Nat /\ Covers(read, size, last, n)
      BY <2>1, <2>2
    <3> HIDE DEF last, size, read
    <3>2. /\ Len(Crawl!Merged(read, size)) = size
          /\ (\A p \in 1..last : read[p] = n) =>
                size <= n /\ \A i \in 1..size : Crawl!Merged(read, size)[i] = n - i + 1
      BY <3>1, MergedRows
    <3> QED
      BY <3>2 DEF read
  <2>4. Crawl!Capped(Crawl!Merged(l.pages, size))
    BY <1>2, <1>5, <2>3 DEF Crawl!Capped
  <2>5. ASSUME l.window = "closed" PROVE Exact(Crawl!Merged(l.pages, size), n)
    <3>1. \A p \in 1..last : l.pages[p] = n
      BY <1>1, <1>3, <2>5
    <3> QED
      BY <2>3, <2>4, <3>1 DEF Exact
  <2>6. Complete(Crawl!Merged(l.pages, size))
    BY <2>4 DEF Complete
  <2>7. m = Crawl!Answer(l, Crawl!Merged(l.pages, size))
    BY <1>5 DEF m
  <2>8. \A p \in 1..last : l.from <= l.pages[p]
    BY <1>1
  <2> HIDE DEF last, size
  <2>9. LocalTyped(m, n, d) /\ (Growing(l.pages) /\ Complete(Crawl!Merged(l.pages, size)) => Whole(m, n))
    <3> DEFINE read == l.pages
    <3>1. /\ Aware(l, n, d) /\ last \in Nat \ {0} /\ size \in Nat /\ Covers(read, size, last, n)
          /\ \A p \in 1..last : l.from <= read[p]
          /\ size = 0 => l.from = 0
          /\ l.window = "closed" => Exact(Crawl!Merged(read, size), n)
          /\ m = Crawl!Answer(l, Crawl!Merged(read, size))
      BY <1>1, <2>1, <2>2, <2>5, <2>7, <2>8
    <3> HIDE DEF read
    <3>2. LocalTyped(m, n, d) /\ (Growing(read) /\ Complete(Crawl!Merged(read, size)) => Whole(m, n))
      BY <3>1, MergedAnswers
    <3> QED
      BY <3>2 DEF read
  <2> QED
    BY <1>4, <2>6, <2>9
<1>6. ASSUME W # {}, Crawl!Ends(l) # {}
      PROVE  LocalTyped(m, n, d) /\ (Whole(l, n) => Whole(m, n))
  <2> DEFINE E == Crawl!Ends(l)
  <2>1. E \in SUBSET Int /\ IsFiniteSet(E) /\ E \subseteq W
    <3>1. E \subseteq W
      BY DEF Crawl!Ends, W
    <3>2. l.page \in Int /\ l.page + Width - 1 \in Int
      BY <1>1, CrawlFacts
    <3>3. IsFiniteSet(l.page..(l.page + Width - 1))
      BY <3>2, FS_Interval
    <3>4. E \subseteq l.page..(l.page + Width - 1)
      BY <1>2, <3>1
    <3> HIDE DEF E
    <3>5. IsFiniteSet(E)
      BY <3>3, <3>4, FS_Subset
    <3> QED
      BY <1>2, <3>1, <3>5
  <2> DEFINE last == Crawl!Min(E)
  <2>2. last \in E /\ \A q \in E : last <= q
    <3>1. \E k \in E : \A q \in E : k <= q
      <4> HIDE DEF E
      <4>1. E # {}
        BY <1>6 DEF E
      <4> QED
        BY <2>1, <4>1, LeastNumber
    <3> HIDE DEF E
    <3> QED
      BY <3>1 DEF Crawl!Min
  <2>3. last \in W /\ last \in Nat \ {0} /\ last >= l.page
    BY <1>1, <1>2, <2>1, <2>2
  <2>4. Crawl!Short(last, l.pages[last]) \/ Crawl!Limited(last * PageSize)
    BY <2>2 DEF Crawl!Ends
  <2> HIDE DEF last
  <2>5. \A p \in 1..last : p \in DOMAIN l.pages /\ l.pages[p] \in 0..n /\ l.from <= l.pages[p]
    <3> TAKE p \in 1..last
    <3>1. p \in 1..(l.page - 1) \/ p \in l.page..last
      BY <1>1, <2>3
    <3>2. p \in DOMAIN l.pages
      BY <1>1, <1>2, <2>3, <3>1
    <3> QED
      BY <1>1, <1>3, <3>2
  <2>6. \A p \in 1..(last - 1) : l.pages[p] >= p * PageSize
    <3> TAKE p \in 1..(last - 1)
    <3>1. CASE p \in 1..(l.page - 1)
      BY <1>1, <3>1
    <3>2. CASE p \in l.page..(last - 1)
      <4>1. p \in W /\ p \notin E /\ p \in Nat \ {0}
        BY <1>1, <1>2, <2>2, <2>3, <3>2
      <4>2. ~Crawl!Short(p, l.pages[p])
        BY <4>1 DEF Crawl!Ends, W
      <4>3. l.pages[p] \in Nat
        <5>1. p \in 1..last
          BY <2>3
        <5> QED
          BY <2>5, <5>1
      <4> QED
        BY <4>1, <4>2, <4>3, PageShows
    <3> QED
      BY <1>1, <2>3, <3>1, <3>2
  <2> DEFINE size == (last - 1) * PageSize + Crawl!OnPage(last, l.pages[last])
             s == Crawl!Merged(l.pages, size)
  <2>7. /\ size \in Nat /\ Covers(l.pages, size, last, n)
        /\ size = 0 => last = 1 /\ l.pages[1] = 0
        /\ Growing(l.pages) => Complete(s)
        /\ (\A p \in 1..last : l.pages[p] = n) => Exact(s, n)
    <3>1. \A p \in 1..last : p \in DOMAIN l.pages /\ l.pages[p] \in 0..n
      BY <2>5
    <3> QED
      BY <2>3, <2>4, <2>6, <3>1, CrawlEnds
  <2>8. m = Crawl!Answer(l, s)
    BY <1>6 DEF m, Crawl!Until, last
  <2> HIDE DEF size
  <2>9. l.window = "closed" => Exact(s, n)
    BY <1>1, <2>5, <2>7
  <2>10. size = 0 => l.from = 0
    BY <1>1, <2>5, <2>7
  <2>11. \A p \in 1..last : l.from <= l.pages[p]
    BY <2>5
  <2>12. LocalTyped(m, n, d) /\ (Growing(l.pages) /\ Complete(s) => Whole(m, n))
    <3> DEFINE read == l.pages
    <3>1. /\ Aware(l, n, d) /\ last \in Nat \ {0} /\ size \in Nat /\ Covers(read, size, last, n)
          /\ \A p \in 1..last : l.from <= read[p]
          /\ size = 0 => l.from = 0
          /\ l.window = "closed" => Exact(Crawl!Merged(read, size), n)
          /\ m = Crawl!Answer(l, Crawl!Merged(read, size))
      BY <1>1, <2>3, <2>7, <2>8, <2>9, <2>10, <2>11
    <3> HIDE DEF read
    <3>2. LocalTyped(m, n, d) /\ (Growing(read) /\ Complete(Crawl!Merged(read, size)) => Whole(m, n))
      BY <3>1, MergedAnswers
    <3> QED
      BY <3>2 DEF read
  <2> QED
    BY <1>4, <2>7, <2>12
<1>7. ASSUME W # {}, Crawl!Ends(l) = {}
      PROVE  LocalTyped(m, n, d) /\ (Whole(l, n) => Whole(m, n))
  BY <1>7, WaveFollows DEF m, W
<1> QED
  BY <1>5, <1>6, <1>7 DEF m, W

\* The locals of an incremental crawl at its next page.
LEMMA WithPages ==
    ASSUME NEW l \in Locals, NEW p, NEW read
    PROVE  [l EXCEPT !.page = p, !.pages = read] =
               [pc |-> l.pc, window |-> l.window, from |-> l.from, page |-> p,
                pending |-> l.pending, pages |-> read, items |-> l.items, cached |-> l.cached]
<1> DEFINE m == [l EXCEPT !.page = p, !.pages = read]
<1>1. m = [l EXCEPT !.page = p, !.pages = read]
  OBVIOUS
<1> HIDE DEF m
<1>2. m = [pc |-> l.pc, window |-> l.window, from |-> l.from, page |-> p,
           pending |-> l.pending, pages |-> read, items |-> l.items, cached |-> l.cached]
  BY <1>1 DEF Locals
<1> QED
  BY <1>2 DEF m

\* What an incremental crawl has read, and its watermark w at a position.
Reaches(read, page, w, from, at, n) ==
    /\ page \in Nat \ {0} /\ w \in 1..n /\ from \in Nat /\ w <= from /\ from <= n
    /\ at = n - w + 1
    /\ DOMAIN read = 1..page /\ read[page] = n /\ Growing(read)
    /\ \A p \in 1..page : from <= read[p] /\ read[p] \in 0..n
    /\ \A p \in 1..(page - 1) : read[p] >= p * PageSize + w

LEMMA SpliceReaches ==
    ASSUME rows \in Nat, NEW d, NEW l, LocalTyped(l, rows, d), l.pc = "incremental"
    PROVE  Reaches(Crawl!Reading(l.pages, l.page), l.page, l.cached[1], l.from,
                   rows - l.cached[1] + 1, rows)
<1> DEFINE read == Crawl!Reading(l.pages, l.page)
<1>1. /\ l \in Locals /\ l.pages \in SomePages /\ l.page \in Nat \ {0}
      /\ l.from <= rows /\ l.from \in Nat /\ InSplice(l, rows)
      /\ \A q \in DOMAIN l.pages : l.from <= l.pages[q] /\ l.pages[q] <= rows
  BY DEF LocalTyped, Aware, Locals
<1>2. l.cached[1] \in 1..rows /\ l.cached[1] <= l.from
  <2>1. l.cached \in Seq(1..rows) /\ l.cached # <<>>
    BY <1>1 DEF InSplice
  <2>2. 1 \in 1..Len(l.cached)
    BY <2>1
  <2> QED
    BY <1>1, <2>1, <2>2 DEF InSplice
<1>3. /\ DOMAIN read = DOMAIN l.pages \cup {l.page} /\ read[l.page] = rows
      /\ \A q \in DOMAIN l.pages \ {l.page} : read[q] = l.pages[q]
      /\ \A q \in DOMAIN l.pages : q \in Nat /\ l.pages[q] \in Nat
  BY <1>1, PageIsRead
<1>4. DOMAIN l.pages = 1..(l.page - 1) /\ Growing(l.pages)
      /\ \A p \in 1..(l.page - 1) : l.pages[p] >= p * PageSize + l.cached[1]
  BY <1>1 DEF InSplice
<1> HIDE DEF read
<1>5. DOMAIN read = 1..l.page
  BY <1>1, <1>3, <1>4
<1>6. \A q \in 1..(l.page - 1) : read[q] = l.pages[q] /\ q \in DOMAIN l.pages
  BY <1>1, <1>3, <1>4
<1>7. \A q \in 1..l.page : l.from <= read[q] /\ read[q] \in 0..rows
  <2> TAKE q \in 1..l.page
  <2>1. CASE q = l.page
    BY <1>1, <1>3, <2>1
  <2>2. CASE q \in 1..(l.page - 1)
    BY <1>1, <1>3, <1>6, <2>2
  <2> QED
    BY <1>1, <2>1, <2>2
<1>8. Growing(read)
  <2> SUFFICES ASSUME NEW p \in 1..l.page, NEW q \in 1..l.page, p < q PROVE read[p] <= read[q]
    BY <1>5 DEF Growing
  <2>1. CASE q = l.page
    BY <1>3, <1>7, <2>1
  <2>2. CASE q \in 1..(l.page - 1)
    <3>1. p \in 1..(l.page - 1)
      BY <1>1, <2>2
    <3> QED
      BY <1>4, <1>6, <2>2, <3>1 DEF Growing
  <2> QED
    BY <1>1, <2>1, <2>2
<1> QED
  BY <1>1, <1>2, <1>3, <1>4, <1>5, <1>6, <1>7, <1>8 DEF Reaches, read

\* The watermark is not above the page.
LEMMA WatermarkBelow ==
    ASSUME NEW n \in Nat, NEW read, NEW page, NEW w, NEW from, NEW at,
           Reaches(read, page, w, from, at, n)
    PROVE  /\ at \in 1..n /\ (page - 1) * PageSize \in Nat /\ (page - 1) * PageSize < at
           /\ Crawl!Short(page, n) => at <= (page - 1) * PageSize + Crawl!OnPage(page, n)
<1>1. page \in Nat \ {0} /\ w \in 1..n /\ at = n - w + 1
  BY DEF Reaches
<1>2. (page - 1) * PageSize \in Nat
  BY <1>1, PageAfterPage
<1>3. (page - 1) * PageSize < at
  <2>1. CASE page = 1
    BY <1>1, <2>1, CrawlFacts
  <2>2. CASE page > 1
    <3>1. page - 1 \in 1..(page - 1) /\ page - 1 \in DOMAIN read /\ page \in DOMAIN read
          /\ read[page - 1] \in Nat
      BY <1>1, <2>2 DEF Reaches
    <3>2. read[page - 1] >= (page - 1) * PageSize + w /\ read[page - 1] <= n
      BY <3>1 DEF Reaches
    <3> QED
      BY <1>1, <1>2, <3>1, <3>2
  <2> QED
    BY <1>1, <2>1, <2>2
<1>4. ASSUME Crawl!Short(page, n) PROVE at <= (page - 1) * PageSize + Crawl!OnPage(page, n)
  <2>1. n < (page - 1) * PageSize \/ n = (page - 1) * PageSize + Crawl!OnPage(page, n)
    BY <1>1, <1>4, PageShows
  <2> QED
    BY <1>1, <1>2, <1>3, <2>1
<1> QED
  BY <1>1, <1>2, <1>3, <1>4

\* The rows above the watermark are newer, and next to it.
LEMMA AboveWatermark ==
    ASSUME NEW n \in Nat, NEW read, NEW page, NEW w, NEW from, NEW at,
           Reaches(read, page, w, from, at, n),
           at <= (page - 1) * PageSize + Crawl!OnPage(page, n)
    PROVE  LET s == Crawl!Merged(read, at - 1)
           IN  /\ s \in Seq(1..n) /\ Len(s) = at - 1 /\ Descends(s)
               /\ \A i \in 1..(at - 1) : s[i] > w /\ Crawl!RowAt(read, i) = s[i]
               /\ IF at = 1 THEN w >= from ELSE s[1] >= from /\ s[at - 1] <= w + 1
<1> DEFINE size == at - 1
           s == Crawl!Merged(read, size)
<1>1. /\ page \in Nat \ {0} /\ w \in 1..n /\ at = n - w + 1 /\ from \in Nat /\ from <= n
      /\ at \in 1..n /\ (page - 1) * PageSize \in Nat /\ (page - 1) * PageSize < at
      /\ at <= (page - 1) * PageSize + Crawl!OnPage(page, n)
      /\ DOMAIN read = 1..page /\ read[page] = n /\ Growing(read)
      /\ \A p \in 1..page : from <= read[p] /\ read[p] \in 0..n
      /\ \A p \in 1..(page - 1) : read[p] >= p * PageSize + w
  BY WatermarkBelow DEF Reaches
<1>2. size \in Nat /\ size = n - w /\ at = size + 1
  BY <1>1
<1>3. Covers(read, size, page, n)
  <2>1. Crawl!OnPage(page, n) \in 0..PageSize /\ PageSize \in Nat
        /\ (page - 1) * PageSize + PageSize = page * PageSize
    BY <1>1, PageShows, PageAfterPage, CrawlFacts
  <2>2. (page - 1) * PageSize <= size /\ size <= page * PageSize
    BY <1>1, <1>2, <2>1
  <2>3. \A p \in 1..(page - 1) : read[p] >= p * PageSize
    <3> TAKE p \in 1..(page - 1)
    <3>1. p \in Nat \ {0} /\ p \in 1..page
      BY <1>1
    <3>2. read[p] \in Nat /\ read[p] >= p * PageSize + w /\ w \in Nat
      BY <1>1, <3>1
    <3>3. p * PageSize \in Nat
      BY <3>1, PageAfterPage
    <3> QED
      BY <3>2, <3>3
  <2>4. read[page] >= size
    BY <1>1, <1>2
  <2> QED
    BY <1>1, <2>2, <2>3, <2>4 DEF Covers
<1> HIDE DEF size
<1>4. /\ s \in Seq(1..n) /\ Len(s) = size /\ Descends(s)
      /\ \A i \in 1..size : s[i] = read[PageOf(i)] - i + 1
      /\ size > 0 => s[1] = read[1]
  <2>1. Growing(read) /\ page \in Nat \ {0} /\ size \in Nat
    BY <1>1, <1>2
  <2> QED
    BY <1>3, <2>1, MergedRows
<1>5. \A i \in 1..size : /\ PageOf(i) \in 1..page /\ i <= PageOf(i) * PageSize
                         /\ Crawl!RowAt(read, i) = read[PageOf(i)] - i + 1
  <2>1. \A i \in 1..size : /\ PageOf(i) \in 1..page
                           /\ Crawl!RowAt(read, i) = read[PageOf(i)] - i + 1
    BY <1>1, <1>2, <1>3, CoveredRow
  <2>2. \A i \in 1..size : i <= PageOf(i) * PageSize
    BY PageHolds
  <2> QED
    BY <2>1, <2>2
<1> HIDE DEF s
<1>6. ASSUME NEW i \in 1..size PROVE s[i] > w
  <2>1. PageOf(i) \in 1..page /\ i <= PageOf(i) * PageSize /\ s[i] = read[PageOf(i)] - i + 1
        /\ read[PageOf(i)] \in 0..n
    BY <1>1, <1>4, <1>5
  <2>2. CASE PageOf(i) = page
    BY <1>1, <1>2, <2>1, <2>2
  <2>3. CASE PageOf(i) \in 1..(page - 1)
    <3>1. read[PageOf(i)] >= PageOf(i) * PageSize + w
      BY <1>1, <2>3
    <3>2. PageOf(i) * PageSize \in Nat
      BY <2>1, PageAfterPage
    <3> QED
      BY <1>1, <2>1, <3>1, <3>2
  <2> QED
    BY <1>1, <2>1, <2>2, <2>3
<1>7. ASSUME size > 0 PROVE s[1] >= from /\ s[size] <= w + 1
  <2>1. 1 \in 1..page /\ size \in 1..size
    BY <1>1, <1>2, <1>7
  <2>2. PageOf(size) \in 1..page /\ s[size] = read[PageOf(size)] - size + 1
        /\ read[PageOf(size)] \in 0..n
    BY <1>1, <1>4, <1>5, <2>1
  <2>3. s[1] >= from
    BY <1>1, <1>4, <1>7, <2>1
  <2> QED
    BY <1>1, <1>2, <2>2, <2>3
<1>8. at = 1 => w >= from
  BY <1>1
<1>9. \A i \in 1..size : Crawl!RowAt(read, i) = s[i]
  BY <1>4, <1>5
<1> QED
  BY <1>2, <1>4, <1>6, <1>7, <1>8, <1>9 DEF s, size

\* Whole rows above the cached ones are whole with them.
LEMMA SplicedRows ==
    ASSUME NEW n \in Nat, NEW cached \in Seq(1..n), cached # <<>>,
           Descends(cached), Complete(cached),
           NEW s \in Seq(1..n), Descends(s), s # <<>> => s[Len(s)] <= cached[1] + 1
    PROVE  /\ s \o cached # <<>> /\ Descends(s \o cached) /\ Complete(s \o cached)
           /\ (s \o cached)[1] = IF s = <<>> THEN cached[1] ELSE s[1]
<1> DEFINE all == s \o cached
           a == Len(s)
           b == Len(cached)
<1>1. /\ a \in Nat /\ b \in Nat \ {0} /\ Len(all) = a + b
      /\ \A i \in 1..a : all[i] = s[i] /\ s[i] \in 1..n
      /\ \A i \in (a + 1)..(a + b) : all[i] = cached[i - a] /\ i - a \in 1..b
                                     /\ cached[i - a] \in 1..n
      /\ s = <<>> <=> a = 0
  <2>1. a \in Nat /\ b \in Nat \ {0} /\ Len(all) = a + b /\ (s = <<>> <=> a = 0)
    OBVIOUS
  <2>2. ASSUME NEW i \in 1..a PROVE all[i] = s[i] /\ s[i] \in 1..n
    BY <2>1
  <2>3. ASSUME NEW i \in (a + 1)..(a + b)
        PROVE  all[i] = cached[i - a] /\ i - a \in 1..b /\ cached[i - a] \in 1..n
    <3>1. i - a \in 1..b
      BY <2>1
    <3>2. all[i] = cached[i - a]
      BY <2>1
    <3> QED
      BY <3>1, <3>2
  <2> QED
    BY <2>1, <2>2, <2>3
<1>2. s # <<>> => s[a] <= cached[1] + 1
  OBVIOUS
<1>3. all \in Seq(1..n)
  OBVIOUS
<1> HIDE DEF all, a, b
<1>4. \A i, j \in 1..a : j = i + 1 => s[j] >= s[i] - 1
  BY DEF Descends, a
<1>5. \A i, j \in 1..b : j = i + 1 => cached[j] >= cached[i] - 1
  BY DEF Descends, b
<1>6. Descends(all)
  <2> SUFFICES ASSUME NEW i \in 1..(a + b), NEW j \in 1..(a + b), j = i + 1
               PROVE  all[j] >= all[i] - 1
    <3>1. Len(all) = a + b
      BY <1>1
    <3> QED
      BY <3>1 DEF Descends
  <2>1. CASE j <= a
    <3>1. i \in 1..a /\ j \in 1..a
      BY <1>1, <2>1
    <3>2. all[i] = s[i] /\ all[j] = s[j]
      BY <1>1, <3>1
    <3>3. s[j] >= s[i] - 1
      BY <1>4, <3>1
    <3> QED
      BY <3>2, <3>3
  <2>2. CASE i = a
    <3>1. j - a = 1 /\ j \in (a + 1)..(a + b) /\ i \in 1..a
      BY <1>1, <2>2
    <3>2. all[j] = cached[1] /\ cached[1] \in 1..n /\ all[i] = s[a] /\ s[a] \in 1..n
      BY <1>1, <2>2, <3>1
    <3>3. s # <<>>
      BY <1>1, <3>1
    <3> QED
      BY <1>2, <3>2, <3>3
  <2>3. CASE i > a
    <3>1. i \in (a + 1)..(a + b) /\ j \in (a + 1)..(a + b)
      BY <1>1, <2>3
    <3>2. i - a \in 1..b /\ j - a \in 1..b /\ j - a = (i - a) + 1
      BY <1>1, <3>1
    <3>3. cached[j - a] >= cached[i - a] - 1
      BY <1>5, <3>2
    <3> QED
      BY <1>1, <3>1, <3>3
  <2> QED
    BY <1>1, <2>1, <2>2, <2>3
<1>7. Complete(all)
  <2> SUFFICES ASSUME ~Crawl!Capped(all) PROVE all[a + b] = 1
    BY <1>1 DEF Complete
  <2>1. ~Crawl!Capped(cached)
    BY <1>1, CrawlFacts DEF Crawl!Capped, Crawl!Limited, b
  <2>2. cached[b] = 1
    BY <2>1 DEF Complete, b
  <2>3. a + b \in (a + 1)..(a + b) /\ (a + b) - a = b
    BY <1>1
  <2> QED
    BY <1>1, <2>2, <2>3
<1>8. all # <<>>
  BY <1>1
<1>9. all[1] = IF s = <<>> THEN cached[1] ELSE s[1]
  <2>1. CASE a = 0
    <3>1. 1 \in (a + 1)..(a + b) /\ 1 - a = 1
      BY <1>1, <2>1
    <3> QED
      BY <1>1, <2>1, <3>1
  <2>2. CASE a > 0
    BY <1>1, <2>2
  <2> QED
    BY <1>1, <2>1, <2>2
<1> QED
  BY <1>6, <1>7, <1>8, <1>9 DEF all

LEMMA FreshRows ==
    ASSUME NEW n \in Nat, NEW read, NEW l, NEW from, NEW at,
           l.cached \in Seq(1..n), l.cached # <<>>,
           Reaches(read, l.page, l.cached[1], from, at, n),
           at <= (l.page - 1) * PageSize + Crawl!OnPage(l.page, n)
    PROVE  /\ Crawl!Fresh(l, read, at) \in Seq(1..n)
           /\ Led(l.cached) => Crawl!Fresh(l, read, at) = Crawl!Merged(read, at - 1)
<1> DEFINE s == Crawl!Merged(read, at - 1)
           c == l.cached
           P == {i \in 1..(at - 1) : Crawl!RowAt(read, i) \notin Crawl!Range(c)}
<1>1. /\ s \in Seq(1..n) /\ Len(s) = at - 1
      /\ \A i \in 1..(at - 1) : s[i] > c[1] /\ Crawl!RowAt(read, i) = s[i]
  BY AboveWatermark
<1>2. c \in Seq(1..n) /\ c # <<>>
  OBVIOUS
<1>3. Crawl!Fresh(l, read, at) = Crawl!Picked(s, P)
  BY DEF Crawl!Fresh
<1> HIDE DEF s, c
<1>4. P \in SUBSET (1..Len(s))
  BY <1>1
<1>5. ASSUME Led(c) PROVE P = 1..Len(s)
  <2> SUFFICES ASSUME NEW i \in 1..(at - 1) PROVE Crawl!RowAt(read, i) \notin Crawl!Range(c)
    <3>1. Len(s) = at - 1
      BY <1>1
    <3>2. (\A i \in 1..(at - 1) : Crawl!RowAt(read, i) \notin Crawl!Range(c)) => P = 1..(at - 1)
      OBVIOUS
    <3> QED
      BY <3>1, <3>2
  <2>1. s[i] > c[1] /\ Crawl!RowAt(read, i) = s[i] /\ s[i] \in 1..n
    BY <1>1
  <2>2. \A k \in DOMAIN c : c[k] <= c[1] /\ c[k] \in 1..n /\ c[1] \in 1..n
    <3>1. DOMAIN c = 1..Len(c) /\ Len(c) \in Nat \ {0} /\ \A k \in 1..Len(c) : c[k] \in 1..n
      BY <1>2
    <3> QED
      BY <1>5, <3>1 DEF Led
  <2>3. \A k \in DOMAIN c : c[k] # s[i]
    BY <2>1, <2>2
  <2> QED
    BY <2>1, <2>3 DEF Crawl!Range
<1> HIDE DEF P
<1>6. Crawl!Picked(s, P) \in Seq(1..n) /\ (P = 1..Len(s) => Crawl!Picked(s, P) = s)
  BY <1>1, <1>4, PickedItems
<1> QED
  BY <1>3, <1>5, <1>6 DEF s, c

\* _incremental_current_day_crawl: a page.
LEMMA PageSpliced ==
    ASSUME rows \in Nat, NEW d, NEW l, LocalTyped(l, rows, d), l.pc = "incremental"
    PROVE  LET read == Crawl!Reading(l.pages, l.page)
               at == rows - l.cached[1] + 1
               above == (l.page - 1) * PageSize
               m == IF above < at /\ at <= above + Crawl!OnPage(l.page, rows)
                    THEN Crawl!Answer(l, Crawl!Fresh(l, read, at) \o l.cached)
                    ELSE IF Crawl!Short(l.page, rows)
                    THEN Crawl!Answer(l, Crawl!Merged(read, above + Crawl!OnPage(l.page, rows)))
                    ELSE IF l.page = MaxPages
                    THEN Crawl!FullCrawl(l)
                    ELSE [l EXCEPT !.page = l.page + 1, !.pages = read]
           IN  LocalTyped(m, rows, d) /\ (Whole(l, rows) => Whole(m, rows))
<1> DEFINE read == Crawl!Reading(l.pages, l.page)
           at == rows - l.cached[1] + 1
           above == (l.page - 1) * PageSize
           m == IF above < at /\ at <= above + Crawl!OnPage(l.page, rows)
                THEN Crawl!Answer(l, Crawl!Fresh(l, read, at) \o l.cached)
                ELSE IF Crawl!Short(l.page, rows)
                THEN Crawl!Answer(l, Crawl!Merged(read, above + Crawl!OnPage(l.page, rows)))
                ELSE IF l.page = MaxPages
                THEN Crawl!FullCrawl(l)
                ELSE [l EXCEPT !.page = l.page + 1, !.pages = read]
<1>1. /\ Aware(l, rows, d) /\ l \in Locals /\ l.pages \in SomePages /\ l.page \in Nat \ {0}
      /\ l.window # "closed" /\ l.cached \in Seq(1..rows) /\ l.cached # <<>>
  BY DEF LocalTyped, Aware, Locals, InSplice
<1>2. Reaches(read, l.page, l.cached[1], l.from, at, rows)
  BY SpliceReaches
<1>3. read \in SomePages
  BY <1>1, PageIsRead
<1> HIDE DEF read, at
<1>4. at \in 1..rows /\ above \in Nat /\ above < at
      /\ (Crawl!Short(l.page, rows) => at <= above + Crawl!OnPage(l.page, rows))
  BY <1>2, WatermarkBelow
<1> HIDE DEF above, m
<1>5. ASSUME at <= above + Crawl!OnPage(l.page, rows)
      PROVE  LocalTyped(m, rows, d) /\ (Whole(l, rows) => Whole(m, rows))
  <2> DEFINE fresh == Crawl!Fresh(l, read, at)
             s == Crawl!Merged(read, at - 1)
  <2>1. fresh \in Seq(1..rows) /\ (Led(l.cached) => fresh = s)
    <3>1. l.cached \in Seq(1..rows) /\ l.cached # <<>>
      BY <1>1
    <3>2. at <= (l.page - 1) * PageSize + Crawl!OnPage(l.page, rows)
      BY <1>5 DEF above
    <3> QED
      BY <1>2, <3>1, <3>2, FreshRows
  <2>2. /\ s \in Seq(1..rows) /\ Len(s) = at - 1 /\ Descends(s)
        /\ IF at = 1 THEN l.cached[1] >= l.from
           ELSE s[1] >= l.from /\ s[at - 1] <= l.cached[1] + 1
    BY <1>2, <1>5, AboveWatermark DEF above
  <2>3. m = Crawl!Answer(l, fresh \o l.cached)
    BY <1>4, <1>5 DEF m
  <2> HIDE DEF fresh, s
  <2>4. fresh \o l.cached \in Seq(1..rows)
    BY <1>1, <2>1
  <2>5. /\ LocalTyped(m, rows, d)
        /\ m.pc = "answer" /\ m.items = fresh \o l.cached /\ m.from = l.from
    <3> DEFINE items == fresh \o l.cached
    <3>1. Aware(l, rows, d) /\ items \in Seq(1..rows) /\ m = Crawl!Answer(l, items)
          /\ (l.window = "closed" => Exact(items, rows))
      BY <1>1, <2>3, <2>4
    <3> HIDE DEF items
    <3>2. LocalTyped(m, rows, d) /\ m.pc = "answer" /\ m.items = items /\ m.from = l.from
      BY <3>1, CrawlAnswers
    <3> QED
      BY <3>2 DEF items
  <2>6. ASSUME Whole(l, rows) PROVE Whole(m, rows)
    <3>1. Descends(l.cached) /\ Complete(l.cached) /\ Led(l.cached)
      BY <2>6 DEF Whole
    <3>2. m.items = s \o l.cached
      BY <2>1, <2>5, <3>1
    <3>3. (s = <<>>) <=> (at = 1)
      BY <1>4, <2>2
    <3>4. s # <<>> => s[Len(s)] <= l.cached[1] + 1
      BY <2>2, <3>3
    <3>5. /\ s \o l.cached # <<>> /\ Descends(s \o l.cached) /\ Complete(s \o l.cached)
          /\ (s \o l.cached)[1] = IF s = <<>> THEN l.cached[1] ELSE s[1]
      <4> DEFINE c == l.cached
      <4>1. c \in Seq(1..rows) /\ c # <<>> /\ Descends(c) /\ Complete(c)
            /\ (s # <<>> => s[Len(s)] <= c[1] + 1)
        BY <1>1, <3>1, <3>4
      <4> HIDE DEF c
      <4>2. /\ s \o c # <<>> /\ Descends(s \o c) /\ Complete(s \o c)
            /\ (s \o c)[1] = IF s = <<>> THEN c[1] ELSE s[1]
        BY <2>2, <4>1, SplicedRows
      <4> QED
        BY <4>2 DEF c
    <3>6. (s \o l.cached)[1] >= l.from
      BY <2>2, <3>3, <3>5
    <3> QED
      BY <2>5, <3>2, <3>5, <3>6 DEF Whole
  <2> QED
    BY <2>5, <2>6
<1>6. ASSUME ~(at <= above + Crawl!OnPage(l.page, rows)), l.page = MaxPages
      PROVE  LocalTyped(m, rows, d) /\ (Whole(l, rows) => Whole(m, rows))
  <2>1. m = Crawl!FullCrawl(l)
    BY <1>4, <1>6 DEF m
  <2> QED
    BY <1>1, <2>1, CrawlStarts
<1>7. ASSUME ~(at <= above + Crawl!OnPage(l.page, rows)), l.page # MaxPages
      PROVE  LocalTyped(m, rows, d) /\ (Whole(l, rows) => Whole(m, rows))
  <2>1. m = [pc |-> l.pc, window |-> l.window, from |-> l.from, page |-> l.page + 1,
             pending |-> l.pending, pages |-> read, items |-> l.items, cached |-> l.cached]
    <3>1. m = [l EXCEPT !.page = l.page + 1, !.pages = read]
      BY <1>4, <1>7 DEF m
    <3> QED
      BY <1>1, <3>1, WithPages
  <2>2. m \in Locals
    <3>1. /\ l.pc \in {"idle", "wave", "incremental", "answer"}
          /\ l.window \in {"open", "grace", "closed"} /\ l.from \in Nat
          /\ l.items \in Seq(Nat) /\ l.cached \in Seq(Nat) /\ l.pending \in SUBSET Nat
          /\ l.page + 1 \in Nat \ {0}
      BY <1>1 DEF Locals
    <3> QED
      BY <1>3, <2>1, <3>1 DEF Locals
  <2>3. /\ m.pc = l.pc /\ m.window = l.window /\ m.from = l.from /\ m.page = l.page + 1
        /\ m.pages = read /\ m.items = l.items /\ m.cached = l.cached
    BY <2>1
  <2>4. Aware(m, rows, d)
    BY <1>1, <2>2, <2>3 DEF Aware
  <2>5. rows >= l.page * PageSize + l.cached[1]
    <3>1. Crawl!OnPage(l.page, rows) = PageSize
      BY <1>1, <1>4, <1>7, PageShows
    <3>2. l.page * PageSize = above + PageSize /\ PageSize \in Nat
      BY <1>1, PageAfterPage, CrawlFacts DEF above
    <3>3. at = rows - l.cached[1] + 1 /\ l.cached[1] \in 1..rows
      BY <1>2 DEF at, Reaches
    <3> QED
      BY <1>4, <1>7, <3>1, <3>2, <3>3
  <2>6. InSplice(m, rows)
    <3>1. DOMAIN read = 1..l.page /\ Growing(read) /\ read[l.page] = rows
          /\ l.cached[1] <= l.from
          /\ \A p \in 1..(l.page - 1) : read[p] >= p * PageSize + l.cached[1]
      BY <1>2 DEF Reaches
    <3>2. \A p \in 1..l.page : read[p] >= p * PageSize + l.cached[1]
      BY <1>1, <2>5, <3>1
    <3>3. (l.page + 1) - 1 = l.page
      BY <1>1
    <3> QED
      BY <1>1, <2>3, <3>1, <3>2, <3>3 DEF InSplice
  <2>7. \A p \in DOMAIN read : l.from <= read[p] /\ read[p] <= rows
    BY <1>2 DEF Reaches
  <2>8. LocalTyped(m, rows, d)
    BY <2>3, <2>4, <2>6, <2>7 DEF LocalTyped
  <2>9. Whole(l, rows) => Whole(m, rows)
    BY <2>3 DEF Whole
  <2> QED
    BY <2>8, <2>9
<1> QED
  BY <1>5, <1>6, <1>7 DEF m, read, at, above

LEMMA ExactRows ==
    ASSUME NEW n \in Nat, NEW items \in Seq(1..n), Exact(items, n)
    PROVE  /\ Descends(items) /\ Complete(items)
           /\ IF items = <<>> THEN n = 0 ELSE items[1] >= n
<1>1. Len(items) \in Nat /\ Len(items) <= n /\ \A i \in 1..Len(items) : items[i] = n - i + 1
  BY DEF Exact
<1>2. Descends(items)
  BY <1>1 DEF Descends
<1>3. Complete(items)
  <2> SUFFICES ASSUME items # <<>>, ~Crawl!Capped(items) PROVE items[Len(items)] = 1
    BY DEF Complete
  <2>1. Len(items) = n /\ Len(items) > 0
    BY <1>1 DEF Exact
  <2> QED
    BY <1>1, <2>1
<1>4. ASSUME items = <<>> PROVE n = 0
  <2>1. Len(items) = 0
    BY <1>4
  <2>2. ~Crawl!Capped(items)
    BY <2>1, CrawlFacts DEF Crawl!Capped, Crawl!Limited
  <2> QED
    BY <2>1, <2>2 DEF Exact
<1>5. ASSUME items # <<>> PROVE items[1] >= n
  <2>1. 1 \in 1..Len(items)
    BY <1>1, <1>5
  <2> QED
    BY <1>1, <2>1
<1> QED
  BY <1>2, <1>3, <1>4, <1>5

LEMMA MoreRows ==
    ASSUME NEW n \in Nat, NEW items \in Seq(1..n)
    PROVE  items \in Seq(1..(n + 1))
OBVIOUS

\* Another row: nobody is reading a day that is closed.
LEMMA LocalArrive ==
    ASSUME NEW n \in Nat, NEW d, d # "closed", NEW l, LocalTyped(l, n, d)
    PROVE  /\ LocalTyped(l, n + 1, d)
           /\ Whole(l, n) /\ ~(/\ l.pc = "wave"
                               /\ \E p \in l.pending : \E q \in DOMAIN l.pages : p < q)
                => Whole(l, n + 1)
<1>1. Aware(l, n + 1, d)
  <2>1. l.items \in Seq(1..(n + 1))
    BY MoreRows DEF LocalTyped, Aware
  <2> QED
    BY <2>1 DEF LocalTyped, Aware, Locals
<1>2. \A p \in DOMAIN l.pages : l.from <= l.pages[p] /\ l.pages[p] <= n + 1
  <2>1. l.pages \in SomePages /\ \A p \in DOMAIN l.pages : l.from <= l.pages[p] /\ l.pages[p] <= n
    BY DEF LocalTyped, Aware, Locals
  <2>2. PICK D \in SUBSET Nat : l.pages \in [D -> Nat]
    BY <2>1 DEF SomePages
  <2>3. \A p \in DOMAIN l.pages : l.pages[p] \in Nat
    BY <2>2
  <2> QED
    BY <2>1, <2>3
<1>3. ASSUME l.pc = "incremental" PROVE InSplice(l, n + 1)
  <2>1. l.cached \in Seq(1..n) /\ InSplice(l, n)
    BY <1>3 DEF LocalTyped, InSplice
  <2>2. l.cached \in Seq(1..(n + 1))
    BY <2>1, MoreRows
  <2> QED
    BY <2>1, <2>2 DEF InSplice
<1>4. l.window # "closed"
  BY DEF LocalTyped, Aware
<1>5. LocalTyped(l, n + 1, d)
  BY <1>1, <1>2, <1>3, <1>4 DEF LocalTyped
<1> QED
  BY <1>5 DEF Whole

LEMMA LocalMidnight ==
    ASSUME NEW n \in Nat, NEW d, NEW e, d # "closed", NEW l, LocalTyped(l, n, d)
    PROVE  LocalTyped(l, n, e)
BY DEF LocalTyped, Aware

-----------------------------------------------------------------------------
(* The crawls.                                                             *)

CrawlInv ==
    /\ rows \in 0..MaxRows /\ day \in {"open", "grace", "closed"}
    /\ thread \in [Readers -> Locals]
    /\ today \in Seq(1..rows)
    /\ \/ past = Crawl!NoCache
       \/ day = "closed" /\ past \in Seq(1..rows) /\ Exact(past, rows)
    /\ \A t \in Readers : LocalTyped(thread[t], rows, day)
    /\ ~shifted /\ ~lapped =>
          /\ Descends(today) /\ Complete(today) /\ Led(today)
          /\ \A t \in Readers : Whole(thread[t], rows)

LEMMA CrawlRowsTyped == CrawlInv => rows \in Nat
BY CrawlFacts DEF CrawlInv

\* A step of one crawl that leaves the caches alone.
LEMMA CrawlStep ==
    ASSUME CrawlInv, NEW t \in Readers, NEW m, thread' = [thread EXCEPT ![t] = m],
           LocalTyped(m, rows, day), ~shifted /\ ~lapped => Whole(m, rows),
           UNCHANGED <<rows, day, today, past, shifted, lapped>>
    PROVE  CrawlInv'
<1>1. m \in Locals
  BY DEF LocalTyped, Aware
<1>2. thread' \in [Readers -> Locals]
  BY <1>1 DEF CrawlInv
<1>3. \A u \in Readers : thread'[u] = IF u = t THEN m ELSE thread[u]
  BY DEF CrawlInv
<1>4. \A u \in Readers : LocalTyped(thread'[u], rows', day')
  BY <1>3 DEF CrawlInv
<1>5. ~shifted' /\ ~lapped' => \A u \in Readers : Whole(thread'[u], rows')
  BY <1>3 DEF CrawlInv
<1> QED
  BY <1>2, <1>4, <1>5 DEF CrawlInv

LEMMA CrawlBegins == Crawl!Init => CrawlInv
<1> SUFFICES ASSUME Crawl!Init PROVE CrawlInv
  OBVIOUS
<1>1. rows = 0 /\ day = "open" /\ today = <<>> /\ past = Crawl!NoCache
      /\ thread = [t \in Readers |-> Crawl!Idle]
  BY DEF Crawl!Init
<1>2. /\ Crawl!Idle \in Locals /\ LocalTyped(Crawl!Idle, rows, day) /\ Whole(Crawl!Idle, rows)
  BY <1>1, IdleTyped
<1>3. today \in Seq(1..rows) /\ Descends(today) /\ Complete(today) /\ Led(today)
  BY <1>1 DEF Descends, Complete, Led
<1>4. \A t \in Readers : thread[t] = Crawl!Idle
  BY <1>1
<1>5. thread \in [Readers -> Locals]
  BY <1>1, <1>2
<1>6. rows \in 0..MaxRows /\ day \in {"open", "grace", "closed"}
  BY <1>1, CrawlFacts
<1>7. \A t \in Readers : LocalTyped(thread[t], rows, day) /\ Whole(thread[t], rows)
  BY <1>2, <1>4
<1> QED
  BY <1>1, <1>3, <1>5, <1>6, <1>7 DEF CrawlInv

LEMMA ArriveKeeps == CrawlInv /\ Crawl!Arrive => CrawlInv'
<1> SUFFICES ASSUME CrawlInv, Crawl!Arrive PROVE CrawlInv'
  OBVIOUS
<1>1. rows \in Nat /\ rows' = rows + 1 /\ rows < MaxRows /\ day # "closed"
      /\ UNCHANGED <<day, today, past, thread, lapped>>
  BY CrawlRowsTyped DEF Crawl!Arrive
<1>2. past = Crawl!NoCache
  BY <1>1 DEF CrawlInv
<1>3. today' \in Seq(1..rows')
  BY <1>1, MoreRows DEF CrawlInv
<1>4. \A t \in Readers : LocalTyped(thread'[t], rows', day')
  BY <1>1, LocalArrive DEF CrawlInv
<1>5. ASSUME ~shifted', ~lapped', NEW t \in Readers PROVE Whole(thread'[t], rows')
  <2>1. ~shifted /\ ~(/\ thread[t].pc = "wave"
                      /\ \E p \in thread[t].pending : \E q \in DOMAIN thread[t].pages : p < q)
    BY <1>5 DEF Crawl!Arrive, Crawl!At
  <2>2. Whole(thread[t], rows) /\ LocalTyped(thread[t], rows, day)
    BY <1>1, <1>5, <2>1 DEF CrawlInv
  <2> DEFINE l == thread[t]
  <2>3. rows \in Nat /\ day # "closed" /\ LocalTyped(l, rows, day) /\ Whole(l, rows)
        /\ ~(/\ l.pc = "wave"
             /\ \E p \in l.pending : \E q \in DOMAIN l.pages : p < q)
    BY <1>1, <2>1, <2>2
  <2> HIDE DEF l
  <2>4. Whole(l, rows + 1)
    BY <2>3, LocalArrive
  <2> QED
    BY <1>1, <2>4 DEF l
<1>6. ~shifted' /\ ~lapped' => Descends(today') /\ Complete(today') /\ Led(today')
  <2>1. ~shifted' => ~shifted
    BY Zenon DEF Crawl!Arrive
  <2>2. ~shifted /\ ~lapped => Descends(today) /\ Complete(today) /\ Led(today)
    BY DEF CrawlInv
  <2> QED
    BY <1>1, <2>1, <2>2
<1>7. rows' \in 0..MaxRows' /\ day' \in {"open", "grace", "closed"}
  BY <1>1, CrawlFacts DEF CrawlInv
<1>8. thread' \in [Readers -> Locals] /\ past' = Crawl!NoCache
  BY <1>1, <1>2 DEF CrawlInv
<1> QED
  BY <1>3, <1>4, <1>5, <1>6, <1>7, <1>8 DEF CrawlInv

LEMMA MidnightKeeps == CrawlInv /\ Crawl!Midnight => CrawlInv'
<1> SUFFICES ASSUME CrawlInv, Crawl!Midnight PROVE CrawlInv'
  OBVIOUS
<1>1. day # "closed" /\ day' \in {"grace", "closed"}
      /\ UNCHANGED <<rows, today, past, thread, shifted, lapped>>
  BY DEF Crawl!Midnight
<1>2. past = Crawl!NoCache
  BY <1>1 DEF CrawlInv
<1>3. \A t \in Readers : LocalTyped(thread[t], rows, day')
  BY <1>1, CrawlRowsTyped, LocalMidnight DEF CrawlInv
<1> QED
  BY <1>1, <1>2, <1>3 DEF CrawlInv

LEMMA IdleOf ==
    ASSUME NEW w, NEW n
    PROVE  [Crawl!Idle EXCEPT !.window = w, !.from = n] =
               [pc |-> "idle", window |-> w, from |-> n, page |-> 1, pending |-> {},
                pages |-> <<>>, items |-> <<>>, cached |-> <<>>]
<1> DEFINE m == [Crawl!Idle EXCEPT !.window = w, !.from = n]
           i == Crawl!Idle
<1>1. m = [i EXCEPT !.window = w, !.from = n]
  OBVIOUS
<1>2. i = [pc |-> "idle", window |-> "open", from |-> 0, page |-> 1, pending |-> {},
           pages |-> <<>>, items |-> <<>>, cached |-> <<>>]
  BY DEF Crawl!Idle
<1> HIDE DEF m, i
<1>3. m = [pc |-> "idle", window |-> w, from |-> n, page |-> 1, pending |-> {},
           pages |-> <<>>, items |-> <<>>, cached |-> <<>>]
  BY <1>1, <1>2
<1> QED
  BY <1>3 DEF m

LEMMA StartKeeps ==
    ASSUME CrawlInv, NEW t \in Readers, Crawl!Start(t)
    PROVE  CrawlInv'
<1>0. rows \in Nat
  BY CrawlRowsTyped
<1> DEFINE window == IF Crawl!Immutable THEN "closed" ELSE day
           local == [Crawl!Idle EXCEPT !.window = window, !.from = rows]
<1>1. /\ window \in {"open", "grace", "closed"} /\ (window = "closed" => day = "closed")
  BY DEF CrawlInv, Crawl!Immutable
<1> HIDE DEF window
<1>2. local = [pc |-> "idle", window |-> window, from |-> rows, page |-> 1, pending |-> {},
               pages |-> <<>>, items |-> <<>>, cached |-> <<>>]
  BY IdleOf
<1> HIDE DEF local
<1>3. Aware(local, rows, day)
  <2>1. local \in Locals
    BY <1>0, <1>1, <1>2, NoPages DEF Locals
  <2>2. local.from = rows /\ local.window = window /\ local.items = <<>>
    BY <1>2
  <2> QED
    BY <1>0, <1>1, <2>1, <2>2 DEF Aware
<1> DEFINE m == IF window = "closed" /\ past # Crawl!NoCache
                THEN [local EXCEPT !.pc = "answer", !.items = past]
                ELSE IF window = "open" /\ today # <<>>
                THEN [local EXCEPT !.pc = "incremental", !.cached = today]
                ELSE Crawl!FullCrawl(local)
<1>4. thread' = [thread EXCEPT ![t] = m] /\ UNCHANGED <<rows, day, today, past, shifted, lapped>>
  BY DEF Crawl!Start, Crawl!Become, local, window
<1> HIDE DEF m
<1>5. ASSUME window = "closed", past # Crawl!NoCache
      PROVE  LocalTyped(m, rows, day) /\ Whole(m, rows)
  <2>1. past \in Seq(1..rows) /\ Exact(past, rows)
    BY <1>5 DEF CrawlInv
  <2>2. m = [pc |-> "answer", window |-> window, from |-> rows, page |-> 1, pending |-> {},
             pages |-> <<>>, items |-> past, cached |-> <<>>]
    BY <1>2, <1>5 DEF m
  <2>3. m \in Locals
    <3>1. past \in Seq(Nat)
      BY <1>0, <2>1
    <3> QED
      BY <1>0, <1>1, <2>2, <3>1, NoPages DEF Locals
  <2>4. m.pc = "answer" /\ m.from = rows /\ m.window = window /\ m.items = past /\ m.pages = <<>>
    BY <2>2
  <2>5. Aware(m, rows, day)
    BY <1>0, <1>1, <2>1, <2>3, <2>4 DEF Aware
  <2>6. /\ Descends(past) /\ Complete(past)
        /\ IF past = <<>> THEN rows = 0 ELSE past[1] >= rows
    BY <1>0, <2>1, ExactRows
  <2> QED
    BY <2>1, <2>4, <2>5, <2>6, NoPages DEF LocalTyped, Whole
<1>6. ASSUME window = "open", today # <<>>
      PROVE  LocalTyped(m, rows, day) /\ (~shifted /\ ~lapped => Whole(m, rows))
  <2>1. today \in Seq(1..rows) /\ today[1] \in 1..rows
    <3>1. today \in Seq(1..rows)
      BY DEF CrawlInv
    <3>2. Len(today) \in Nat /\ Len(today) # 0
      BY <1>6, <3>1
    <3>3. 1 \in 1..Len(today)
      BY <3>2
    <3> QED
      BY <1>0, <3>1, <3>3
  <2>2. m = [pc |-> "incremental", window |-> window, from |-> rows, page |-> 1, pending |-> {},
             pages |-> <<>>, items |-> <<>>, cached |-> today]
    BY <1>2, <1>6 DEF m
  <2>3. m \in Locals
    <3>1. today \in Seq(Nat)
      BY <1>0, <2>1
    <3> QED
      BY <1>0, <1>1, <2>2, <3>1, NoPages DEF Locals
  <2>4. /\ m.pc = "incremental" /\ m.from = rows /\ m.window = window /\ m.items = <<>>
        /\ m.pages = <<>> /\ m.page = 1 /\ m.cached = today
    BY <2>2
  <2>5. Aware(m, rows, day)
    BY <1>0, <1>1, <2>3, <2>4 DEF Aware
  <2>6. InSplice(m, rows)
    BY <1>0, <1>6, <2>1, <2>4, NoPages DEF InSplice, Growing
  <2>7. LocalTyped(m, rows, day)
    BY <2>4, <2>5, <2>6, NoPages DEF LocalTyped
  <2>8. ~shifted /\ ~lapped => Whole(m, rows)
    BY <2>4 DEF Whole, CrawlInv
  <2> QED
    BY <2>7, <2>8
<1>7. ASSUME ~(window = "closed" /\ past # Crawl!NoCache), ~(window = "open" /\ today # <<>>)
      PROVE  LocalTyped(m, rows, day) /\ Whole(m, rows)
  <2>1. m = Crawl!FullCrawl(local)
    BY <1>7 DEF m
  <2> QED
    BY <1>0, <1>3, <2>1, CrawlStarts
<1>8. LocalTyped(m, rows, day) /\ (~shifted /\ ~lapped => Whole(m, rows))
  BY <1>5, <1>6, <1>7
<1> QED
  BY <1>4, <1>8, CrawlStep

LEMMA FetchKeeps ==
    ASSUME CrawlInv, NEW t \in Readers, NEW p \in thread[t].pending, Crawl!Fetch(t, p)
    PROVE  CrawlInv'
<1> DEFINE l == thread[t]
           m == [l EXCEPT !.pending = l.pending \ {p}, !.pages = Crawl!Reading(l.pages, p)]
<1>1. /\ l.pc = "wave" /\ p \in l.pending /\ thread' = [thread EXCEPT ![t] = m]
      /\ UNCHANGED <<rows, day, today, past, shifted, lapped>>
  BY DEF Crawl!Fetch, Crawl!At, Crawl!Become
<1>2. rows \in Nat /\ LocalTyped(l, rows, day) /\ (~shifted /\ ~lapped => Whole(l, rows))
  BY CrawlRowsTyped DEF CrawlInv
<1> HIDE DEF l
<1>3. LocalTyped(m, rows, day) /\ (Whole(l, rows) => Whole(m, rows))
  BY <1>1, <1>2, PageFetched
<1> HIDE DEF m
<1> QED
  BY <1>1, <1>2, <1>3, CrawlStep

LEMMA EndWaveKeeps ==
    ASSUME CrawlInv, NEW t \in Readers, Crawl!EndWave(t)
    PROVE  CrawlInv'
<1> DEFINE l == thread[t]
           m == IF Crawl!Wave(l.page) = {}
                THEN Crawl!Answer(l, Crawl!Merged(l.pages, (l.page - 1) * PageSize))
                ELSE IF Crawl!Ends(l) # {}
                THEN Crawl!Answer(l, Crawl!Until(l, Crawl!Min(Crawl!Ends(l))))
                ELSE [l EXCEPT !.page = l.page + Width, !.pending = Crawl!Wave(l.page + Width)]
<1>1. /\ l.pc = "wave" /\ l.pending = {} /\ thread' = [thread EXCEPT ![t] = m]
      /\ UNCHANGED <<rows, day, today, past, shifted, lapped>>
  BY DEF Crawl!EndWave, Crawl!At, Crawl!Become
<1>2. rows \in Nat /\ LocalTyped(l, rows, day) /\ (~shifted /\ ~lapped => Whole(l, rows))
  BY CrawlRowsTyped DEF CrawlInv
<1> HIDE DEF l
<1>3. LocalTyped(m, rows, day) /\ (Whole(l, rows) => Whole(m, rows))
  BY <1>1, <1>2, WaveEnded
<1> HIDE DEF m
<1> QED
  BY <1>1, <1>2, <1>3, CrawlStep

LEMMA IncrementalKeeps ==
    ASSUME CrawlInv, NEW t \in Readers, Crawl!FetchIncremental(t)
    PROVE  CrawlInv'
<1> DEFINE l == thread[t]
           read == Crawl!Reading(l.pages, l.page)
           at == rows - l.cached[1] + 1
           above == (l.page - 1) * PageSize
           m == IF above < at /\ at <= above + Crawl!OnPage(l.page, rows)
                THEN Crawl!Answer(l, Crawl!Fresh(l, read, at) \o l.cached)
                ELSE IF Crawl!Short(l.page, rows)
                THEN Crawl!Answer(l, Crawl!Merged(read, above + Crawl!OnPage(l.page, rows)))
                ELSE IF l.page = MaxPages
                THEN Crawl!FullCrawl(l)
                ELSE [l EXCEPT !.page = l.page + 1, !.pages = read]
<1>1. /\ l.pc = "incremental" /\ thread' = [thread EXCEPT ![t] = m]
      /\ UNCHANGED <<rows, day, today, past, shifted, lapped>>
  BY DEF Crawl!FetchIncremental, Crawl!At, Crawl!Become
<1>2. rows \in Nat /\ LocalTyped(l, rows, day) /\ (~shifted /\ ~lapped => Whole(l, rows))
  BY CrawlRowsTyped DEF CrawlInv
<1> HIDE DEF l
<1>3. LocalTyped(m, rows, day) /\ (Whole(l, rows) => Whole(m, rows))
  BY <1>1, <1>2, PageSpliced
<1> HIDE DEF m
<1> QED
  BY <1>1, <1>2, <1>3, CrawlStep

LEMMA FailsKeeps ==
    ASSUME CrawlInv, NEW t \in Readers, Crawl!Fails(t)
    PROVE  CrawlInv'
<1> DEFINE m == Crawl!Idle
<1>1. /\ thread' = [thread EXCEPT ![t] = m]
      /\ UNCHANGED <<rows, day, today, past, shifted, lapped>>
  BY DEF Crawl!Fails, Crawl!Become
<1>2. LocalTyped(m, rows, day) /\ Whole(m, rows)
  BY CrawlRowsTyped, IdleTyped
<1> HIDE DEF m
<1> QED
  BY <1>1, <1>2, CrawlStep

LEMMA ElementsOf ==
    ASSUME NEW S, NEW s \in Seq(S)
    PROVE  DOMAIN s = 1..Len(s) /\ Len(s) \in Nat /\ \A i \in 1..Len(s) : s[i] \in S
OBVIOUS

LEMMA FinishKeeps ==
    ASSUME CrawlInv, NEW t \in Readers, Crawl!Finish(t)
    PROVE  CrawlInv'
<1> DEFINE l == thread[t]
           m == Crawl!Idle
           cut == Crawl!Kept(l.items)
<1>1. /\ l.pc = "answer" /\ thread' = [thread EXCEPT ![t] = m]
      /\ today' = IF l.window = "open" THEN cut ELSE today
      /\ past' = IF l.window = "closed" THEN cut ELSE past
      /\ UNCHANGED <<rows, day, shifted>>
  BY DEF Crawl!Finish, Crawl!At, Crawl!Become
<1>2. ~lapped' => ~lapped /\ ~\E i \in DOMAIN today' : today'[i] > today'[1]
  BY Zenon DEF Crawl!Finish
<1>3. /\ rows \in Nat /\ LocalTyped(l, rows, day) /\ thread \in [Readers -> Locals]
      /\ \A u \in Readers : LocalTyped(thread[u], rows, day)
  BY CrawlRowsTyped DEF CrawlInv
<1>4. ~shifted' /\ ~lapped' => /\ Descends(today) /\ Complete(today) /\ Led(today)
                               /\ \A u \in Readers : Whole(thread[u], rows)
  BY <1>1, <1>2 DEF CrawlInv
<1>5. m \in Locals /\ LocalTyped(m, rows, day) /\ Whole(m, rows)
  BY <1>3, IdleTyped
<1> HIDE DEF m
<1>6. \A u \in Readers : thread'[u] = IF u = t THEN m ELSE thread[u]
  BY <1>1, <1>3
<1>7. thread' \in [Readers -> Locals]
  BY <1>1, <1>3, <1>5
<1>8. \A u \in Readers : LocalTyped(thread'[u], rows, day)
  BY <1>3, <1>5, <1>6
<1>9. ~shifted' /\ ~lapped' => \A u \in Readers : Whole(thread'[u], rows)
  BY <1>4, <1>5, <1>6
<1>10. l.items \in Seq(1..rows)
  BY <1>3 DEF LocalTyped, Aware
<1>11. /\ cut \in Seq(1..rows)
       /\ Descends(l.items) => Descends(cut)
       /\ Complete(l.items) => Complete(cut)
       /\ Exact(l.items, rows) => Exact(cut, rows)
  <2> DEFINE items == l.items
  <2>1. items \in Seq(1..rows) /\ rows \in Nat
    BY <1>3, <1>10
  <2> HIDE DEF items
  <2>2. /\ Crawl!Kept(items) \in Seq(1..rows)
        /\ Descends(items) => Descends(Crawl!Kept(items))
        /\ Complete(items) => Complete(Crawl!Kept(items))
        /\ Exact(items, rows) => Exact(Crawl!Kept(items), rows)
    BY <2>1, KeptRows, KeptKeeps
  <2> QED
    BY <2>2 DEF items
<1> HIDE DEF cut
<1>12. l.window = "closed" => day = "closed" /\ Exact(l.items, rows)
  BY <1>1, <1>3 DEF LocalTyped, Aware
<1>13. today' \in Seq(1..rows)
  BY <1>1, <1>11 DEF CrawlInv
<1>14. \/ past' = Crawl!NoCache
       \/ day = "closed" /\ past' \in Seq(1..rows) /\ Exact(past', rows)
  BY <1>1, <1>11, <1>12 DEF CrawlInv
<1>15. ASSUME ~shifted', ~lapped' PROVE Descends(today') /\ Complete(today') /\ Led(today')
  <2>1. Descends(today') /\ Complete(today')
    <3>1. Whole(l, rows)
      BY <1>4, <1>15
    <3>2. Descends(cut) /\ Complete(cut)
      BY <1>1, <1>11, <3>1 DEF Whole
    <3> QED
      BY <1>1, <1>4, <1>15, <3>2
  <2>2. Led(today')
    <3> DEFINE s == today'
    <3>1. s \in Seq(1..rows) /\ ~\E i \in DOMAIN s : s[i] > s[1]
      BY <1>2, <1>13, <1>15
    <3> HIDE DEF s
    <3>2. DOMAIN s = 1..Len(s) /\ Len(s) \in Nat /\ \A i \in 1..Len(s) : s[i] \in 1..rows
      <4>1. s \in Seq(1..rows)
        BY <3>1
      <4> QED
        BY <4>1, ElementsOf
    <3>3. ASSUME NEW i \in 1..Len(s) PROVE s[i] <= s[1]
      <4>1. 1 \in 1..Len(s)
        BY <3>2
      <4>2. s[i] \in Int /\ s[1] \in Int /\ ~(s[i] > s[1])
        BY <1>3, <3>1, <3>2, <4>1
      <4> QED
        BY <4>2
    <3>4. Led(s)
      BY <3>3 DEF Led
    <3> QED
      BY <3>4 DEF s
  <2> QED
    BY <2>1, <2>2
<1>16. rows' \in 0..MaxRows' /\ day' \in {"open", "grace", "closed"}
  BY <1>1 DEF CrawlInv
<1>17. rows' = rows /\ day' = day
  BY <1>1
<1> QED
  BY <1>7, <1>8, <1>9, <1>13, <1>14, <1>15, <1>16, <1>17 DEF CrawlInv

LEMMA CrawlGoesOn == CrawlInv /\ [Crawl!Next]_crawlVars => CrawlInv'
<1> SUFFICES ASSUME CrawlInv, [Crawl!Next]_crawlVars PROVE CrawlInv'
  OBVIOUS
<1>1. CASE Crawl!Arrive
  BY <1>1, ArriveKeeps
<1>2. CASE Crawl!Midnight
  BY <1>2, MidnightKeeps
<1>3. ASSUME NEW t \in Readers, Crawl!Start(t) PROVE CrawlInv'
  BY <1>3, StartKeeps
<1>4. ASSUME NEW t \in Readers, Crawl!EndWave(t) PROVE CrawlInv'
  BY <1>4, EndWaveKeeps
<1>5. ASSUME NEW t \in Readers, Crawl!FetchIncremental(t) PROVE CrawlInv'
  BY <1>5, IncrementalKeeps
<1>6. ASSUME NEW t \in Readers, Crawl!Finish(t) PROVE CrawlInv'
  BY <1>6, FinishKeeps
<1>7. ASSUME NEW t \in Readers, Crawl!Fails(t) PROVE CrawlInv'
  BY <1>7, FailsKeeps
<1>8. ASSUME NEW t \in Readers, NEW p \in thread[t].pending, Crawl!Fetch(t, p) PROVE CrawlInv'
  BY <1>8, FetchKeeps
<1>9. CASE UNCHANGED crawlVars
  BY <1>9 DEF CrawlInv, crawlVars
<1> QED
  BY <1>1, <1>2, <1>3, <1>4, <1>5, <1>6, <1>7, <1>8, <1>9 DEF Crawl!Next

\* What is answered when no row is passed over.
LEMMA WholeIsGapless ==
    ASSUME NEW n \in Nat, NEW d, NEW l, LocalTyped(l, n, d), Whole(l, n), l.pc = "answer"
    PROVE  Crawl!Gapless(l)
<1> DEFINE items == l.items
           cut == Crawl!Kept(items)
           oldest == IF cut = <<>> THEN l.from + 1 ELSE Crawl!Min(Crawl!Range(cut))
<1>1. /\ items \in Seq(1..n) /\ l.from \in Nat /\ l.from <= n
      /\ Descends(items) /\ Complete(items)
      /\ IF items = <<>> THEN l.from = 0 ELSE items[1] >= l.from
  BY DEF LocalTyped, Aware, Locals, Whole
<1> HIDE DEF items
<1>2. /\ cut \in Seq(1..n) /\ Descends(cut) /\ Complete(cut)
      /\ (cut = <<>> => items = <<>>)
      /\ \A i \in 1..Len(cut) : cut[i] = items[i]
  BY <1>1, KeptRows, KeptKeeps
<1>3. /\ DOMAIN cut = 1..Len(cut) /\ Len(cut) \in Nat
      /\ \A i \in 1..Len(cut) : cut[i] \in 1..n
  BY <1>2, ElementsOf
<1> HIDE DEF cut
<1>4. Crawl!Range(cut) = {cut[i] : i \in 1..Len(cut)}
  BY <1>3 DEF Crawl!Range
<1>5. ASSUME cut = <<>>
      PROVE  oldest..l.from = {} /\ ~(oldest > 1)
  BY <1>1, <1>2, <1>5
<1>6. ASSUME cut # <<>>
      PROVE  /\ oldest..l.from \subseteq Crawl!Range(cut)
             /\ oldest > 1 => Crawl!Capped(cut)
  <2> DEFINE R == Crawl!Range(cut)
  <2>1. 1 \in 1..Len(cut) /\ Len(cut) \in 1..Len(cut)
    BY <1>2, <1>3, <1>6
  <2>2. R \in SUBSET Int /\ R # {}
    BY <1>3, <1>4, <2>1
  <2>3. IsFiniteSet(R)
    <3>1. R \subseteq 1..n
      BY <1>3, <1>4
    <3>2. IsFiniteSet(1..n)
      BY FS_Interval
    <3> QED
      BY <3>1, <3>2, FS_Subset
  <2> HIDE DEF R
  <2>4. \E m \in R : \A r \in R : m <= r
    BY <2>2, <2>3, LeastNumber
  <2>5. oldest = Crawl!Min(R)
    BY <1>6 DEF R
  <2>6. oldest \in R /\ \A r \in R : oldest <= r
    BY <2>4, <2>5 DEF Crawl!Min
  <2> HIDE DEF oldest
  <2>7. PICK k \in 1..Len(cut) : cut[k] = oldest
    BY <1>4, <2>6 DEF R
  <2>8. cut[1] >= l.from /\ cut[1] \in Int
    <3>1. items # <<>>
      <4>1. Len(cut) <= Len(items) /\ Len(items) \in Nat
        BY <1>1, KeptRows DEF cut
      <4>2. Len(items) # 0
        BY <1>3, <2>1, <4>1
      <4> QED
        BY <4>2
    <3> QED
      BY <1>1, <1>2, <1>3, <2>1, <3>1
  <2>9. ASSUME NEW row \in oldest..l.from PROVE row \in Crawl!Range(cut)
    <3>1. row \in Int /\ row <= cut[1] /\ cut[k] <= row
      BY <1>1, <1>3, <2>7, <2>8
    <3>2. \E i \in 1..Len(cut) : cut[i] = row
      BY <1>2, <1>6, <3>1, NoGap
    <3> QED
      BY <1>4, <3>2
  <2>10. ASSUME oldest > 1, ~Crawl!Capped(cut) PROVE FALSE
    <3>1. cut[Len(cut)] = 1
      BY <1>2, <1>6, <2>10 DEF Complete
    <3>2. 1 \in R
      BY <1>4, <2>1, <3>1 DEF R
    <3>3. oldest <= 1 /\ oldest \in Int
      BY <2>2, <2>6, <3>2
    <3> QED
      BY <2>10, <3>3
  <2> QED
    BY <2>9, <2>10
<1> QED
  BY <1>5, <1>6 DEF Crawl!Gapless, oldest, cut, items

\* The crawls in the composition.
CrawlsInv == subject = "crawl" => CrawlInv

LEMMA CrawlsStart == AnyInit => CrawlsInv
BY CrawlBegins DEF AnyInit, CrawlsInv

LEMMA CrawlsGoOn == CrawlsInv /\ [AnyNext]_anyVars => CrawlsInv'
<1> SUFFICES ASSUME CrawlsInv, [AnyNext]_anyVars, subject' = "crawl" PROVE CrawlInv'
  BY DEF CrawlsInv
<1>1. subject = "crawl" /\ [Crawl!Next]_crawlVars
  BY DEF AnyNext, anyVars
<1> QED
  BY <1>1, CrawlGoesOn DEF CrawlsInv

(***************************************************************************)
(* For all page sizes, widths and limits, and any readers of a day: a      *)
(* crawl loses a row that was there when it began only if a wave of it, or *)
(* of the crawl whose rows it splices, was shifted by an added row, or if  *)
(* rows were cached with a newer one below the first (sub2api.py,          *)
(* _crawl_usage_pages and _incremental_current_day_crawl).                 *)
(***************************************************************************)
THEOREM OnlyShiftsLose == AnySpec => []OnlyWavesLose
<1>1. CrawlsInv => OnlyWavesLose
  <2> SUFFICES ASSUME CrawlInv, ~shifted, ~lapped, NEW t \in Readers, thread[t].pc = "answer"
               PROVE  Crawl!Gapless(thread[t])
    BY DEF CrawlsInv, OnlyWavesLose, Crawl!OnlyWavesLose, Crawl!WavesLoseNothing, Crawl!At
  <2>1. rows \in Nat /\ LocalTyped(thread[t], rows, day) /\ Whole(thread[t], rows)
    BY CrawlRowsTyped DEF CrawlInv
  <2> QED
    BY <2>1, WholeIsGapless
<1> QED
  BY <1>1, CrawlsStart, CrawlsGoOn, PTL DEF AnySpec

(***************************************************************************)
(* What is answered for a day that is closed has every row of the day      *)
(* once, up to the limit, whatever other crawls do and whenever they began *)
(* (sub2api.py, list_usage_logs and _finish_usage_log_result): such a      *)
(* crawl begins when no row is added any more, so that the pages it reads  *)
(* are all of one listing, and only such crawls fill the cache it uses.    *)
(***************************************************************************)
THEOREM SettledDaysAreExact == AnySpec => []ClosedDaysAreExact
<1>1. CrawlInv => Crawl!TypeOK
  <2> SUFFICES ASSUME CrawlInv PROVE Crawl!TypeOK
    OBVIOUS
  <2>1. /\ rows \in 0..MaxRows /\ day \in {"open", "grace", "closed"} /\ rows \in Nat
        /\ today \in Seq(1..rows) /\ (past = Crawl!NoCache \/ past \in Seq(1..rows))
    BY CrawlRowsTyped DEF CrawlInv
  <2>2. ASSUME NEW S, NEW s \in Seq(S) PROVE Crawl!Range(s) \subseteq S
    BY <2>2 DEF Crawl!Range
  <2>3. ASSUME NEW t \in Readers
        PROVE  thread[t].from \in 0..rows /\ Crawl!Range(thread[t].items) \subseteq 1..rows
    <3>1. thread[t].from \in Nat /\ thread[t].from <= rows /\ thread[t].items \in Seq(1..rows)
      BY DEF CrawlInv, LocalTyped, Aware, Locals
    <3>2. Crawl!Range(thread[t].items) \subseteq 1..rows
      BY <2>2, <3>1
    <3> QED
      BY <2>1, <3>1, <3>2
  <2>4. Crawl!Range(today) \subseteq 1..rows
    BY <2>1, <2>2
  <2>5. past = Crawl!NoCache \/ Crawl!Range(past) \subseteq 1..rows
    BY <2>1, <2>2
  <2> QED
    BY <2>1, <2>3, <2>4, <2>5 DEF Crawl!TypeOK
<1>2. CrawlInv => Crawl!ClosedDaysAreExact
  <2> SUFFICES ASSUME CrawlInv, NEW t \in Readers, thread[t].pc = "answer",
                      thread[t].window = "closed"
               PROVE  /\ \A i \in DOMAIN Crawl!Kept(thread[t].items) :
                             Crawl!Kept(thread[t].items)[i] = rows - i + 1
                      /\ Len(Crawl!Kept(thread[t].items)) < rows
                             => Crawl!Capped(Crawl!Kept(thread[t].items))
    BY DEF Crawl!ClosedDaysAreExact, Crawl!At
  <2> DEFINE items == thread[t].items
  <2>1. rows \in Nat /\ items \in Seq(1..rows) /\ Exact(items, rows)
    BY CrawlRowsTyped DEF CrawlInv, LocalTyped, Aware
  <2> HIDE DEF items
  <2>2. Crawl!Kept(items) \in Seq(1..rows) /\ Exact(Crawl!Kept(items), rows)
    BY <2>1, KeptRows, KeptKeeps
  <2>3. DOMAIN Crawl!Kept(items) = 1..Len(Crawl!Kept(items))
    BY <2>2, ElementsOf
  <2> QED
    BY <2>2, <2>3 DEF Exact, items
<1>3. CrawlsInv => ClosedDaysAreExact
  BY <1>1, <1>2 DEF CrawlsInv, ClosedDaysAreExact
<1> QED
  BY <1>3, CrawlsStart, CrawlsGoOn, PTL DEF AnySpec
=============================================================================
