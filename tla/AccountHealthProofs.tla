------------------------ MODULE AccountHealthProofs ------------------------
(***************************************************************************)
(* Proofs about AccountHealth: its type invariant, and that the sidecar    *)
(* knows its own pauses, for every set of accounts, every thresholds and   *)
(* every mix of failures without a crash.                                  *)
(***************************************************************************)
EXTENDS AccountHealth, FiniteSetTheorems, TLAPS

\* The sidecar knows that it has switched an account off.
Knows(s) == s.evicted \/ s.attempted

LEMMA StateTypes == NoState \notin State /\ NewState \in State /\ ~Knows(NoState) /\ ~Knows(NewState)
<1>1. 0 \in 0..FailureThreshold /\ 0 \in 0..RecoveryThreshold
  BY AccountHealthAssumption
<1>2. NoState \in [health : {"none"}, evicted : {FALSE}, evictedBy : {"none"},
                   attempted : {FALSE}, fails : {0}, succs : {0}]
  BY DEF NoState
<1>3. NewState \in State /\ ~Knows(NewState)
  <2>1. NewState \in [health : {"unknown"}, evicted : {FALSE}, evictedBy : {"none"},
                      attempted : {FALSE}, fails : {0}, succs : {0}]
    BY <1>2 DEF NewState
  <2> QED
    BY <1>1, <2>1 DEF State, Knows
<1>4. NoState.health = "none" /\ ~Knows(NoState)
  BY DEF NoState, Knows
<1> QED
  BY <1>3, <1>4 DEF State

LEMMA StoredTyped ==
    ASSUME TypeOK, NEW a \in Accounts
    PROVE  Stored(a) \in State /\ (Knows(Stored(a)) <=> Knows(states[a]))
BY StateTypes DEF TypeOK, Stored

-----------------------------------------------------------------------------
(* The verdict on an account.                                              *)

LEMMA AdoptedKnows ==
    ASSUME NEW s \in State, NEW o \in Listing
    PROVE  /\ Adopted(s, o) \in State
           /\ ~o.schedulable /\ Knows(s) => Knows(Adopted(s, o))
BY DEF Adopted, State, Listing, Knows

LEMMA CappedTyped ==
    ASSUME NEW bound \in Nat, NEW n \in 0..bound
    PROVE  Capped(n + 1, bound) \in 0..bound
BY DEF Capped

LEMMA JudgedKnows ==
    ASSUME NEW s \in State, NEW o \in Listing
    PROVE  Judged(s, o) \in State /\ (Knows(Judged(s, o)) <=> Knows(s))
<1> DEFINE bad == Bad(s, o)
           fails == IF bad THEN Capped(s.fails + 1, FailureThreshold) ELSE 0
           succs == IF bad THEN 0 ELSE Capped(s.succs + 1, RecoveryThreshold)
           health == CASE bad /\ fails >= FailureThreshold -> "bad"
                       [] ~bad /\ (s.health = "unknown" \/ succs >= RecoveryThreshold) -> "healthy"
                       [] OTHER -> s.health
<1>1. fails \in 0..FailureThreshold /\ succs \in 0..RecoveryThreshold
  BY CappedTyped, AccountHealthAssumption DEF State
<1>2. health \in {"unknown", "healthy", "bad"}
  <2>1. s.health \in {"unknown", "healthy", "bad"}
    BY DEF State
  <2> QED
    BY <2>1
<1>3. Judged(s, o) = [s EXCEPT !.fails = fails, !.succs = succs, !.health = health]
  BY DEF Judged, State
<1> HIDE DEF fails, succs, health
<1> QED
  BY <1>1, <1>2, <1>3 DEF State, Knows

LEMMA ReadKnows ==
    ASSUME NEW s \in State, NEW o \in Listing
    PROVE  /\ Read(s, o) \in State
           /\ ~o.schedulable /\ Knows(s) => Knows(Read(s, o))
BY AdoptedKnows, JudgedKnows DEF Read
-----------------------------------------------------------------------------
(* The invariant.                                                          *)

Handling == pc \in {"toggling", "saving"}
PausedByUs(a) == pausedBy[a] \in {"auto", "manual"}

\* What is known of an account: in memory while it is handled, in the store otherwise.
KnownOf(a) == IF Handling /\ a \in current THEN mem ELSE states[a]

\* Every action but the crash is the step of an operation, or of the environment.
Operation ==
    \/ StartReconcile
    \/ \E a \in Accounts : Observe(a) \/ Act(a) \/ ForgetState(a)
    \/ ToggleSucceeds \/ ToggleAnswerLost \/ ToggleFails
    \/ SaveState \/ SaveSamples \/ SamplesFail
    \/ \E a \in Accounts, on \in BOOLEAN : ManualToggle(a, on)
    \/ \E a \in Accounts, on \in BOOLEAN : AdminSetsScheduling(a, on)
    \/ \E a \in Accounts : AdminSetsStatus(a) \/ AdminDeletes(a) \/ FaultChanges(a)

LEMMA NextIsOperation == Next => Operation \/ Crash
BY DEF Next, Reconciling, Manual, Environment, Operation

LEMMA NothingListed == DOMAIN NoListing = {}
BY DEF NoListing

LEMMA NoLocalsTyped ==
    NoLocals => /\ pc' = "idle" /\ DOMAIN seen' = {} /\ todo' = {} /\ vanished' = {} /\ current' = {}
                /\ mem' = NoState /\ toggle' \in Toggle
BY NothingListed DEF NoLocals, NoToggle, Toggle

\* What the next account is, once its state is in memory.
LEMMA ReadTyped ==
    ASSUME TypeOK, NEW a \in todo
    PROVE  /\ a \in Accounts /\ seen[a] \in Listing /\ Stored(a) \in State
           /\ Read(Stored(a), seen[a]) \in State
<1>1. a \in Accounts /\ seen[a] \in Listing
  BY DEF TypeOK
<1> QED
  BY <1>1, StoredTyped, ReadKnows

LEMMA TypeInit == Init => TypeOK
<1> SUFFICES ASSUME Init PROVE TypeOK
  OBVIOUS
<1>1. DOMAIN seen = {} /\ mem = NoState /\ toggle \in Toggle
  BY NothingListed DEF Init, NoToggle, Toggle
<1>2. fault \in [Accounts -> Fault \cup {"none"}]
  BY AccountHealthAssumption DEF Init, Fault
<1>3. states \in [Accounts -> State \cup {NoState}]
  BY DEF Init
<1>4. pausedBy \in [Accounts -> {"nobody", "auto", "manual", "admin"}]
  BY DEF Init
<1> QED
  BY <1>1, <1>2, <1>3, <1>4 DEF Init, TypeOK

LEMMA TypeNext == TypeOK /\ [Next]_vars => TypeOK'
<1> SUFFICES ASSUME TypeOK, [Next]_vars PROVE TypeOK'
  OBVIOUS
<1>1. CASE StartReconcile
  <2>1. DOMAIN seen' = present /\ \A a \in present : seen'[a] \in Listing
    BY <1>1 DEF StartReconcile, TypeOK, Listing
  <2> QED
    BY <1>1, <2>1 DEF StartReconcile, TypeOK, upstream, store
<1>2. ASSUME NEW a \in Accounts, Observe(a) PROVE TypeOK'
  <2>1. mem' \in State
    BY <1>2, ReadTyped DEF Observe
  <2>2. Cardinality(current') = 1
    BY <1>2, FS_Singleton DEF Observe
  <2> QED
    BY <1>2, <2>1, <2>2 DEF Observe, TypeOK, upstream, store
<1>3. ASSUME NEW a \in Accounts, Act(a) PROVE TypeOK'
  <2>1. Read(Stored(a), seen[a]) \in State
    BY <1>3, ReadTyped DEF Act
  <2>2. mem' \in State /\ toggle' \in Toggle
    BY <1>3, <2>1 DEF Act, State, Toggle
  <2>3. Cardinality(current') = 1
    BY <1>3, FS_Singleton DEF Act
  <2> QED
    BY <1>3, <2>2, <2>3 DEF Act, TypeOK, upstream, store
<1>4. ASSUME NEW a \in Accounts, ForgetState(a) PROVE TypeOK'
  BY <1>4 DEF ForgetState, TypeOK, upstream, locals
<1>5. CASE ToggleSucceeds
  <2>1. mem' \in State
    BY <1>5 DEF ToggleSucceeds, Toggled, TypeOK, State, Toggle
  <2>2. /\ schedulable' \in [Accounts -> BOOLEAN]
        /\ pausedBy' \in [Accounts -> {"nobody", "auto", "manual", "admin"}]
    BY <1>5 DEF ToggleSucceeds, SetSchedulable, TypeOK, Toggle
  <2> QED
    BY <1>5, <2>1, <2>2 DEF ToggleSucceeds, SetSchedulable, TypeOK, store
<1>6. CASE ToggleAnswerLost
  <2>2. /\ schedulable' \in [Accounts -> BOOLEAN]
        /\ pausedBy' \in [Accounts -> {"nobody", "auto", "manual", "admin"}]
    BY <1>6 DEF ToggleAnswerLost, SetSchedulable, TypeOK, Toggle
  <2> QED
    BY <1>6, <2>2 DEF ToggleAnswerLost, SetSchedulable, TypeOK, store
<1>7. CASE ToggleFails
  BY <1>7 DEF ToggleFails, TypeOK, upstream, store
<1>8. CASE SaveState
  <2>1. states' \in [Accounts -> State \cup {NoState}]
    BY <1>8 DEF SaveState, TypeOK
  <2>2. /\ pc' \in {"idle", "reconciling"} /\ mem' = NoState /\ current' = {}
        /\ toggle' \in Toggle
        /\ \/ DOMAIN seen' = {} /\ todo' = {} /\ vanished' = {}
           \/ UNCHANGED <<seen, todo, vanished>>
    <3>1. CASE toggle.source = "manual"
      <4>1. NoLocals
        BY <1>8, <3>1 DEF SaveState
      <4> QED
        BY <4>1, NoLocalsTyped
    <3>2. CASE toggle.source # "manual"
      <4>1. /\ pc' = "reconciling" /\ current' = {} /\ mem' = NoState /\ toggle' = NoToggle
            /\ UNCHANGED <<seen, todo, vanished>>
        BY <1>8, <3>2 DEF SaveState
      <4>2. NoToggle \in Toggle
        BY DEF NoToggle, Toggle
      <4> QED
        BY <4>1, <4>2
    <3> QED
      BY <3>1, <3>2
  <2>3. UNCHANGED <<present, schedulable, disabled, fault, failures, alert, pausedBy>>
    BY <1>8 DEF SaveState, upstream
  <2> QED
    BY <2>1, <2>2, <2>3 DEF TypeOK
<1>9. CASE SaveSamples
  BY <1>9, NoLocalsTyped DEF SaveSamples, TypeOK, upstream
<1>10. CASE SamplesFail
  BY <1>10, NoLocalsTyped DEF SamplesFail, TypeOK, upstream, store
<1>11. ASSUME NEW a \in Accounts, NEW on \in BOOLEAN, ManualToggle(a, on) PROVE TypeOK'
  <2>1. mem' \in State
    BY <1>11, StoredTyped DEF ManualToggle, State
  <2>2. Cardinality(current') = 1
    BY <1>11, FS_Singleton DEF ManualToggle
  <2> QED
    BY <1>11, <2>1, <2>2 DEF ManualToggle, TypeOK, Toggle, upstream, store
<1>12. ASSUME NEW a \in Accounts, NEW on \in BOOLEAN, AdminSetsScheduling(a, on) PROVE TypeOK'
  BY <1>12 DEF AdminSetsScheduling, SetSchedulable, TypeOK, store, locals
<1>13. ASSUME NEW a \in Accounts, AdminSetsStatus(a) PROVE TypeOK'
  BY <1>13 DEF AdminSetsStatus, TypeOK, store, locals
<1>14. ASSUME NEW a \in Accounts, AdminDeletes(a) PROVE TypeOK'
  BY <1>14 DEF AdminDeletes, TypeOK, store, locals
<1>15. ASSUME NEW a \in Accounts, FaultChanges(a) PROVE TypeOK'
  BY <1>15, AccountHealthAssumption DEF FaultChanges, TypeOK, Fault, store, locals
<1>16. CASE Crash
  BY <1>16, NoLocalsTyped DEF Crash, TypeOK, upstream, store
<1>17. CASE UNCHANGED vars
  BY <1>17 DEF TypeOK, vars, upstream, store, locals
<1> QED
  BY <1>1, <1>2, <1>3, <1>4, <1>5, <1>6, <1>7, <1>8, <1>9, <1>10, <1>11, <1>12, <1>13, <1>14,
     <1>15, <1>16, <1>17, NextIsOperation DEF Operation

(***************************************************************************)
(* Every variable of the account health service keeps its type, whatever   *)
(* fails or crashes.                                                       *)
(***************************************************************************)
THEOREM TypeCorrect == Spec => []TypeOK
BY TypeInit, TypeNext, PTL DEF Spec
-----------------------------------------------------------------------------
(* The sidecar knows its own pauses.                                       *)

\* One account is handled at a time, and is not handled again; what has vanished is not there.
Handled ==
    /\ pc \in {"idle", "reconciling"} => current = {}
    /\ pc = "idle" => todo = {}
    /\ Handling => \E a \in Accounts : current = {a}
    /\ current \cap todo = {}
    /\ vanished \cap present = {}

\* An account that is on was switched off by nobody; one that we have switched off is listed
\* as such, and known.  What is about to be switched off is known already.
Known ==
    /\ \A a \in present : schedulable[a] => pausedBy[a] = "nobody"
    /\ \A a \in present \cap todo : PausedByUs(a) => ~seen[a].schedulable
    /\ pc = "toggling" /\ ~toggle.on => Knows(mem)
    /\ \A a \in present : PausedByUs(a) => Knows(KnownOf(a))

KInv == TypeOK /\ Handled /\ ("crash" \notin failures => Known)

LEMMA HandledNext == TypeOK /\ Handled /\ [Next]_vars => Handled'
<1> SUFFICES ASSUME TypeOK, Handled, [Next]_vars PROVE Handled'
  OBVIOUS
<1> USE DEF Handled, Handling, TypeOK
<1>1. CASE StartReconcile
  BY <1>1 DEF StartReconcile, upstream, store
<1>2. ASSUME NEW a \in Accounts, Observe(a) PROVE Handled'
  BY <1>2 DEF Observe, upstream, store
<1>3. ASSUME NEW a \in Accounts, Act(a) PROVE Handled'
  <2>1. pc = "reconciling" /\ pc' = "toggling" /\ current' = {a} /\ todo' = todo \ {a}
    BY <1>3 DEF Act
  <2>2. UNCHANGED <<vanished, present>>
    BY <1>3 DEF Act, upstream
  <2> QED
    BY <2>1, <2>2
<1>4. ASSUME NEW a \in Accounts, ForgetState(a) PROVE Handled'
  BY <1>4 DEF ForgetState, upstream, locals
<1>5. CASE ToggleSucceeds \/ ToggleAnswerLost \/ ToggleFails
  BY <1>5 DEF ToggleSucceeds, ToggleAnswerLost, ToggleFails, SetSchedulable, upstream, store
<1>6. CASE SaveState
  <2>1. CASE toggle.source = "manual"
    BY <1>6, <2>1, NoLocalsTyped DEF SaveState, upstream
  <2>2. CASE toggle.source # "manual"
    BY <1>6, <2>2 DEF SaveState, upstream
  <2> QED
    BY <2>1, <2>2
<1>7. CASE SaveSamples \/ SamplesFail \/ Crash
  BY <1>7, NoLocalsTyped DEF SaveSamples, SamplesFail, Crash
<1>8. ASSUME NEW a \in Accounts, NEW on \in BOOLEAN, ManualToggle(a, on) PROVE Handled'
  <2>1. pc = "idle" /\ pc' = "toggling" /\ current' = {a} /\ todo' = {}
    BY <1>8 DEF ManualToggle
  <2>2. UNCHANGED <<vanished, present>>
    BY <1>8 DEF ManualToggle, upstream
  <2> QED
    BY <2>1, <2>2
<1>9. ASSUME NEW a \in Accounts, NEW on \in BOOLEAN, AdminSetsScheduling(a, on) PROVE Handled'
  BY <1>9 DEF AdminSetsScheduling, SetSchedulable, store, locals
<1>10. ASSUME NEW a \in Accounts, AdminSetsStatus(a) \/ AdminDeletes(a) \/ FaultChanges(a)
       PROVE  Handled'
  BY <1>10 DEF AdminSetsStatus, AdminDeletes, FaultChanges, store, locals
<1>11. CASE UNCHANGED vars
  BY <1>11 DEF vars, upstream, store, locals
<1> QED
  BY <1>1, <1>2, <1>3, <1>4, <1>5, <1>6, <1>7, <1>8, <1>9, <1>10, <1>11, NextIsOperation
     DEF Operation

LEMMA KnownNext ==
    ASSUME TypeOK, Handled, Known, Operation \/ UNCHANGED vars
    PROVE  Known'
<1> USE DEF Known, Handled, Handling, KnownOf, PausedByUs
<1>1. CASE StartReconcile
  <2>1. /\ \A a \in present : seen'[a].schedulable = schedulable[a]
        /\ pc = "idle" /\ pc' = "reconciling"
        /\ UNCHANGED <<present, schedulable, pausedBy, states, current, mem, toggle>>
    BY <1>1 DEF StartReconcile, upstream, store
  <2> QED
    BY <2>1 DEF TypeOK
<1>2. ASSUME NEW a \in Accounts, Observe(a) PROVE Known'
  <2>1. /\ pc = "reconciling" /\ pc' = "saving" /\ current' = {a} /\ todo' = todo \ {a}
        /\ a \in todo /\ mem' = Read(Stored(a), seen[a])
        /\ UNCHANGED <<present, schedulable, pausedBy, states, seen>>
    BY <1>2 DEF Observe, upstream, store
  <2>2. a \in present /\ PausedByUs(a) => Knows(mem')
    BY <2>1, ReadTyped, StoredTyped, ReadKnows
  <2> QED
    BY <2>1, <2>2
<1>3. ASSUME NEW a \in Accounts, Act(a) PROVE Known'
  <2> DEFINE s == Read(Stored(a), seen[a])
  <2>1. /\ pc = "reconciling" /\ pc' = "toggling" /\ current' = {a} /\ todo' = todo \ {a}
        /\ a \in todo /\ mem' = [s EXCEPT !.attempted = @ \/ ~s.evicted]
        /\ toggle' = [on |-> s.evicted, source |-> "auto"]
        /\ UNCHANGED <<present, schedulable, pausedBy, states, seen>>
    BY <1>3 DEF Act, upstream, store
  <2>2. s \in State
    BY <2>1, ReadTyped
  <2>3. Knows(mem')
    BY <2>1, <2>2 DEF State, Knows
  <2> QED
    BY <2>1, <2>3
<1>4. ASSUME NEW a \in Accounts, ForgetState(a) PROVE Known'
  <2>1. /\ a \notin present /\ states' = [states EXCEPT ![a] = NoState]
        /\ UNCHANGED <<present, schedulable, pausedBy, seen, todo, pc, current, mem, toggle>>
    BY <1>4 DEF ForgetState, upstream, locals
  <2> QED
    BY <2>1 DEF TypeOK
<1>5. CASE ToggleSucceeds \/ ToggleAnswerLost
  <2>1. PICK a \in current : SetSchedulable(a, toggle.on, toggle.source)
    BY <1>5 DEF ToggleSucceeds, ToggleAnswerLost
  <2>2. /\ pc = "toggling" /\ pc' = "saving" /\ current = {a} /\ a \in present /\ a \in Accounts
        /\ UNCHANGED <<present, states, seen, todo, current, toggle>>
    BY <1>5, <2>1 DEF ToggleSucceeds, ToggleAnswerLost, SetSchedulable, store, TypeOK
  <2>3. /\ schedulable' = [schedulable EXCEPT ![a] = toggle.on]
        /\ pausedBy' = [pausedBy EXCEPT ![a] = IF toggle.on THEN "nobody" ELSE toggle.source]
    BY <2>1 DEF SetSchedulable
  <2>4. /\ \A b \in present \ {a} : schedulable'[b] = schedulable[b] /\ pausedBy'[b] = pausedBy[b]
        /\ schedulable'[a] = toggle.on
        /\ toggle.on => pausedBy'[a] = "nobody"
    BY <2>2, <2>3 DEF TypeOK
  <2>5. ~toggle.on => Knows(mem')
    <3> SUFFICES ASSUME ~toggle.on PROVE Knows(mem')
      OBVIOUS
    <3>1. mem \in State
      BY <2>2 DEF TypeOK
    <3>2. CASE ToggleSucceeds
      <4>1. mem' = [mem EXCEPT !.evicted = TRUE, !.evictedBy = toggle.source]
        BY <3>2 DEF ToggleSucceeds, Toggled
      <4> QED
        BY <3>1, <4>1 DEF State, Knows
    <3>3. CASE ToggleAnswerLost
      BY <2>2, <3>3 DEF ToggleAnswerLost
    <3> QED
      BY <1>5, <3>2, <3>3
  <2>6. a \notin todo
    BY <2>2
  <2> QED
    BY <2>2, <2>4, <2>5, <2>6
<1>6. CASE ToggleFails
  BY <1>6 DEF ToggleFails, upstream, store
<1>7. CASE SaveState
  <2>1. /\ pc = "saving" /\ pc' \in {"idle", "reconciling"}
        /\ todo' = {} \/ (todo' = todo /\ seen' = seen)
        /\ UNCHANGED <<present, schedulable, pausedBy>>
    <3>1. CASE toggle.source = "manual"
      BY <1>7, <3>1, NoLocalsTyped DEF SaveState, upstream
    <3>2. CASE toggle.source # "manual"
      BY <1>7, <3>2 DEF SaveState, upstream
    <3> QED
      BY <3>1, <3>2
  <2>2. \A a \in Accounts : states'[a] = IF a \in current THEN mem ELSE states[a]
    BY <1>7 DEF SaveState
  <2> QED
    BY <2>1, <2>2 DEF TypeOK
<1>8. CASE SaveSamples \/ SamplesFail
  <2>1. /\ pc' = "idle" /\ todo' = {}
        /\ UNCHANGED <<present, schedulable, pausedBy, states>>
    BY <1>8, NoLocalsTyped DEF SaveSamples, SamplesFail, upstream, store
  <2>2. pc = "reconciling"
    BY <1>8 DEF SaveSamples, SamplesFail, AllHandled
  <2> QED
    BY <2>1, <2>2
<1>9. ASSUME NEW a \in Accounts, NEW on \in BOOLEAN, ManualToggle(a, on) PROVE Known'
  <2>1. /\ pc = "idle" /\ pc' = "toggling" /\ current' = {a} /\ todo' = todo
        /\ mem' = [Stored(a) EXCEPT !.attempted = @ \/ ~on]
        /\ toggle' = [on |-> on, source |-> "manual"]
        /\ UNCHANGED <<present, schedulable, pausedBy, states, seen>>
    BY <1>9 DEF ManualToggle, upstream, store
  <2>2. Knows(mem') \/ (on /\ ~Knows(states[a]))
    BY <2>1, StoredTyped DEF State, Knows
  <2> QED
    BY <2>1, <2>2
<1>10. ASSUME NEW a \in Accounts, NEW on \in BOOLEAN, AdminSetsScheduling(a, on) PROVE Known'
  <2>1. /\ a \in present
        /\ schedulable' = [schedulable EXCEPT ![a] = on]
        /\ pausedBy' = [pausedBy EXCEPT ![a] = IF on THEN "nobody" ELSE "admin"]
        /\ UNCHANGED <<present, states, seen, todo, pc, current, mem, toggle>>
    BY <1>10 DEF AdminSetsScheduling, SetSchedulable, store, locals
  <2>2. /\ \A b \in present \ {a} : schedulable'[b] = schedulable[b] /\ pausedBy'[b] = pausedBy[b]
        /\ schedulable'[a] = on
        /\ pausedBy'[a] = IF on THEN "nobody" ELSE "admin"
    BY <2>1 DEF TypeOK
  <2> QED
    BY <2>1, <2>2
<1>11. ASSUME NEW a \in Accounts, AdminDeletes(a) PROVE Known'
  <2>1. /\ present' = present \ {a} /\ pausedBy' = [pausedBy EXCEPT ![a] = "nobody"]
        /\ UNCHANGED <<schedulable, states, seen, todo, pc, current, mem, toggle>>
    BY <1>11 DEF AdminDeletes, store, locals
  <2> QED
    BY <2>1 DEF TypeOK
<1>12. ASSUME NEW a \in Accounts, AdminSetsStatus(a) \/ FaultChanges(a) PROVE Known'
  BY <1>12 DEF AdminSetsStatus, FaultChanges, store, locals
<1>13. CASE UNCHANGED vars
  BY <1>13 DEF vars, upstream, store, locals
<1> QED
  BY <1>1, <1>2, <1>3, <1>4, <1>5, <1>6, <1>7, <1>8, <1>9, <1>10, <1>11, <1>12, <1>13
     DEF Operation

LEMMA KInvInit == Init => KInv
<1> SUFFICES ASSUME Init PROVE KInv
  OBVIOUS
<1>1. Handled
  BY DEF Init, Handled, Handling
<1>2. Known
  BY DEF Init, Known, Handling, PausedByUs
<1> QED
  BY <1>1, <1>2, TypeInit DEF KInv

LEMMA KInvNext == KInv /\ [Next]_vars => KInv'
<1> SUFFICES ASSUME KInv, [Next]_vars PROVE KInv'
  OBVIOUS
<1>1. TypeOK' /\ Handled'
  BY TypeNext, HandledNext DEF KInv
<1>2. failures' = failures
  BY NextIsOperation DEF Operation, StartReconcile, Observe, Act, ForgetState, ToggleSucceeds,
     ToggleAnswerLost, ToggleFails, SaveState, SaveSamples, SamplesFail, ManualToggle,
     AdminSetsScheduling, SetSchedulable, AdminSetsStatus, AdminDeletes, FaultChanges, Crash,
     vars, upstream
<1>3. ASSUME "crash" \notin failures PROVE Known'
  <2>1. Operation \/ UNCHANGED vars
    BY <1>3, NextIsOperation DEF Crash
  <2> QED
    BY <1>3, <2>1, KnownNext DEF KInv
<1> QED
  BY <1>1, <1>2, <1>3 DEF KInv

(***************************************************************************)
(* Whatever toggles are refused or lose their answers, and whatever        *)
(* administrators and operators do meanwhile: an account that the sidecar  *)
(* has switched off is on its record as evicted or attempted as soon as no *)
(* operation is under way.                                                 *)
(***************************************************************************)
THEOREM OwnPausesAreKnown == Spec => []OwnPauseIsKnown
<1>1. KInv => OwnPauseIsKnown
  BY DEF KInv, Known, Handling, KnownOf, PausedByUs, Knows, OwnPauseIsKnown
<1> QED
  BY <1>1, KInvInit, KInvNext, PTL DEF Spec
-----------------------------------------------------------------------------
(* Operators' evictions.                                                   *)

LEMMA ReadKeepsManual ==
    ASSUME NEW s \in State, NEW o \in Listing, s.evictedBy = "manual"
    PROVE  Read(s, o).evictedBy = "manual"
<1>1. Adopted(s, o) \in State /\ Adopted(s, o).evictedBy = "manual"
  BY DEF Adopted, State
<1>2. ASSUME NEW r \in State PROVE Judged(r, o).evictedBy = r.evictedBy
  BY DEF Judged, State
<1> QED
  BY <1>1, <1>2 DEF Read

LEMMA ManualInit == Init => StoredManualEvictionStays
BY DEF Init, StoredManualEvictionStays

LEMMA ManualNext ==
    TypeOK /\ StoredManualEvictionStays /\ [Next]_vars => StoredManualEvictionStays'
<1> SUFFICES ASSUME TypeOK, StoredManualEvictionStays, [Next]_vars
             PROVE  StoredManualEvictionStays'
  OBVIOUS
<1> USE DEF StoredManualEvictionStays
<1>1. ASSUME NEW a \in Accounts, Act(a) PROVE StoredManualEvictionStays'
  <2> DEFINE s == Read(Stored(a), seen[a])
  <2>1. /\ a \in todo /\ current' = {a} /\ states' = states
        /\ MustEvict(s, seen[a]) \/ MustRejoin(s, seen[a])
        /\ toggle' = [on |-> s.evicted, source |-> "auto"]
    BY <1>1 DEF Act, store
  <2>2. s.evicted => s.evictedBy # "manual"
    BY <2>1 DEF MustEvict, MustRejoin
  <2>3. s.evicted => Stored(a).evictedBy # "manual"
    BY <2>1, <2>2, ReadTyped, ReadKeepsManual
  <2>4. Stored(a).evictedBy # "manual" => states[a].evictedBy # "manual"
    BY DEF Stored, NoState
  <2> QED
    BY <2>1, <2>3, <2>4
<1>2. ASSUME NEW a \in Accounts, Observe(a) \/ ForgetState(a) PROVE StoredManualEvictionStays'
  BY <1>2 DEF Observe, ForgetState, locals
<1>3. CASE StartReconcile \/ ToggleSucceeds \/ ToggleAnswerLost \/ ToggleFails
  BY <1>3 DEF StartReconcile, ToggleSucceeds, ToggleAnswerLost, ToggleFails
<1>4. CASE SaveState \/ SaveSamples \/ SamplesFail \/ Crash
  <2>1. pc' # "toggling"
    BY <1>4, NoLocalsTyped DEF SaveState, SaveSamples, SamplesFail, Crash
  <2> QED
    BY <2>1
<1>5. ASSUME NEW a \in Accounts, NEW on \in BOOLEAN, ManualToggle(a, on)
      PROVE  StoredManualEvictionStays'
  BY <1>5 DEF ManualToggle
<1>6. ASSUME NEW a \in Accounts, NEW on \in BOOLEAN, AdminSetsScheduling(a, on)
      PROVE  StoredManualEvictionStays'
  BY <1>6 DEF AdminSetsScheduling, store, locals
<1>7. ASSUME NEW a \in Accounts, AdminSetsStatus(a) \/ AdminDeletes(a) \/ FaultChanges(a)
      PROVE  StoredManualEvictionStays'
  BY <1>7 DEF AdminSetsStatus, AdminDeletes, FaultChanges, store, locals
<1>8. CASE UNCHANGED vars
  BY <1>8 DEF vars, store, locals
<1> QED
  BY <1>1, <1>2, <1>3, <1>4, <1>5, <1>6, <1>7, <1>8, NextIsOperation DEF Operation

(***************************************************************************)
(* No reconciliation sets out to undo an operator's eviction that was      *)
(* stored, whatever fails, loses its answer or crashes.                    *)
(***************************************************************************)
THEOREM ManualEvictionsStay == Spec => []StoredManualEvictionStays
BY TypeInit, TypeNext, ManualInit, ManualNext, PTL DEF Spec
=============================================================================
