--------------------------- MODULE AccountHealth ---------------------------
(***************************************************************************)
(* AccountHealthService (src/app/services/account_health.py): accounts that*)
(* look bad are evicted by switching off their scheduling upstream, and    *)
(* rejoined once they look healthy again; administrators switch scheduling *)
(* on and off upstream too, and operators evict and rejoin by hand.        *)
(*                                                                         *)
(* reconcile_once and the manual toggles hold _operation_lock, so one      *)
(* operation is in flight at a time; but a reconciliation lists all the    *)
(* accounts first and handles them one by one, and between the upstream    *)
(* call and the stored state the process may crash.                        *)
(***************************************************************************)
EXTENDS Integers, FiniteSets

CONSTANTS
    Accounts,            \* account ids; upstream never reuses one
    FailureThreshold,
    RecoveryThreshold,
    FailureSets,         \* sets of failures, subsets of {"fail", "lost", "crash"}
    Admin,               \* what administrators do, of {"pause", "resume", "disable", "delete"}
    Faults               \* faults that accounts have: a subset of Fault below

ASSUME AccountHealthAssumption ==
    /\ FailureThreshold \in Nat \ {0}
    /\ RecoveryThreshold \in Nat \ {0}
    /\ Faults \subseteq {"signal", "availability"}

VARIABLES
    \* Upstream, per account.
    present,       \* the accounts that exist
    schedulable,   \* scheduling is switched on
    disabled,      \* its status, and its disabled flag, say so
    fault,         \* what is wrong with it
    failures,      \* what may fail in this behaviour; it does not change
    \* The store.
    states,        \* the account-health state of each account, or NoState
    alert,         \* accounts whose latest account_evicted sample is 1
    \* The operation that holds the lock.
    pc,            \* its next step; "idle" when there is none
    seen,          \* the accounts as the reconciliation listed them
    todo,          \* accounts it has not handled yet
    vanished,      \* accounts that had a state and were not listed
    current,       \* the account being handled
    mem,           \* its state in memory
    toggle,        \* the upstream call it makes: [on, source]
    \* History.
    pausedBy       \* who switched scheduling off last: "auto", "manual", "admin"

upstream == <<present, schedulable, disabled, fault, failures>>
store == <<states, alert>>
locals == <<pc, seen, todo, vanished, current, mem, toggle>>
vars == <<upstream, store, locals, pausedBy>>

\* A fault that the parser reports as such, or one (available = false) that it reports
\* only while the account is scheduled.
Fault == {"signal", "availability"}

NoState == [health |-> "none", evicted |-> FALSE, evictedBy |-> "none",
            attempted |-> FALSE, fails |-> 0, succs |-> 0]
NewState == [NoState EXCEPT !.health = "unknown"]
State == [health : {"unknown", "healthy", "bad"}, evicted : BOOLEAN,
          evictedBy : {"none", "auto", "manual"}, attempted : BOOLEAN,
          fails : 0..FailureThreshold, succs : 0..RecoveryThreshold]
Listing == [schedulable : BOOLEAN, disabled : BOOLEAN, fault : Fault \cup {"none"}]
Toggle == [on : BOOLEAN, source : {"auto", "manual"}]
NoToggle == [on |-> FALSE, source |-> "auto"]
NoListing == [a \in {} |-> NoState]

TypeOK ==
    /\ present \in SUBSET Accounts
    /\ schedulable \in [Accounts -> BOOLEAN]
    /\ disabled \in [Accounts -> BOOLEAN]
    /\ fault \in [Accounts -> Fault \cup {"none"}]
    /\ failures \in FailureSets
    /\ states \in [Accounts -> State \cup {NoState}]
    /\ alert \in SUBSET Accounts
    /\ pc \in {"idle", "reconciling", "toggling", "saving"}
    /\ DOMAIN seen \in SUBSET Accounts
    /\ \A a \in DOMAIN seen : seen[a] \in Listing
    /\ todo \in SUBSET DOMAIN seen
    /\ vanished \in SUBSET Accounts
    /\ current \in SUBSET Accounts
    /\ mem \in State \cup {NoState}
    /\ pc \in {"toggling", "saving"} => mem \in State /\ Cardinality(current) = 1
    /\ toggle \in Toggle
    /\ pausedBy \in [Accounts -> {"nobody", "auto", "manual", "admin"}]

NoLocals ==
    /\ pc' = "idle"
    /\ seen' = NoListing
    /\ todo' = {}
    /\ vanished' = {}
    /\ current' = {}
    /\ mem' = NoState
    /\ toggle' = NoToggle

Init ==
    /\ present = Accounts
    /\ schedulable \in [Accounts -> BOOLEAN]
    /\ disabled = [a \in Accounts |-> FALSE]
    /\ fault \in [Accounts -> Faults \cup {"none"}]
    /\ failures \in FailureSets
    /\ states = [a \in Accounts |-> NoState]
    /\ alert = {}
    /\ pc = "idle"
    /\ seen = NoListing
    /\ todo = {}
    /\ vanished = {}
    /\ current = {}
    /\ mem = NoState
    /\ toggle = NoToggle
    /\ pausedBy = [a \in Accounts |-> IF schedulable[a] THEN "nobody" ELSE "admin"]

-----------------------------------------------------------------------------
(* The verdict on one account.                                             *)

Capped(n, bound) == IF n < bound THEN n ELSE bound

Stored(a) == IF states[a] = NoState THEN NewState ELSE states[a]

\* An unscheduled account with an eviction attempt on record is taken to be evicted;
\* a scheduled one clears the record.
Adopted(s, o) ==
    IF o.schedulable THEN [s EXCEPT !.attempted = FALSE]
    ELSE IF s.attempted /\ ~s.evicted
    THEN [s EXCEPT !.evicted = TRUE,
                   !.evictedBy = IF @ = "none" THEN "auto" ELSE @]
    ELSE s

\* Not being scheduled counts as a fault unless the eviction is our own.
Bad(s, o) ==
    \/ o.fault = "signal"
    \/ o.schedulable /\ ~o.disabled /\ o.fault = "availability"
    \/ ~o.schedulable /\ ~s.evicted

ExternallyManaged(s, o) == o.disabled \/ (~o.schedulable /\ ~s.evicted)

\* The state after an account has been looked at.
Judged(s, o) ==
    LET bad == Bad(s, o)
        fails == IF bad THEN Capped(s.fails + 1, FailureThreshold) ELSE 0
        succs == IF bad THEN 0 ELSE Capped(s.succs + 1, RecoveryThreshold)
    IN  [s EXCEPT !.fails = fails, !.succs = succs,
            !.health = CASE bad /\ fails >= FailureThreshold -> "bad"
                         [] ~bad /\ (@ = "unknown" \/ succs >= RecoveryThreshold) -> "healthy"
                         [] OTHER -> @]

Read(s, o) == Judged(Adopted(s, o), o)

MustEvict(s, o) == ~ExternallyManaged(s, o) /\ s.health = "bad" /\ ~s.evicted

\* Mutation of MustRejoin: who evicted the account does not matter.
MustRejoinAnyone(s, o) == ~ExternallyManaged(s, o) /\ s.evicted /\ s.health = "healthy"

MustRejoin(s, o) ==
    ~ExternallyManaged(s, o) /\ s.evicted /\ s.health = "healthy" /\ s.evictedBy # "manual"

-----------------------------------------------------------------------------
(* Reconciliation.                                                         *)

StartReconcile ==
    /\ pc = "idle"
    /\ pc' = "reconciling"
    /\ seen' = [a \in present |-> [schedulable |-> schedulable[a],
                                   disabled |-> disabled[a], fault |-> fault[a]]]
    /\ todo' = present
    /\ vanished' = {a \in Accounts \ present : states[a] # NoState}
    /\ UNCHANGED <<upstream, store, current, mem, toggle, pausedBy>>

\* The next account needs no upstream call.
Observe(a) ==
    /\ pc = "reconciling" /\ a \in todo
    /\ LET s == Read(Stored(a), seen[a])
       IN  /\ ~MustEvict(s, seen[a]) /\ ~MustRejoin(s, seen[a])
           /\ mem' = s
    /\ pc' = "saving"
    /\ current' = {a}
    /\ todo' = todo \ {a}
    /\ UNCHANGED <<upstream, store, seen, vanished, toggle, pausedBy>>

\* Mutation of Act: the attempt to evict is not noted.
ActUnnoted(a) ==
    /\ pc = "reconciling" /\ a \in todo
    /\ LET s == Read(Stored(a), seen[a])
       IN  /\ MustEvict(s, seen[a]) \/ MustRejoin(s, seen[a])
           /\ toggle' = [on |-> s.evicted, source |-> "auto"]
           /\ mem' = s
    /\ pc' = "toggling"
    /\ current' = {a}
    /\ todo' = todo \ {a}
    /\ UNCHANGED <<upstream, store, seen, vanished, pausedBy>>

\* The next account is to be evicted or rejoined.  The attempt to evict it is noted,
\* in memory, before the call.
Act(a) ==
    /\ pc = "reconciling" /\ a \in todo
    /\ LET s == Read(Stored(a), seen[a])
       IN  /\ MustEvict(s, seen[a]) \/ MustRejoin(s, seen[a])
           /\ toggle' = [on |-> s.evicted, source |-> "auto"]
           /\ mem' = [s EXCEPT !.attempted = @ \/ ~s.evicted]
    /\ pc' = "toggling"
    /\ current' = {a}
    /\ todo' = todo \ {a}
    /\ UNCHANGED <<upstream, store, seen, vanished, pausedBy>>

\* Upstream carries out set_account_schedulable on an account it still has.
SetSchedulable(a, on, who) ==
    /\ a \in present
    /\ schedulable' = [schedulable EXCEPT ![a] = on]
    /\ pausedBy' = [pausedBy EXCEPT ![a] = IF on THEN "nobody" ELSE who]
    /\ UNCHANGED <<present, disabled, fault, failures>>

\* Mutation of Toggled: a rejoined account keeps its eviction.
ToggledKeepingEviction ==
    IF toggle.on THEN [mem EXCEPT !.attempted = FALSE]
    ELSE [mem EXCEPT !.evicted = TRUE, !.evictedBy = toggle.source]

Toggled ==
    IF toggle.on THEN [mem EXCEPT !.evicted = FALSE, !.evictedBy = "none",
                                  !.attempted = FALSE]
    ELSE [mem EXCEPT !.evicted = TRUE, !.evictedBy = toggle.source]

ToggleSucceeds ==
    /\ pc = "toggling"
    /\ \E a \in current : SetSchedulable(a, toggle.on, toggle.source)
    /\ mem' = Toggled
    /\ pc' = "saving"
    /\ UNCHANGED <<store, seen, todo, vanished, current, toggle>>

\* Carried out, but the answer is lost.
ToggleAnswerLost ==
    /\ "lost" \in failures
    /\ pc = "toggling"
    /\ \E a \in current : SetSchedulable(a, toggle.on, toggle.source)
    /\ pc' = "saving"
    /\ UNCHANGED <<store, seen, todo, vanished, current, mem, toggle>>

\* Not carried out: refused, or the account is gone.
ToggleFails ==
    /\ pc = "toggling"
    /\ "fail" \in failures \/ current \cap present = {}
    /\ pc' = "saving"
    /\ UNCHANGED <<upstream, store, seen, todo, vanished, current, mem, toggle,
                   pausedBy>>

\* The state is stored after the call.  A manual operation is over then.
SaveState ==
    /\ pc = "saving"
    /\ states' = [a \in Accounts |-> IF a \in current THEN mem ELSE states[a]]
    /\ IF toggle.source = "manual" THEN NoLocals
       ELSE /\ pc' = "reconciling"
            /\ current' = {}
            /\ mem' = NoState
            /\ toggle' = NoToggle
            /\ UNCHANGED <<seen, todo, vanished>>
    /\ UNCHANGED <<upstream, alert, pausedBy>>

ForgetState(a) ==
    /\ pc = "reconciling" /\ todo = {}
    /\ a \in vanished /\ states[a] # NoState
    /\ states' = [states EXCEPT ![a] = NoState]
    /\ UNCHANGED <<upstream, alert, locals, pausedBy>>

AllHandled ==
    /\ pc = "reconciling" /\ todo = {}
    /\ \A a \in vanished : states[a] = NoState

\* The samples of all accounts are stored by one call: whether they are evicted, and
\* 0 for the vanished ones.
SaveSamples ==
    /\ AllHandled
    /\ alert' = (alert \ (DOMAIN seen \cup vanished))
                   \cup {a \in DOMAIN seen : states[a].evicted}
    /\ NoLocals
    /\ UNCHANGED <<upstream, states, pausedBy>>

\* That call raises: logged, and the samples are lost.
SamplesFail ==
    /\ "fail" \in failures
    /\ AllHandled
    /\ NoLocals
    /\ UNCHANGED <<upstream, store, pausedBy>>

\* An operator's evict or rejoin request.
ManualToggle(a, on) ==
    /\ pc = "idle"
    /\ pc' = "toggling"
    /\ current' = {a}
    /\ mem' = [Stored(a) EXCEPT !.attempted = @ \/ ~on]
    /\ toggle' = [on |-> on, source |-> "manual"]
    /\ UNCHANGED <<upstream, store, seen, todo, vanished, pausedBy>>

\* The process dies, or a storage call that is not guarded raises.
Crash ==
    /\ "crash" \in failures
    /\ pc # "idle"
    /\ NoLocals
    /\ UNCHANGED <<upstream, store, pausedBy>>

-----------------------------------------------------------------------------
(* Upstream.                                                               *)

AdminSetsScheduling(a, on) ==
    /\ (IF on THEN "resume" ELSE "pause") \in Admin
    /\ schedulable[a] # on
    /\ SetSchedulable(a, on, "admin")
    /\ UNCHANGED <<store, locals>>

AdminSetsStatus(a) ==
    /\ "disable" \in Admin /\ a \in present
    /\ disabled' = [disabled EXCEPT ![a] = ~@]
    /\ UNCHANGED <<present, schedulable, fault, failures, store, locals, pausedBy>>

AdminDeletes(a) ==
    /\ "delete" \in Admin /\ a \in present
    /\ present' = present \ {a}
    /\ pausedBy' = [pausedBy EXCEPT ![a] = "nobody"]
    /\ UNCHANGED <<schedulable, disabled, fault, failures, store, locals>>

FaultChanges(a) ==
    /\ a \in present
    /\ \E f \in Faults \cup {"none"} : f # fault[a] /\ fault' = [fault EXCEPT ![a] = f]
    /\ UNCHANGED <<present, schedulable, disabled, failures, store, locals, pausedBy>>

Reconciling ==
    \/ StartReconcile
    \/ \E a \in Accounts : Observe(a) \/ Act(a) \/ ForgetState(a)
    \/ ToggleSucceeds \/ ToggleAnswerLost \/ ToggleFails
    \/ SaveState \/ SaveSamples \/ SamplesFail

Manual == \E a \in Accounts, on \in BOOLEAN : ManualToggle(a, on)

Environment ==
    \E a \in Accounts :
        \/ \E on \in BOOLEAN : AdminSetsScheduling(a, on)
        \/ AdminSetsStatus(a) \/ AdminDeletes(a) \/ FaultChanges(a)

Next == Reconciling \/ Manual \/ Environment \/ Crash

Spec == Init /\ [][Next]_vars

\* A crash that no step of an operation going its way looks like.
CrashMidway == Crash /\ ~Reconciling

\* The scheduler reconciles again and again, an operation goes on once started, and
\* a call that is made again and again succeeds some day; crashes and the requests of
\* operators and administrators stop some day, faults need not.
Fairness ==
    /\ WF_vars(Reconciling)
    /\ SF_vars(SaveSamples)
    /\ \A a \in Accounts : SF_vars(current = {a} /\ ToggleSucceeds)
    /\ <>[][~CrashMidway /\ ~Manual /\ ~\E a \in Accounts, on \in BOOLEAN : AdminSetsScheduling(a, on)]_vars

FairSpec == Spec /\ Fairness

-----------------------------------------------------------------------------
(***************************************************************************)
(* An account that the sidecar itself has switched off is known to it as   *)
(* evicted, or as attempted, once no operation is under way: "without this *)
(* it would be misread as an admin pause and silently dropped from         *)
(* management forever" (account_health.py:128-130).  Holds while answers   *)
(* are lost, not when the process crashes: the attempt is recorded before  *)
(* the call, but in memory only.                                           *)
(***************************************************************************)
OwnPauseIsKnown ==
    pc = "idle" /\ "crash" \notin failures =>
        \A a \in present : pausedBy[a] \in {"auto", "manual"} =>
            states[a].evicted \/ states[a].attempted

(***************************************************************************)
(* "Healthy but manually evicted: stays evicted until a manual rejoin"     *)
(* (tests/test_account_health.py, test_manual_eviction_is_not_auto_rejoined*)
(* ): once an operator's eviction is stored no reconciliation sets out to  *)
(* undo it, whatever fails or crashes.  An eviction whose answer is lost is*)
(* stored as an attempt, and adopted as an automatic one                   *)
(* (account_health.py:137).                                                *)
(***************************************************************************)
StoredManualEvictionStays ==
    pc = "toggling" /\ toggle = [on |-> TRUE, source |-> "auto"] =>
        \A a \in current : states[a].evictedBy # "manual"

Managed(a) == a \in present /\ ~disabled[a]

(***************************************************************************)
(* An account that was evicted automatically and is well again is rejoined *)
(* some day, though calls fail and answers are lost; its own eviction does *)
(* not keep it out.                                                        *)
(***************************************************************************)
WellAccountsReturn ==
    \A a \in Accounts :
        ("crash" \notin failures /\ Managed(a) /\ pausedBy[a] = "auto" /\ fault[a] = "none")
            ~> (schedulable[a] \/ ~Managed(a) \/ pausedBy[a] # "auto" \/ fault[a] # "none")

(***************************************************************************)
(* An account that stays bad is evicted some day ("taint unhealthy         *)
(* accounts, evict them", class docstring), whatever fails or crashes and  *)
(* whatever administrators do, unless the store has it evicted already: an *)
(* account that an administrator resumes, or whose rejoin was carried out  *)
(* without an answer, stays on record as evicted while it is bad           *)
(* (account_health.py:138-139 clears the attempt only) and is not evicted  *)
(* a second time (:186).                                                   *)
(***************************************************************************)
BadAccountsLeave ==
    \A a \in Accounts :
        (Managed(a) /\ schedulable[a] /\ fault[a] = "signal")
            ~> (~schedulable[a] \/ ~Managed(a) \/ fault[a] # "signal" \/ states[a].evicted)

(***************************************************************************)
(* Such a record does not outlast the fault: an account that is scheduled  *)
(* and on record as evicted automatically is off the record some day once  *)
(* it is well, and can be evicted again.                                   *)
(***************************************************************************)
StaleRecordsClear ==
    \A a \in Accounts :
        LET stale == states[a].evicted /\ states[a].evictedBy = "auto" /\ schedulable[a]
        IN  (stale /\ Managed(a) /\ fault[a] = "none")
                ~> (~stale \/ ~Managed(a) \/ fault[a] # "none")

(***************************************************************************)
(* The account_evicted alert of an account follows its eviction although   *)
(* samples are lost and ticks crash: every reconciliation stores the level.*)
(***************************************************************************)
AlertFollowsEviction ==
    \A a \in Accounts :
        /\ states[a].evicted ~> (a \in alert \/ ~states[a].evicted)
        /\ (a \in alert /\ ~states[a].evicted)
               ~> (a \notin alert \/ states[a].evicted \/ a \notin present)

(***************************************************************************)
(* An eviction that is due takes place, its alert follows it, and neither  *)
(* it nor its record outlasts its reason.                                  *)
(***************************************************************************)
EvictionsSettle ==
    WellAccountsReturn /\ BadAccountsLeave /\ StaleRecordsClear /\ AlertFollowsEviction
=============================================================================
