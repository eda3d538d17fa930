--------------------------- MODULE CreditControl ---------------------------
(***************************************************************************)
(* Recharge policies (src/app/services/credit_control.py): every due       *)
(* occurrence of a policy adds to the balance of the policy's users, once. *)
(*                                                                         *)
(* The service has no lock.  The scheduler's thread ticks again and again, *)
(* the thread that starts it ticks once itself (credit_scheduler.py:52-67),*)
(* and operators run, edit and delete policies and adjust balances.  What  *)
(* keeps them apart is the unique index over the occurrences of the runs.  *)
(*                                                                         *)
(* Time is counted in occurrences: when clock = n the instant of           *)
(* occurrence n has passed and that of n + 1 has not come.  One policy is  *)
(* modelled; others only make a tick longer.                               *)
(***************************************************************************)
EXTENDS Integers, FiniteSets

CONSTANTS
    Users,
    Operators,       \* threads that serve operators' requests
    Kinds,           \* a subset of {"once", "recurring", "interval"}; recurring stands
                     \* for daily, weekly and monthly
    Last,            \* bound on the clock; schedules end there
    MaxRequests,     \* bound on the runs that operators ask for
    Failures,        \* a subset of {"refused", "refresh", "resolve", "crash"}
    Requests         \* a subset of {"run", "adjust", "toggle", "delete"}

ASSUME CreditAssumption ==
    /\ Last \in Nat \ {0} /\ MaxRequests \in Nat
    /\ Kinds \subseteq {"once", "recurring", "interval"}
    /\ Operators \cap {"startup", "scheduler"} = {}

VARIABLES
    clock,
    policy,      \* the stored policy, or NoPolicy
    runs,        \* status of the run of each occurrence: "none", "planned", "finished"
    balance,     \* what each user was credited with, by the run that did it
    pc,          \* per thread: its next step
    mem,         \* the policy as it read it
    key,         \* the occurrence it executes
    upto,        \* the time at which its tick began
    todo,        \* users it has still to credit
    requests,    \* runs that operators have asked for
    wanted,      \* history: what operators want of the policy
    broken       \* history: the occurrences whose run was broken off behind its placeholder

vars == <<clock, policy, runs, balance, pc, mem, key, upto, todo, requests,
          wanted, broken>>
locals == <<mem, key, upto, todo>>

Ticking == {"startup", "scheduler"}
Threads == Ticking \cup Operators

\* Occurrences of the schedule, and the moments at which operators ask for a run.
Occurrences == 1..Last
Keys == 1..(Last + MaxRequests)
NoTime == 0
Policy == [kind : Kinds, enabled : BOOLEAN, next : 0..Last]
NoPolicy == [kind |-> "none", enabled |-> FALSE, next |-> -1]
Status == {"none", "planned", "finished"}

\* To go on as it began, which nobody has touched; to go on from some later moment; to rest.
Wishes == {"untouched", "on", "off"}

TypeOK ==
    /\ clock \in 0..Last
    /\ policy \in Policy \cup {NoPolicy}
    /\ runs \in [Keys -> Status]
    /\ balance \in [Keys -> [Users -> Nat]]
    /\ pc \in [Threads -> {"idle", "done", "loop", "scan", "claim", "resolve", "paying",
                           "advance"}]
    /\ mem \in [Threads -> Policy \cup {NoPolicy}]
    /\ \A t \in Threads : pc[t] \in {"scan", "advance"} => mem[t] # NoPolicy
    /\ key \in [Threads -> Keys \cup {0}]
    /\ upto \in [Threads -> 0..Last]
    /\ todo \in [Threads -> SUBSET Users]
    /\ requests \in 0..MaxRequests
    /\ wanted \in Wishes
    /\ broken \in SUBSET (Keys \cup {0})

Init ==
    /\ clock = 0
    /\ policy \in [kind : Kinds, enabled : {TRUE}, next : {1}]
    /\ runs = [k \in Keys |-> "none"]
    /\ balance = [k \in Keys |-> [u \in Users |-> 0]]
    /\ pc = [t \in Threads |-> "idle"]
    /\ mem = [t \in Threads |-> NoPolicy]
    /\ key = [t \in Threads |-> 0]
    /\ upto = [t \in Threads |-> 0]
    /\ todo = [t \in Threads |-> {}]
    /\ requests = 0
    /\ wanted = "untouched"
    /\ broken = {}

-----------------------------------------------------------------------------
(* The schedule.                                                           *)

\* _next_run_at: the first occurrence after the k-th, if the schedule has one.
NextAfter(k) == IF k < Last THEN k + 1 ELSE NoTime

\* Mutation of Advanced: a missed occurrence is not caught up.
AdvancedFromNow(p, k, t) ==
    IF p.kind = "once" THEN [p EXCEPT !.enabled = FALSE, !.next = NoTime]
    ELSE [p EXCEPT !.next = NextAfter(clock)]

\* Interval policies and operators' runs go on from now, a tick from the occurrence.
Advanced(p, k, t) ==
    IF p.kind = "once" THEN [p EXCEPT !.enabled = FALSE, !.next = NoTime]
    ELSE [p EXCEPT !.next = NextAfter(IF p.kind = "interval" \/ t \in Operators
                                      THEN clock ELSE k)]

Due(p, time) == p.enabled /\ p.next # NoTime /\ p.next <= time

-----------------------------------------------------------------------------
(* One thread.                                                             *)

\* The startup tick is not repeated.
Rest(t) == IF t = "startup" THEN "done" ELSE "idle"

Stop(t) ==
    /\ pc' = [pc EXCEPT ![t] = Rest(t)]
    /\ mem' = [mem EXCEPT ![t] = NoPolicy]
    /\ key' = [key EXCEPT ![t] = 0]
    /\ upto' = [upto EXCEPT ![t] = 0]
    /\ todo' = [todo EXCEPT ![t] = {}]

\* A tick reads the policies that are due.
StartTick(t) ==
    /\ t \in Ticking /\ pc[t] = "idle"
    /\ IF Due(policy, clock)
       THEN /\ pc' = [pc EXCEPT ![t] = IF policy.kind = "interval" THEN "scan" ELSE "loop"]
            /\ mem' = [mem EXCEPT ![t] = policy]
            /\ key' = [key EXCEPT ![t] = policy.next]
            /\ upto' = [upto EXCEPT ![t] = clock]
            /\ UNCHANGED todo
       ELSE Stop(t)
    /\ UNCHANGED <<clock, policy, runs, balance, requests, wanted, broken>>

\* An operator's run of the policy; its occurrence is the present moment.
RunNow(t) ==
    /\ "run" \in Requests /\ requests < MaxRequests /\ policy # NoPolicy
    /\ t \in Operators /\ pc[t] = "idle" /\ pc["startup"] = "done"
    /\ requests' = requests + 1
    /\ key' = [key EXCEPT ![t] = Last + requests + 1]
    /\ mem' = [mem EXCEPT ![t] = policy]
    /\ pc' = [pc EXCEPT ![t] = IF policy.kind = "interval" THEN "scan" ELSE "claim"]
    /\ wanted' = IF wanted = "off" THEN "off" ELSE "on"
    /\ UNCHANGED <<clock, policy, runs, balance, upto, todo, broken>>

\* An operator's manual adjustment has no policy and no placeholder.
Adjust(t) ==
    /\ "adjust" \in Requests /\ requests < MaxRequests
    /\ t \in Operators /\ pc[t] = "idle" /\ pc["startup"] = "done"
    /\ requests' = requests + 1
    /\ key' = [key EXCEPT ![t] = Last + requests + 1]
    /\ \E targets \in SUBSET Users \ {{}} : todo' = [todo EXCEPT ![t] = targets]
    /\ pc' = [pc EXCEPT ![t] = "paying"]
    /\ UNCHANGED <<clock, policy, runs, balance, mem, upto, wanted, broken>>

\* Mutation of Look: a run that exists does not advance the policy.
LookInVain(t) ==
    /\ pc[t] = "loop"
    /\ IF Due(mem[t], upto[t]) /\ runs[mem[t].next] = "none"
       THEN /\ pc' = [pc EXCEPT ![t] = "claim"]
            /\ key' = [key EXCEPT ![t] = mem[t].next]
            /\ UNCHANGED <<mem, upto, todo>>
       ELSE Stop(t)
    /\ UNCHANGED <<clock, policy, runs, balance, requests, wanted, broken>>

\* The tick's next occurrence: done, or already run by somebody, or to be run.
Look(t) ==
    /\ pc[t] = "loop"
    /\ \/ ~Due(mem[t], upto[t]) /\ Stop(t) /\ UNCHANGED policy
       \/ /\ Due(mem[t], upto[t]) /\ runs[mem[t].next] # "none"
          /\ policy' = Advanced(mem[t], mem[t].next, t)
          /\ mem' = [mem EXCEPT ![t] = policy']
          /\ UNCHANGED <<pc, key, upto, todo>>
       \/ /\ Due(mem[t], upto[t]) /\ runs[mem[t].next] = "none"
          /\ pc' = [pc EXCEPT ![t] = "claim"]
          /\ key' = [key EXCEPT ![t] = mem[t].next]
          /\ UNCHANGED <<policy, mem, upto, todo>>
    /\ UNCHANGED <<clock, runs, balance, requests, wanted, broken>>

\* An interval policy resolves its users first.  When there are none it advances
\* without a run; when the occurrence has a run nothing happens.
Scan(t) ==
    /\ pc[t] = "scan"
    /\ \/ /\ runs[key[t]] = "none"
          /\ \E targets \in SUBSET Users :
                /\ todo' = [todo EXCEPT ![t] = targets]
                /\ pc' = [pc EXCEPT ![t] = IF targets = {} THEN "advance" ELSE "claim"]
          /\ UNCHANGED <<mem, key, upto>>
       \/ runs[key[t]] # "none" /\ Stop(t)
    /\ UNCHANGED <<clock, policy, runs, balance, requests, wanted, broken>>

\* The operational data cannot be refreshed before the run: the tick, or the request,
\* is given up.
Abort(t) ==
    /\ "refresh" \in Failures
    /\ pc[t] \in {"scan", "claim"}
    /\ Stop(t)
    /\ UNCHANGED <<clock, policy, runs, balance, requests, wanted, broken>>

\* What follows when the occurrence turns out to have a run.
ReturnExisting(t) ==
    IF t \in Ticking /\ mem[t].kind # "interval"
    THEN pc' = [pc EXCEPT ![t] = "loop"] /\ UNCHANGED locals
    ELSE Stop(t)

Execute(t) ==
    /\ pc' = [pc EXCEPT ![t] = IF mem[t].kind = "interval" THEN "paying" ELSE "resolve"]
    /\ UNCHANGED locals

\* Mutation of Claim: the occurrences of the runs are not unique.
ClaimAnyway(t) ==
    /\ pc[t] = "claim"
    /\ runs' = [runs EXCEPT ![key[t]] = "planned"]
    /\ Execute(t)
    /\ UNCHANGED <<clock, policy, balance, requests, wanted, broken>>

\* The placeholder of the run is inserted, unless the occurrence has a run.
Claim(t) ==
    /\ pc[t] = "claim"
    /\ \/ /\ runs[key[t]] = "none"
          /\ runs' = [runs EXCEPT ![key[t]] = "planned"]
          /\ Execute(t)
       \/ runs[key[t]] # "none" /\ ReturnExisting(t) /\ UNCHANGED runs
    /\ UNCHANGED <<clock, policy, balance, requests, wanted, broken>>

Resolve(t) ==
    /\ pc[t] = "resolve"
    /\ \E targets \in SUBSET Users : todo' = [todo EXCEPT ![t] = targets]
    /\ pc' = [pc EXCEPT ![t] = "paying"]
    /\ UNCHANGED <<clock, policy, runs, balance, mem, key, upto, requests, wanted, broken>>

\* Users of the policy do not exist: the tick, or the request, ends with an error.  The
\* placeholder of the run, if there is one, stays as it is.
ResolveFails(t) ==
    /\ "resolve" \in Failures
    /\ pc[t] = IF mem[t].kind = "interval" THEN "scan" ELSE "resolve"
    /\ broken' = IF pc[t] = "resolve" THEN broken \cup {key[t]} ELSE broken
    /\ Stop(t)
    /\ UNCHANGED <<clock, policy, runs, balance, requests, wanted>>

\* Upstream adds to the balance.  When the answer is lost the outcome is recorded as
\* failed, as when upstream refuses; nobody asks again in any case.
Credit(t, u) ==
    /\ pc[t] = "paying" /\ u \in todo[t]
    /\ balance' = [balance EXCEPT ![key[t]][u] = @ + 1]
    /\ todo' = [todo EXCEPT ![t] = @ \ {u}]
    /\ UNCHANGED <<clock, policy, runs, pc, mem, key, upto, requests, wanted, broken>>

CreditRefused(t, u) ==
    /\ "refused" \in Failures
    /\ pc[t] = "paying" /\ u \in todo[t]
    /\ todo' = [todo EXCEPT ![t] = @ \ {u}]
    /\ UNCHANGED <<clock, policy, runs, balance, pc, mem, key, upto, requests, wanted, broken>>

\* The run is stored with its outcomes; a manual adjustment is over then.
Finish(t) ==
    /\ pc[t] = "paying" /\ todo[t] = {}
    /\ runs' = [runs EXCEPT ![key[t]] = "finished"]
    /\ IF mem[t] = NoPolicy THEN Stop(t)
       ELSE pc' = [pc EXCEPT ![t] = "advance"] /\ UNCHANGED locals
    /\ UNCHANGED <<clock, policy, balance, requests, wanted, broken>>

\* The policy is advanced; a tick goes on with its next occurrence.
Advance(t) ==
    /\ pc[t] = "advance"
    /\ policy' = Advanced(mem[t], key[t], t)
    /\ IF t \in Ticking /\ mem[t].kind # "interval"
       THEN /\ pc' = [pc EXCEPT ![t] = "loop"]
            /\ mem' = [mem EXCEPT ![t] = policy']
            /\ UNCHANGED <<key, upto, todo>>
       ELSE Stop(t)
    /\ UNCHANGED <<clock, runs, balance, requests, wanted, broken>>

-----------------------------------------------------------------------------
(* Everybody else.                                                         *)

Serving == pc["startup"] = "done"

\* save_policy: an operator enables the policy, from now on, or disables it.
Toggle ==
    /\ "toggle" \in Requests /\ Serving /\ policy # NoPolicy
    /\ wanted' = IF wanted = "off" THEN "on" ELSE "off"
    /\ policy' = [policy EXCEPT !.enabled = (wanted' = "on"),
                                !.next = IF wanted' = "on" THEN NextAfter(clock) ELSE NoTime]
    /\ UNCHANGED <<clock, runs, balance, pc, locals, requests, broken>>

DeletePolicy ==
    /\ "delete" \in Requests /\ Serving /\ policy # NoPolicy
    /\ policy' = NoPolicy
    /\ wanted' = "off"
    /\ UNCHANGED <<clock, runs, balance, pc, locals, requests, broken>>

TimePasses ==
    /\ clock < Last
    /\ clock' = clock + 1
    /\ UNCHANGED <<policy, runs, balance, pc, locals, requests, wanted, broken>>

\* The process dies; it is started again at once.
Crash ==
    /\ "crash" \in Failures
    /\ \E t \in Threads : pc[t] \notin {"idle", "done"}
    /\ pc' = [t \in Threads |-> "idle"]
    /\ mem' = [t \in Threads |-> NoPolicy]
    /\ key' = [t \in Threads |-> 0]
    /\ upto' = [t \in Threads |-> 0]
    /\ todo' = [t \in Threads |-> {}]
    /\ broken' = broken \cup {k \in Keys : runs[k] = "planned"}
    /\ UNCHANGED <<clock, policy, runs, balance, requests, wanted>>

Step(t) ==
    \/ StartTick(t) \/ Look(t) \/ Scan(t) \/ Claim(t) \/ Resolve(t)
    \/ Abort(t) \/ ResolveFails(t)
    \/ \E u \in Users : Credit(t, u) \/ CreditRefused(t, u)
    \/ Finish(t) \/ Advance(t)

Next ==
    \/ \E t \in Threads : Step(t) \/ RunNow(t) \/ Adjust(t)
    \/ Toggle \/ DeletePolicy \/ TimePasses \/ Crash

Spec == Init /\ [][Next]_vars

\* Threads go on, the scheduler ticks again and again; a refresh, or a scan, that is
\* tried again and again succeeds some day; operators and crashes let it.
Fairness ==
    /\ \A t \in Threads : WF_vars(Step(t))
    /\ SF_vars(Claim("scheduler")) /\ SF_vars(Scan("scheduler"))
    /\ <>[][~Crash /\ ~Toggle /\ ~DeletePolicy]_vars

FairSpec == Spec /\ Fairness

-----------------------------------------------------------------------------
(***************************************************************************)
(* "The system applies the configured additive recharge once for that      *)
(* occurrence", "does not apply duplicate recharge to the same occurrence" *)
(* (openspec/specs/credit-control/spec.md): whatever threads, answers and  *)
(* crashes do, no occurrence credits a user twice.                         *)
(***************************************************************************)
AtMostOnce == \A k \in Keys, u \in Users : balance[k][u] <= 1

\* A thread executes the occurrence, behind its placeholder.
InHand(k) == \E t \in Threads : key[t] = k /\ pc[t] \in {"resolve", "paying"}

(***************************************************************************)
(* "Missed recharge occurrence is caught up once": while the policy stays  *)
(* enabled every occurrence before its next one has a run with its         *)
(* outcomes, or is being executed, whatever the ticking threads overwrite  *)
(* of each other and whenever the process dies.  Two exceptions.  An       *)
(* operator who runs or edits the policy moves it on from now              *)
(* (credit_control.py:1042), past an occurrence that is overdue.  And an   *)
(* occurrence whose execution was broken off behind its placeholder, by a  *)
(* crash or because users of the policy do not exist (:574), is advanced   *)
(* past by the next tick (:403-404) and never executed: its run stays      *)
(* "planned".                                                              *)
(***************************************************************************)
NoOccurrenceSkipped ==
    policy.kind = "recurring" /\ wanted = "untouched" /\ policy.enabled =>
        \A k \in Occurrences :
            k < (IF policy.next = NoTime THEN Last + 1 ELSE policy.next) =>
                runs[k] = "finished" \/ k \in broken \/ InHand(k)

Working(k) == \E t \in Threads : key[t] = k /\ pc[t] \notin {"idle", "done"}

(***************************************************************************)
(* "The system SHALL always persist ... automatic recharge run outcomes":  *)
(* a balance that an occurrence of the policy has changed has a run, even  *)
(* after crashes.  Manual adjustments, which are stored after the balances *)
(* have changed, may be lost.                                              *)
(***************************************************************************)
CreditsAreRecorded ==
    \A k \in Occurrences :
        ~Working(k) /\ (\E u \in Users : balance[k][u] > 0) => runs[k] # "none"

(***************************************************************************)
(* What is due is executed, once begun unless it is broken off, and what   *)
(* is credited is on record.                                               *)
(***************************************************************************)
CreditsSettle == NoOccurrenceSkipped /\ CreditsAreRecorded

MovesOn(kinds) ==
    \A k \in Occurrences :
        (policy.kind \in kinds /\ Due(policy, clock) /\ policy.next = k)
            ~> ~(Due(policy, clock) /\ policy.next = k)

(***************************************************************************)
(* "The next scheduled time is advanced for recurring policies": a policy  *)
(* that is due moves on some day, so that later occurrences are run,       *)
(* although refreshes fail, users do not exist and the process crashes.    *)
(***************************************************************************)
PolicyAdvances == MovesOn({"once", "recurring"})

(***************************************************************************)
(* The same of interval policies.  Does not hold: after a crash the next   *)
(* scan finds the placeholder of the run that crashed, and does nothing,   *)
(* for ever (credit_control.py:530-532).                                   *)
(***************************************************************************)
IntervalAdvances == MovesOn({"interval"})
=============================================================================
