---------------------------- MODULE Notification ----------------------------
(***************************************************************************)
(* One alerting rule: NotificationService (src/app/services/notification   *)
(* .py), evaluate_rule (notification_evaluator.py) and the delivery to a   *)
(* receiver (notification_delivery.py).  Samples are collected, the latest *)
(* of every scope is compared with the threshold, the state of the scope is*)
(* stored and then what has changed is delivered.                          *)
(*                                                                         *)
(* A tick of the scheduler and evaluations that operators ask for run side *)
(* by side, each in a thread.  Times are kept as ages in minutes that stop *)
(* growing where they no longer matter; all times of an evaluation are     *)
(* those of its beginning, lag minutes ago.  A value is good or bad: only  *)
(* whether it breaches the threshold matters.                              *)
(***************************************************************************)
EXTENDS Integers, FiniteSets

CONSTANTS
    Scopes,
    Threads,
    For,          \* for_minutes: how long a breach lasts before it is reported
    Cooldown,     \* cooldown_minutes: when it is reported again
    Expiration,   \* how old a sample may be
    MaxAttempts,  \* attempts of a delivery
    Failures,     \* of {"refused", "lost", "crash"}
    MaxLag,       \* bound on how long an evaluation takes
    MaxFailures   \* bound on the failures

NotificationAssumption ==
    /\ For \in Nat /\ Cooldown \in Nat /\ Expiration \in Nat
    /\ MaxAttempts \in Nat \ {0} /\ MaxLag \in Nat /\ MaxFailures \in Nat

VARIABLES
    world,       \* what upstream would answer for each scope
    sample,      \* the latest sample of each scope and its age
    state,       \* NotificationRuleState of each scope
    told,        \* what the receiver has heard last of each scope
    thread,
    failures,
    \* History.
    good,        \* minutes since the evaluation of a good sample was stored
    silenced,    \* a recovery was not delivered
    overlapped   \* two evaluations have been in progress at once

vars == <<world, sample, state, told, thread, failures, good, silenced, overlapped>>

Never == -1
BreachCap == For + MaxLag
AlertCap == Cooldown + MaxLag
SampleCap == Expiration + MaxLag + 1
Older(age, cap) == IF age \in {Never, cap} THEN age ELSE age + 1

Values == {"good", "bad"}
NoSample == [value |-> "none", age |-> SampleCap]
NoState == [firing |-> FALSE, breach |-> Never, alert |-> Never]
Idle == [pc |-> "idle", lag |-> 0, todo |-> {}, samples |-> {}, scope |-> "none",
         next |-> NoState, action |-> "hold", attempts |-> 0]

TypeOK ==
    /\ world \in [Scopes -> Values]
    /\ sample \in [Scopes -> [value : Values \cup {"none"}, age : 0..SampleCap]]
    /\ state \in [Scopes -> [firing : BOOLEAN, breach : Never..BreachCap, alert : Never..AlertCap]]
    /\ told \in [Scopes -> Values]
    /\ DOMAIN thread = Threads
    /\ \A t \in Threads : thread[t].lag \in 0..MaxLag /\ thread[t].attempts \in 0..MaxAttempts
    /\ failures \in 0..MaxFailures
    /\ good \in [Scopes -> 0..BreachCap]

Init ==
    /\ world = [s \in Scopes |-> "good"]
    /\ sample = [s \in Scopes |-> NoSample]
    /\ state = [s \in Scopes |-> NoState]
    /\ told = [s \in Scopes |-> "good"]
    /\ thread = [t \in Threads |-> Idle]
    /\ failures = 0
    /\ good = [s \in Scopes |-> BreachCap]
    /\ silenced = FALSE /\ overlapped = FALSE

-----------------------------------------------------------------------------

At(t, pc) == thread[t].pc = pc
Become(t, local) == thread' = [thread EXCEPT ![t] = local]

\* A minute passes.
Minute ==
    /\ \A t \in Threads : At(t, "idle") \/ thread[t].lag < MaxLag
    /\ sample' = [s \in Scopes |-> [sample[s] EXCEPT !.age = Older(@, SampleCap)]]
    /\ state' = [s \in Scopes |-> [state[s] EXCEPT !.breach = Older(@, BreachCap),
                                                   !.alert = Older(@, AlertCap)]]
    /\ good' = [s \in Scopes |-> Older(good[s], BreachCap)]
    /\ thread' = [t \in Threads |->
           IF At(t, "idle") THEN thread[t]
           ELSE [thread[t] EXCEPT !.lag = @ + 1,
                                  !.next.breach = Older(@, BreachCap),
                                  !.next.alert = Older(@, AlertCap)]]
    /\ UNCHANGED <<world, told, failures, silenced, overlapped>>

Change(s) ==
    /\ \E v \in Values : world' = [world EXCEPT ![s] = v]
    /\ UNCHANGED <<sample, state, told, thread, failures, good, silenced, overlapped>>

Begin(t) ==
    /\ At(t, "idle")
    /\ Become(t, [Idle EXCEPT !.pc = "collect"])
    /\ overlapped' = (overlapped \/ \E s \in Threads : ~At(s, "idle"))
    /\ UNCHANGED <<world, sample, state, told, failures, good, silenced>>

Fails(kind) == kind \in Failures /\ failures < MaxFailures /\ failures' = failures + 1

\* A sample carries the moment its collection began; a source that fails leaves none.
Collect(t) ==
    /\ At(t, "collect")
    /\ sample' = [s \in Scopes |-> IF sample[s].age >= thread[t].lag
                                   THEN [value |-> world[s], age |-> thread[t].lag]
                                   ELSE sample[s]]
    /\ Become(t, [thread[t] EXCEPT !.pc = "read"])
    /\ UNCHANGED <<world, state, told, failures, good, silenced, overlapped>>

CollectFails(t) ==
    /\ At(t, "collect") /\ Fails("refused")
    /\ Become(t, [thread[t] EXCEPT !.pc = "read"])
    /\ UNCHANGED <<world, sample, state, told, good, silenced, overlapped>>

\* A sample may be newer than the evaluation; it is not expired then.
Expired(t, s) == sample[s].value = "none" \/ sample[s].age - thread[t].lag > Expiration

ReadSamples(t) ==
    /\ At(t, "read")
    /\ LET known == {s \in Scopes : ~Expired(t, s)}
       IN  Become(t, [thread[t] EXCEPT !.pc = "next", !.todo = known,
                          !.samples = {s \in known : sample[s].value = "bad"}])
    /\ UNCHANGED <<world, sample, state, told, failures, good, silenced, overlapped>>

-----------------------------------------------------------------------------
(* evaluate_rule: what becomes of a scope, and what is sent.               *)

\* Mutation of Calm: the time the breach began is kept for the next one.
CalmButBreached(prior) == [prior EXCEPT !.firing = FALSE]

Calm(prior) == [prior EXCEPT !.firing = FALSE, !.breach = Never]

\* Mutation of Cooling: an alert that was stored is never sent again.
CoolingForever(prior, lag) == prior.alert # Never

\* A breach that has been reported is reported again when the cooldown is over.
Cooling(prior, lag) ==
    Cooldown > 0 /\ prior.alert # Never /\ prior.alert - lag < Cooldown

Decide(t, s) ==
    /\ At(t, "next") /\ s \in thread[t].todo
    /\ LET l == thread[t]
           prior == state[s]
           bad == s \in l.samples
           breach == IF prior.breach = Never THEN l.lag ELSE prior.breach
           fire == bad /\ IF prior.firing THEN ~Cooling(prior, l.lag) ELSE breach - l.lag >= For
           next == IF ~bad THEN Calm(prior)
                   ELSE IF fire
                   THEN [firing |-> TRUE, breach |-> breach, alert |-> l.lag]
                   ELSE [prior EXCEPT !.breach = breach]
       IN  Become(t, [l EXCEPT !.pc = "store", !.scope = s, !.todo = @ \ {s}, !.next = next,
                          !.attempts = 0,
                          !.action = IF fire THEN "bad"
                                     ELSE IF ~bad /\ prior.firing THEN "good" ELSE "hold"])
    /\ UNCHANGED <<world, sample, state, told, failures, good, silenced, overlapped>>

\* The state is stored first.
Store(t) ==
    /\ At(t, "store")
    /\ LET l == thread[t]
       IN  /\ state' = [state EXCEPT ![l.scope] = l.next]
           /\ good' = IF l.scope \in l.samples THEN good ELSE [good EXCEPT ![l.scope] = l.lag]
           /\ Become(t, [l EXCEPT !.pc = IF l.action = "hold" THEN "next" ELSE "deliver"])
    /\ UNCHANGED <<world, sample, told, failures, silenced, overlapped>>

Hear(t) == told' = [told EXCEPT ![thread[t].scope] = thread[t].action]
\* History: a recovery is on record as sent and will not be delivered any more.
Silence(t) == silenced' = (silenced \/ (At(t, "deliver") /\ thread[t].action = "good"))

Deliver(t) ==
    /\ At(t, "deliver")
    /\ Hear(t)
    /\ Become(t, [thread[t] EXCEPT !.pc = "next", !.action = "hold"])
    /\ UNCHANGED <<world, sample, state, failures, good, silenced, overlapped>>

\* The receiver cannot be reached, or its answer is lost: the delivery is tried again, a few
\* times and not after a refusal; then it is recorded as failed and forgotten.
DeliveryFails(t) ==
    /\ At(t, "deliver")
    /\ (Fails("refused") /\ UNCHANGED told) \/ (Fails("lost") /\ Hear(t))
    /\ LET l == thread[t]
       IN  \/ /\ l.attempts + 1 < MaxAttempts
              /\ Become(t, [l EXCEPT !.attempts = @ + 1])
              /\ UNCHANGED silenced
           \/ /\ Become(t, [l EXCEPT !.pc = "next", !.action = "hold"])
              /\ Silence(t)
    /\ UNCHANGED <<world, sample, state, good, overlapped>>

End(t) ==
    /\ At(t, "next") /\ thread[t].todo = {}
    /\ Become(t, Idle)
    /\ UNCHANGED <<world, sample, state, told, failures, good, silenced, overlapped>>

\* The process dies, or the store raises and the evaluation is given up.
Stops(t) ==
    /\ Fails("crash") /\ ~At(t, "idle")
    /\ Become(t, Idle)
    /\ Silence(t)
    /\ UNCHANGED <<world, sample, state, told, good, overlapped>>

-----------------------------------------------------------------------------

Step(t) ==
    \/ Collect(t) \/ ReadSamples(t) \/ Store(t) \/ Deliver(t) \/ End(t)
    \/ \E s \in Scopes : Decide(t, s)

Next ==
    \/ Minute
    \/ \E s \in Scopes : Change(s)
    \/ \E t \in Threads :
          Begin(t) \/ Step(t) \/ CollectFails(t) \/ DeliveryFails(t) \/ Stops(t)

Spec == Init /\ [][Next]_vars

\* Time passes, the threads, which are the scheduler's here, begin tick after tick, and a
\* tick goes on.
Fairness ==
    /\ WF_vars(Minute)
    /\ \A t \in Threads : WF_vars(Begin(t)) /\ WF_vars(Step(t))

FairSpec == Spec /\ Fairness

-----------------------------------------------------------------------------
(* Properties.                                                             *)

(***************************************************************************)
(* A breach is reported only when every evaluation that was stored in the  *)
(* last for_minutes saw it, whatever was delivered or lost of earlier      *)
(* breaches; as long as evaluations do not overlap.                        *)
(***************************************************************************)
SustainedOnly ==
    \A t \in Threads :
        At(t, "store") /\ thread[t].action = "bad" /\ ~overlapped
            => good[thread[t].scope] - thread[t].lag >= For

(***************************************************************************)
(* The state is stored before the delivery, so an alert may be lost; but a *)
(* value that stays bad is reported in the end, though deliveries and      *)
(* collections failed and the process died in between; and a value that    *)
(* stays good is reported as recovered, unless a recovery that was stored  *)
(* has not been delivered, for its delivery failed or the process died in  *)
(* between: that one is not repeated.                                      *)
(***************************************************************************)
ReceiverCatchesUp ==
    \A s \in Scopes :
        /\ <>[](world[s] = "bad") => <>[](told[s] = "bad")
        /\ <>[](world[s] = "good") => <>[](told[s] = "good" \/ silenced)
=============================================================================
