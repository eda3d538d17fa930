------------------------------- MODULE MCLive -------------------------------
(***************************************************************************)
(* What must happen in the end, of components that share nothing:          *)
(* Schedulers, CreditControl, Notification and ProxyProbe.  Init chooses   *)
(* the one that a behaviour is about, and fairness is asked of that one;   *)
(* the others rest.                                                        *)
(***************************************************************************)
EXTENDS Schedulers, Integers, FiniteSets

CONSTANTS p1, u1, Worker

VARIABLES
    subject,                                               \* the component
    clock, policy, runs, balance, pc, mem, key, upto,      \* of CreditControl
    todo, requests, wanted, broken,
    world, sample, state, told, failures, good,            \* of Notification
    silenced, overlapped, thread,
    listed, states, alert, allDown, clearing, step,        \* of ProxyProbe
    outcomes, unsaved, vanished, recovered, streak, cleared

creditVars == <<clock, policy, runs, balance, pc, mem, key, upto, todo, requests,
                wanted, broken>>
noticeVars == <<world, sample, state, told, failures, good, silenced, overlapped,
                thread>>
probeVars == <<listed, states, alert, allDown, clearing, step, outcomes, unsaved, vanished,
               recovered, streak, cleared>>

-----------------------------------------------------------------------------

MCStart == <<"rotation", "credit", "proxy">>
MCStop == <<"proxy", "rotation", "credit">>

Credit == INSTANCE CreditControl WITH
    Users <- {u1}, Operators <- {}, Kinds <- {"once", "recurring", "interval"}, Last <- 3,
    MaxRequests <- 0, Failures <- {"refused", "refresh", "resolve", "crash"}, Requests <- {}

Notice == INSTANCE Notification WITH
    Scopes <- {"s1"}, Threads <- {Worker}, For <- 2, Cooldown <- 2, Expiration <- 1,
    MaxAttempts <- 2, Failures <- {"refused", "lost", "crash"}, MaxLag <- 1, MaxFailures <- 2

Probe == INSTANCE ProxyProbe WITH
    Proxies <- {p1}, FailureThreshold <- 2, RecoveryThreshold <- 2, Whitelisted <- {}

ASSUME SchedulersAssumption /\ Notice!NotificationAssumption /\ Probe!ProbeAssumption

-----------------------------------------------------------------------------

SchedulersRest == Init /\ \A s \in AllNames : enabled[s]
CreditRests == Credit!Init /\ policy.kind = "once"
NoticeRests ==
    /\ world = [s \in {"s1"} |-> "good"] /\ sample = <<>> /\ state = <<>>
    /\ told = world /\ failures = 0 /\ good = <<>> /\ silenced = FALSE /\ overlapped = FALSE
    /\ thread = <<>>
ProbeRests == Probe!Init

AnyInit ==
    \/ /\ subject = "schedulers" /\ Init
       /\ CreditRests /\ NoticeRests /\ ProbeRests
    \/ /\ subject = "credit" /\ Credit!Init
       /\ SchedulersRest /\ NoticeRests /\ ProbeRests
    \/ /\ subject = "notice" /\ Notice!Init
       /\ SchedulersRest /\ CreditRests /\ ProbeRests
    \/ /\ subject = "probe" /\ Probe!Init
       /\ SchedulersRest /\ CreditRests /\ NoticeRests

AnyNext ==
    /\ UNCHANGED subject
    /\ \/ /\ subject = "schedulers" /\ Next
          /\ UNCHANGED <<creditVars, noticeVars, probeVars>>
       \/ /\ subject = "credit" /\ Credit!Next
          /\ UNCHANGED <<vars, noticeVars, probeVars>>
       \/ /\ subject = "notice" /\ Notice!Next
          /\ UNCHANGED <<vars, creditVars, probeVars>>
       \/ /\ subject = "probe" /\ Probe!Next
          /\ UNCHANGED <<vars, creditVars, noticeVars>>

anyVars == <<subject, vars, creditVars, noticeVars, probeVars>>

\* The fairness of each component, when the behaviour is about it.
SchedulersFair ==
    /\ WF_vars(subject = "schedulers" /\ Main)
    /\ WF_vars(subject = "schedulers" /\ Warmup)
    /\ \A s \in AllNames : WF_vars(subject = "schedulers" /\ Step(s))

CreditFair ==
    /\ \A t \in {"startup", "scheduler"} : WF_creditVars(subject = "credit" /\ Credit!Step(t))
    /\ SF_creditVars(subject = "credit" /\ Credit!Claim("scheduler"))
    /\ SF_creditVars(subject = "credit" /\ Credit!Scan("scheduler"))
    /\ <>[][subject = "credit" => ~Credit!Crash]_creditVars

NoticeFair ==
    /\ WF_noticeVars(subject = "notice" /\ Notice!Minute)
    /\ WF_noticeVars(subject = "notice" /\ Notice!Begin(Worker))
    /\ WF_noticeVars(subject = "notice" /\ Notice!Step(Worker))

ProbeFair ==
    /\ WF_probeVars(subject = "probe" /\ \E obs \in [listed -> Probe!Observation] :
                                            Probe!StartProbe(obs))
    /\ WF_probeVars(subject = "probe" /\ (Probe!SaveState(p1) \/ Probe!ForgetState(p1)))
    /\ WF_probeVars(subject = "probe" /\ (Probe!ClearSample \/ Probe!ClearSampleFails))
    /\ WF_probeVars(subject = "probe" /\ (Probe!SaveSamples \/ Probe!SamplesFail))
    /\ SF_probeVars(subject = "probe" /\ Probe!SaveSamples)
    /\ <>[][subject = "probe" => ~Probe!CrashMidway]_probeVars

AnySpec ==
    /\ AnyInit /\ [][AnyNext]_anyVars
    /\ SchedulersFair /\ CreditFair /\ NoticeFair /\ ProbeFair

-----------------------------------------------------------------------------
(* The properties of the instances.                                        *)

\* Schedulers that stay enabled tick again and again, and all end after a shutdown.
RunAndStop == subject = "schedulers" => SchedulersRunAndStop

\* A policy that is due moves on.
PolicyAdvances == subject = "credit" => Credit!PolicyAdvances

\* A value that stays bad is reported, one that stays good as recovered.
ReceiverCatchesUp == subject = "notice" => Notice!ReceiverCatchesUp

\* The alert of a proxy follows the verdict on it.
AlertFollowsVerdict == subject = "probe" => Probe!AlertFollowsVerdict
=============================================================================
