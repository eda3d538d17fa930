----------------------------- MODULE Schedulers -----------------------------
(***************************************************************************)
(* Startup, background work and shutdown of the process: lifespan in       *)
(* src/app/main.py and the seven *_scheduler.py of src/app/services.       *)
(*                                                                         *)
(* The schedulers have one loop: wait until the next tick is due or a stop *)
(* is asked for, then do the work unless it is disabled.  Those that read  *)
(* the operational data hold their first tick until a warm-up thread has   *)
(* refreshed it and opened a gate.  Cadences are left out: a tick may be   *)
(* due at any time.                                                        *)
(***************************************************************************)
EXTENDS Naturals, Sequences
LOCAL INSTANCE SequencesExt

CONSTANTS
    StartOrder,   \* the schedulers, in the order lifespan starts them
    StopOrder,    \* and in the order it stops them
    Gated,        \* those with a ready_event
    TicksAtStart, \* CreditControlScheduler: start() does a first tick itself
    Refreshes     \* how many refreshes the warm-up does

AllNames == ToSet(StartOrder)

SchedulersAssumption ==
    /\ StartOrder \in Seq(AllNames) /\ StopOrder \in Seq(AllNames)
    /\ ToSet(StopOrder) = AllNames /\ Len(StopOrder) = Len(StartOrder)
    /\ Gated \subseteq AllNames /\ TicksAtStart \subseteq AllNames \ Gated
    /\ Refreshes \in Nat

VARIABLES
    main,      \* what lifespan is doing
    next,      \* the scheduler it starts or stops next
    shutdown,  \* shutdown_requested
    warmup,    \* "none", "check", "refresh", "aborted" by a shutdown, "ended"
    refreshed, \* refreshes the warm-up has tried
    ready,     \* warmup_completed, the gate
    stop,      \* _stop_event of each scheduler
    loop,      \* where the thread of each scheduler is
    enabled    \* what the enabled_provider of each scheduler answers

vars == <<main, next, shutdown, warmup, refreshed, ready, stop, loop, enabled>>

TypeOK ==
    /\ main \in {"starting", "ticking", "serving", "joining", "stopping", "exited"}
    /\ next \in 1..(Len(StartOrder) + 1)
    /\ shutdown \in BOOLEAN /\ ready \in BOOLEAN
    /\ warmup \in {"none", "check", "refresh", "aborted", "ended"} /\ refreshed \in 0..Refreshes
    /\ stop \in [AllNames -> BOOLEAN] /\ enabled \in [AllNames -> BOOLEAN]
    /\ loop \in [AllNames -> {"none", "gate", "wait", "tick", "ended"}]

Init ==
    /\ main = "starting" /\ next = 1 /\ shutdown = FALSE
    /\ warmup = "none" /\ refreshed = 0 /\ ready = FALSE
    /\ stop = [s \in AllNames |-> FALSE]
    /\ loop = [s \in AllNames |-> "none"]
    /\ enabled \in [AllNames -> BOOLEAN]

-----------------------------------------------------------------------------
(* lifespan.                                                               *)

Start ==
    /\ main = "starting" /\ next <= Len(StartOrder)
    /\ LET s == StartOrder[next]
       IN  /\ loop' = [loop EXCEPT ![s] = IF s \in Gated THEN "gate" ELSE "wait"]
           /\ main' = IF s \in TicksAtStart /\ enabled[s] THEN "ticking" ELSE main
    /\ next' = next + 1
    /\ UNCHANGED <<shutdown, warmup, refreshed, ready, stop, enabled>>

\* The tick that start() does itself is over, or has failed.
FirstTickEnds ==
    /\ main = "ticking" /\ main' = "starting"
    /\ UNCHANGED <<next, shutdown, warmup, refreshed, ready, stop, loop, enabled>>

\* The warm-up is dispatched and the port opened.
Serve ==
    /\ main = "starting" /\ next > Len(StartOrder)
    /\ main' = "serving" /\ warmup' = "check"
    /\ UNCHANGED <<next, shutdown, refreshed, ready, stop, loop, enabled>>

Shutdown ==
    /\ main = "serving"
    /\ main' = "joining" /\ shutdown' = TRUE
    /\ UNCHANGED <<next, warmup, refreshed, ready, stop, loop, enabled>>

\* The warm-up is waited for, two seconds long.
WarmupJoined ==
    /\ main = "joining"
    /\ main' = "stopping" /\ next' = 1
    /\ UNCHANGED <<shutdown, warmup, refreshed, ready, stop, loop, enabled>>

\* A scheduler's thread is waited for two seconds, too.
Stop ==
    /\ main = "stopping" /\ next <= Len(StopOrder)
    /\ stop' = [stop EXCEPT ![StopOrder[next]] = TRUE]
    /\ next' = next + 1
    /\ UNCHANGED <<main, shutdown, warmup, refreshed, ready, loop, enabled>>

Exit ==
    /\ main = "stopping" /\ next > Len(StopOrder)
    /\ main' = "exited"
    /\ UNCHANGED <<next, shutdown, warmup, refreshed, ready, stop, loop, enabled>>

-----------------------------------------------------------------------------
(* run_startup_warmup.                                                     *)

\* Mutation of Opens: the gate is opened on every way out.
OpensAlways(failed) == TRUE

\* Mutation of Opens: the gate is opened when the refreshes have succeeded.
OpensOnSuccess(failed) == ~shutdown /\ ~failed

\* The gate is opened in a finally, but never during shutdown.
Opens(failed) == ~shutdown

WarmupChecks ==
    /\ warmup = "check"
    /\ warmup' = IF refreshed = Refreshes THEN "ended"
                 ELSE IF shutdown THEN "aborted" ELSE "refresh"
    /\ ready' = (ready \/ (warmup' # "refresh" /\ Opens(FALSE)))
    /\ UNCHANGED <<main, next, shutdown, refreshed, stop, loop, enabled>>

\* A refresh ends or raises; what no except catches ends the warm-up.
WarmupRefreshes ==
    /\ warmup = "refresh"
    /\ \/ warmup' = "check" /\ refreshed' = refreshed + 1 /\ UNCHANGED ready
       \/ warmup' = "ended" /\ UNCHANGED refreshed /\ ready' = (ready \/ Opens(TRUE))
    /\ UNCHANGED <<main, next, shutdown, stop, loop, enabled>>

-----------------------------------------------------------------------------
(* A scheduler's thread, and the operators.                                *)

Goto(s, place) == loop' = [loop EXCEPT ![s] = place]

\* _await_ready.
GateSteps(s) ==
    /\ loop[s] = "gate"
    /\ \/ ready /\ Goto(s, "wait")
       \/ ~ready /\ stop[s] /\ Goto(s, "ended")

\* A tick is due, or a stop is asked for.
Tick(s) ==
    /\ loop[s] = "wait" /\ ~stop[s]
    /\ enabled[s] /\ Goto(s, "tick")

Quit(s) == loop[s] = "wait" /\ stop[s] /\ Goto(s, "ended")

\* The work is done or raises, which is logged.
TickEnds(s) == loop[s] = "tick" /\ Goto(s, "wait")

Step(s) ==
    /\ GateSteps(s) \/ Tick(s) \/ Quit(s) \/ TickEnds(s)
    /\ UNCHANGED <<main, next, shutdown, warmup, refreshed, ready, stop, enabled>>

Configure(s) ==
    /\ main = "serving"
    /\ enabled' = [enabled EXCEPT ![s] = ~@]
    /\ UNCHANGED <<main, next, shutdown, warmup, refreshed, ready, stop, loop>>

Main == Start \/ FirstTickEnds \/ Serve \/ WarmupJoined \/ Stop \/ Exit
Warmup == WarmupChecks \/ WarmupRefreshes

Next == Main \/ Shutdown \/ Warmup \/ \E s \in AllNames : Step(s) \/ Configure(s)

Spec == Init /\ [][Next]_vars

\* Every thread goes on; an operator need not shut the process down.
Fairness == WF_vars(Main) /\ WF_vars(Warmup) /\ \A s \in AllNames : WF_vars(Step(s))

FairSpec == Spec /\ Fairness

-----------------------------------------------------------------------------
(* Properties.                                                             *)

(***************************************************************************)
(* A scheduler that reads the operational data does nothing before the     *)
(* warm-up has ended, and nothing at all when a shutdown cut it short: the *)
(* gate stays closed then, though its thread learns of the stop later.     *)
(***************************************************************************)
GateHolds ==
    \A s \in Gated : loop[s] = "tick" => warmup = "ended"

(***************************************************************************)
(* Whatever refreshes fail, a scheduler that stays enabled ticks again and *)
(* again until a shutdown; and after a shutdown every thread ends, those   *)
(* that still wait for the gate included.                                  *)
(***************************************************************************)
SchedulersRunAndStop ==
    \A s \in AllNames :
        /\ <>[](enabled[s] /\ ~shutdown) => []<>(loop[s] = "tick")
        /\ shutdown ~> main = "exited" /\ loop[s] = "ended"
=============================================================================
