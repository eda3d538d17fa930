------------------------ MODULE CreditControlProofs ------------------------
(***************************************************************************)
(* Proofs about CreditControl: an occurrence credits a user at most once,  *)
(* its credits are recorded, and none is skipped while operators leave the *)
(* policy alone, unless its execution is broken off behind its placeholder;*)
(* for every number of users, operators, occurrences and requests.         *)
(*                                                                         *)
(* The argument: a ticking thread pays only for an occurrence whose run it *)
(* has itself inserted, so two of them never pay for the same one; the key *)
(* of an operator's run is new, so nobody else ever has it; and what a     *)
(* thread has still to credit has not been credited.  None of this is said *)
(* by AtMostOnce itself, which is not inductive.                           *)
(***************************************************************************)
EXTENDS CreditControl, TLAPS

Early(t) == pc[t] \in {"scan", "claim"}
Paying(t) == pc[t] \in {"resolve", "paying"}

\* Operators' keys are new; ticking threads have occurrences of the schedule.
KeysBounded ==
    /\ \A t \in Threads : key[t] <= Last + requests
    /\ \A t \in Threads : Early(t) \/ Paying(t) => key[t] # 0
    /\ \A t \in Ticking : key[t] <= Last
    /\ \A t \in Operators : key[t] # 0 => key[t] > Last

KeysApart == \A t1, t2 \in Operators : t1 # t2 /\ key[t1] # 0 => key[t1] # key[t2]

\* A ticking thread that pays has claimed the occurrence, and is the only one.
Claimed ==
    /\ \A t \in Ticking : Paying(t) => runs[key[t]] # "none"
    /\ \A t1, t2 \in Ticking : t1 # t2 /\ Paying(t1) /\ Paying(t2) => key[t1] # key[t2]

Unpaid ==
    /\ \A k \in Keys, u \in Users :
           (k <= Last /\ runs[k] = "none") \/ k > Last + requests => balance[k][u] = 0
    /\ \A t \in Operators, u \in Users : Early(t) => balance[key[t]][u] = 0
    /\ \A t \in Threads, u \in Users :
           pc[t] = "resolve" \/ (pc[t] = "paying" /\ u \in todo[t]) => balance[key[t]][u] = 0

Safe == KeysBounded /\ KeysApart /\ Claimed /\ Unpaid /\ AtMostOnce

\* Only ticks go through the occurrences of the policy.
LoopersTick == \A t \in Operators : pc[t] # "loop"

IInv == TypeOK /\ LoopersTick /\ Safe

-----------------------------------------------------------------------------
(* Type correctness.                                                       *)

USE CreditAssumption

\* The next occurrence is one of the schedule, or none.
LEMMA NextAfterType ==
    ASSUME NEW k \in Int, k >= 0
    PROVE  NextAfter(k) \in 0..Last /\ NextAfter(k) \in Int
  BY DEF NextAfter, NoTime

\* Advancing a policy gives a policy.
LEMMA AdvancedType ==
    ASSUME TypeOK, NEW p \in Policy, NEW k \in Int, k >= 0, NEW t
    PROVE  Advanced(p, k, t) \in Policy
  <1>1. clock \in Int /\ clock >= 0
    BY DEF TypeOK
  <1>2. NextAfter(clock) \in 0..Last /\ NextAfter(k) \in 0..Last
    BY <1>1, NextAfterType
  <1>3. NextAfter(IF p.kind = "interval" \/ t \in Operators THEN clock ELSE k) \in 0..Last
    BY <1>2
  <1>4. NoTime \in 0..Last
    BY DEF NoTime
  <1>5. \A n \in 0..Last : [p EXCEPT !.next = n] \in Policy
    BY DEF Policy
  <1>6. [p EXCEPT !.enabled = FALSE, !.next = NoTime] \in Policy
    BY <1>4 DEF Policy
  <1>7. QED
    BY <1>3, <1>5, <1>6 DEF Advanced

\* A policy that is due names an occurrence.
LEMMA DueType ==
    ASSUME NEW p \in Policy \cup {NoPolicy}, NEW time \in 0..Last, Due(p, time)
    PROVE  p \in Policy /\ p # NoPolicy /\ p.next \in 1..Last /\ p.next \in Keys
  BY DEF Due, Policy, NoPolicy, NoTime, Keys

LEMMA StopType ==
    ASSUME TypeOK, NEW t \in Threads, Stop(t)
    PROVE  /\ pc' \in [Threads -> {"idle", "done", "loop", "scan", "claim", "resolve",
                                   "paying", "advance"}]
           /\ mem' \in [Threads -> Policy \cup {NoPolicy}]
           /\ key' \in [Threads -> Keys \cup {0}]
           /\ upto' \in [Threads -> 0..Last]
           /\ todo' \in [Threads -> SUBSET Users]
           /\ \A s \in Threads : pc'[s] \in {"scan", "advance"} => mem'[s] # NoPolicy
  BY DEF TypeOK, Stop, Rest

LEMMA InitType == Init => TypeOK
  <1> SUFFICES ASSUME Init PROVE TypeOK
    OBVIOUS
  <1>1. requests \in 0..MaxRequests /\ clock \in 0..Last /\ 1 \in 0..Last
    <2>1. requests = 0 /\ clock = 0
      BY DEF Init
    <2>2. QED
      BY <2>1
  <1>2. policy \in Policy
    <2>1. policy \in [kind : Kinds, enabled : {TRUE}, next : {1}]
      BY Zenon DEF Init
    <2>2. {TRUE} \subseteq BOOLEAN /\ {1} \subseteq 0..Last
      BY <1>1
    <2>3. QED
      BY <2>1, <2>2 DEF Policy
  <1>3. runs \in [Keys -> Status] /\ balance \in [Keys -> [Users -> Nat]]
    BY DEF Init, Status
  <1>4. \A t \in Threads : pc[t] = "idle" /\ mem[t] = NoPolicy
    BY DEF Init
  <1>5. /\ pc \in [Threads -> {"idle"}] /\ mem \in [Threads -> {NoPolicy}]
        /\ key \in [Threads -> {0}] /\ upto \in [Threads -> {0}]
        /\ todo \in [Threads -> SUBSET Users] /\ wanted \in Wishes /\ broken \in SUBSET (Keys \cup {0})
    BY DEF Init, Wishes
  <1>6. 0 \in 0..Last
    OBVIOUS
  <1>7. QED
    BY <1>1, <1>2, <1>3, <1>4, <1>5, <1>6 DEF TypeOK

LEMMA StepType ==
    ASSUME TypeOK, NEW t \in Threads, Step(t) PROVE TypeOK'
  <1> USE DEF TypeOK
  <1>1. CASE StartTick(t)
    <2>1. CASE Due(policy, clock)
      <3>1. policy.next \in Keys /\ policy # NoPolicy
        BY <2>1, DueType
      <3>2. mem' = [mem EXCEPT ![t] = policy] /\ key' = [key EXCEPT ![t] = policy.next]
        BY <1>1, <2>1 DEF StartTick
      <3>3. /\ mem' \in [Threads -> Policy \cup {NoPolicy}] /\ mem'[t] # NoPolicy
            /\ key' \in [Threads -> Keys \cup {0}]
        BY <3>1, <3>2
      <3>4. pc' \in [Threads -> {"idle", "done", "loop", "scan", "claim", "resolve",
                                 "paying", "advance"}]
        BY <1>1, <2>1 DEF StartTick
      <3>5. \A s \in Threads : pc'[s] \in {"scan", "advance"} => mem'[s] # NoPolicy
        BY <1>1, <2>1, <3>2, <3>3 DEF StartTick
      <3>6. QED
        BY <1>1, <2>1, <3>3, <3>4, <3>5 DEF StartTick
    <2>2. CASE ~Due(policy, clock)
      BY <1>1, <2>2, StopType DEF StartTick
    <2>3. QED
      BY <2>1, <2>2
  <1>2. CASE Look(t)
    <2>1. CASE ~Due(mem[t], upto[t])
      BY <1>2, <2>1, StopType DEF Look
    <2>2. CASE Due(mem[t], upto[t])
      <3>1. mem[t].next \in 1..Last /\ mem[t].next \in Keys /\ mem[t] \in Policy
        BY <2>2, DueType
      <3>2. Advanced(mem[t], mem[t].next, t) \in Policy
        BY <3>1, AdvancedType
      <3>3. CASE runs[mem[t].next] = "none"
        BY <1>2, <2>2, <3>1, <3>3 DEF Look
      <3>4. CASE runs[mem[t].next] # "none"
        <4>1. policy' = Advanced(mem[t], mem[t].next, t)
          BY <1>2, <2>2, <3>4 DEF Look
        <4>2. mem' = [mem EXCEPT ![t] = policy']
          BY <1>2, <2>2, <3>4 DEF Look
        <4>3. policy' \in Policy /\ mem' \in [Threads -> Policy \cup {NoPolicy}]
          BY <3>2, <4>1, <4>2
        <4>4. UNCHANGED <<pc, key, upto, todo, clock, runs, balance, requests, wanted, broken>>
          BY <1>2, <2>2, <3>4 DEF Look
        <4>5. pc[t] = "loop"
          BY <1>2 DEF Look
        <4>6. \A s \in Threads : pc[s] \in {"scan", "advance"} => mem'[s] # NoPolicy
          BY <4>2, <4>5
        <4>7. policy' \in Policy \cup {NoPolicy} /\ mem' \in [Threads -> Policy \cup {NoPolicy}]
          BY <4>3
        <4>8. /\ clock' \in 0..Last /\ runs' \in [Keys -> Status]
              /\ balance' \in [Keys -> [Users -> Nat]]
              /\ requests' \in 0..MaxRequests /\ wanted' \in Wishes /\ broken' \in SUBSET (Keys \cup {0})
              /\ key' \in [Threads -> Keys \cup {0}] /\ upto' \in [Threads -> 0..Last]
              /\ todo' \in [Threads -> SUBSET Users]
          BY <4>4
        <4>9. /\ pc' \in [Threads -> {"idle", "done", "loop", "scan", "claim", "resolve",
                                      "paying", "advance"}]
              /\ \A s \in Threads : pc'[s] \in {"scan", "advance"} => mem'[s] # NoPolicy
          BY <4>4, <4>6
        <4>10. QED
          BY <4>7, <4>8, <4>9, Zenon
      <3>5. QED
        BY <3>3, <3>4
    <2>3. QED
      BY <2>1, <2>2
  <1>3. CASE Scan(t)
    <2>1. pc[t] = "scan" /\ UNCHANGED <<clock, policy, runs, balance, requests, wanted, broken>>
      BY <1>3 DEF Scan
    <2>2. CASE Stop(t)
      BY <2>1, <2>2, StopType
    <2>3. ASSUME NEW targets \in SUBSET Users,
                 todo' = [todo EXCEPT ![t] = targets],
                 pc' = [pc EXCEPT ![t] = IF targets = {} THEN "advance" ELSE "claim"],
                 UNCHANGED <<mem, key, upto>>
          PROVE  TypeOK'
      BY <2>1, <2>3
    <2>4. QED
      BY <1>3, <2>2, <2>3 DEF Scan
  <1>4. CASE Claim(t)
    BY <1>4, StopType DEF Claim, Execute, ReturnExisting, locals, Status
  <1>5. CASE Resolve(t)
    BY <1>5 DEF Resolve
  <1>6. CASE Abort(t)
    BY <1>6, StopType DEF Abort
  <1>7. CASE ResolveFails(t)
    BY <1>7, StopType DEF ResolveFails
  <1>8. ASSUME NEW u \in Users, Credit(t, u) PROVE TypeOK'
    <2>1. balance' = [balance EXCEPT ![key[t]][u] = balance[key[t]][u] + 1]
      BY <1>8 DEF Credit
    <2>2. balance' \in [Keys -> [Users -> Nat]]
      <3>1. CASE key[t] \in Keys
        <4>1. balance[key[t]] \in [Users -> Nat]
          BY <3>1
        <4>2. QED
          BY <2>1, <3>1, <4>1
      <3>2. CASE key[t] \notin Keys
        BY <2>1, <3>2
      <3>3. QED
        BY <3>1, <3>2
    <2>3. QED
      BY <1>8, <2>2 DEF Credit
  <1>9. ASSUME NEW u \in Users, CreditRefused(t, u) PROVE TypeOK'
    BY <1>9 DEF CreditRefused
  <1>10. CASE Finish(t)
    BY <1>10, StopType DEF Finish, locals, Status
  <1>11. CASE Advance(t)
    <2>1. key[t] \in Int /\ key[t] >= 0 /\ mem[t] \in Policy
      BY <1>11 DEF Keys, Advance
    <2>2. Advanced(mem[t], key[t], t) \in Policy
      BY <2>1, AdvancedType
    <2>3. policy' \in Policy /\ policy' # NoPolicy
      BY <1>11, <2>2 DEF Advance, Policy, NoPolicy
    <2>4. CASE t \in Ticking /\ mem[t].kind # "interval"
      <3>1. /\ pc' = [pc EXCEPT ![t] = "loop"] /\ mem' = [mem EXCEPT ![t] = policy']
            /\ UNCHANGED <<key, upto, todo, clock, runs, balance, requests, wanted, broken>>
        BY <1>11, <2>4 DEF Advance
      <3>2. QED
        BY <2>3, <3>1
    <2>5. CASE ~(t \in Ticking /\ mem[t].kind # "interval")
      <3>1. Stop(t) /\ UNCHANGED <<clock, runs, balance, requests, wanted, broken>>
        BY <1>11, <2>5 DEF Advance
      <3>2. QED
        BY <2>3, <3>1, StopType
    <2>6. QED
      BY <2>4, <2>5
  <1>12. QED
    BY <1>1, <1>2, <1>3, <1>4, <1>5, <1>6, <1>7, <1>8, <1>9, <1>10, <1>11 DEF Step

\* Every step keeps the types.
LEMMA NextType == TypeOK /\ [Next]_vars => TypeOK'
  <1> SUFFICES ASSUME TypeOK, [Next]_vars PROVE TypeOK'
    OBVIOUS
  <1> USE DEF TypeOK, locals
  <1>1. ASSUME NEW t \in Threads, Step(t) PROVE TypeOK'
    BY <1>1, StepType
  <1>2. ASSUME NEW t \in Threads, RunNow(t) PROVE TypeOK'
    BY <1>2 DEF RunNow, Keys, Wishes
  <1>3. ASSUME NEW t \in Threads, Adjust(t) PROVE TypeOK'
    BY <1>3 DEF Adjust, Keys
  <1>4. CASE Toggle
    <2>1. policy \in Policy /\ wanted' \in Wishes
      BY <1>4 DEF Toggle, Wishes
    <2>2. (IF wanted' = "on" THEN NextAfter(clock) ELSE NoTime) \in 0..Last
      BY NextAfterType DEF NoTime
    <2>3. policy' \in Policy
      BY <1>4, <2>1, <2>2 DEF Toggle, Policy
    <2>4. QED
      BY <1>4, <2>1, <2>3 DEF Toggle
  <1>5. CASE DeletePolicy
    BY <1>5 DEF DeletePolicy, Wishes
  <1>6. CASE TimePasses
    BY <1>6 DEF TimePasses, Occurrences
  <1>7. CASE Crash
    BY <1>7 DEF Crash
  <1>8. CASE UNCHANGED vars
    BY <1>8 DEF vars
  <1>9. QED
    BY <1>1, <1>2, <1>3, <1>4, <1>5, <1>6, <1>7, <1>8 DEF Next

\* Every variable keeps its type, in every behaviour.
THEOREM TypeCorrect == Spec => []TypeOK
  BY InitType, NextType, PTL DEF Spec

-----------------------------------------------------------------------------
(* At most one credit.                                                     *)

\* Threads are either of the ticking ones or an operator's.
LEMMA ThreadKinds ==
    /\ Ticking \subseteq Threads /\ Operators \subseteq Threads
    /\ Ticking \cap Operators = {}
  BY DEF Ticking, Threads

LEMMA InitSafe == Init => LoopersTick /\ Safe
  BY DEF Init, Safe, LoopersTick, KeysBounded, KeysApart, Claimed, Unpaid, AtMostOnce, Early, Paying,
         Threads, Ticking, Keys

\* No step makes an operator's thread loop.
LEMMA LoopersTickNext == TypeOK /\ LoopersTick /\ [Next]_vars => LoopersTick'
  <1> SUFFICES ASSUME TypeOK, LoopersTick, [Next]_vars, NEW o \in Operators
               PROVE  pc'[o] # "loop"
    BY DEF LoopersTick
  <1>1. /\ o \in Threads /\ o \notin Ticking /\ pc[o] # "loop"
        /\ pc \in [Threads -> {"idle", "done", "loop", "scan", "claim", "resolve", "paying",
                               "advance"}]
    BY ThreadKinds DEF LoopersTick, TypeOK
  <1>2. ASSUME NEW t \in Threads, Step(t) PROVE pc'[o] # "loop"
    BY <1>1, <1>2 DEF Step, StartTick, Look, Scan, Claim, Execute, ReturnExisting, Resolve,
         Abort, ResolveFails, Credit, CreditRefused, Finish, Advance, Stop, Rest
  <1>3. ASSUME NEW t \in Threads, RunNow(t) \/ Adjust(t) PROVE pc'[o] # "loop"
    BY <1>1, <1>3 DEF RunNow, Adjust
  <1>4. CASE Crash
    BY <1>1, <1>4 DEF Crash
  <1>5. CASE UNCHANGED pc
    BY <1>1, <1>5
  <1>6. Toggle \/ DeletePolicy \/ TimePasses \/ UNCHANGED vars => UNCHANGED pc
    BY DEF Toggle, DeletePolicy, TimePasses, vars
  <1>7. QED
    BY <1>2, <1>3, <1>4, <1>5, <1>6 DEF Next

\* A thread that stops keeps the invariant.
LEMMA StopSafe ==
    ASSUME IInv, NEW t \in Threads, Stop(t), UNCHANGED <<runs, balance, requests>>
    PROVE  Safe'
  <1> USE DEF IInv, Safe, TypeOK
  <1>1. /\ pc'[t] \in {"idle", "done"} /\ key'[t] = 0 /\ todo'[t] = {}
        /\ \A s \in Threads \ {t} : pc'[s] = pc[s] /\ key'[s] = key[s] /\ todo'[s] = todo[s]
    BY DEF Stop, Rest
  <1>2. KeysBounded'
    <2>1. Last \in Int /\ Last > 0 /\ requests \in Int /\ requests >= 0 /\ requests' = requests
      OBVIOUS
    <2>2. ASSUME NEW s \in Threads
          PROVE  /\ key'[s] <= Last + requests
                 /\ (Early(s) \/ Paying(s))' => key'[s] # 0
                 /\ s \in Ticking => key'[s] <= Last
                 /\ s \in Operators /\ key'[s] # 0 => key'[s] > Last
      BY <1>1, <2>1 DEF KeysBounded, Early, Paying
    <2>3. QED
      BY <2>1, <2>2, ThreadKinds DEF KeysBounded
  <1>3. KeysApart'
    BY <1>1, ThreadKinds DEF KeysApart
  <1>4. Claimed'
    BY <1>1, ThreadKinds DEF Claimed, Paying
  <1>5. Unpaid'
    <2>1. ASSUME NEW k \in Keys, NEW u \in Users,
                 ((k <= Last /\ runs[k] = "none") \/ k > Last + requests)'
          PROVE  balance'[k][u] = 0
      BY <2>1 DEF Unpaid
    <2>2. ASSUME NEW s \in Operators, NEW u \in Users, Early(s)'
          PROVE  balance'[key'[s]][u] = 0
      BY <1>1, <2>2, ThreadKinds DEF Unpaid, Early
    <2>3. ASSUME NEW s \in Threads, NEW u \in Users,
                 (pc[s] = "resolve" \/ (pc[s] = "paying" /\ u \in todo[s]))'
          PROVE  balance'[key'[s]][u] = 0
      BY <1>1, <2>3 DEF Unpaid
    <2>4. QED
      BY <2>1, <2>2, <2>3 DEF Unpaid
  <1>6. QED
    BY <1>2, <1>3, <1>4, <1>5 DEF AtMostOnce

\* So does one that goes on towards a claim with a key of its own kind.
LEMMA EarlySafe ==
    ASSUME IInv, NEW t \in Ticking, NEW k \in 1..Last \cup {0},
           UNCHANGED <<runs, balance, requests>>,
           key'[t] = k,
           pc'[t] \in {"idle", "done", "loop", "advance", "scan", "claim"},
           pc'[t] \in {"scan", "claim"} => k # 0,
           \A s \in Threads \ {t} : pc'[s] = pc[s] /\ key'[s] = key[s] /\ todo'[s] = todo[s]
    PROVE  Safe'
  <1> USE DEF IInv, Safe, TypeOK
  <1>1. t \in Threads /\ t \notin Operators
    BY ThreadKinds
  <1>2. KeysBounded'
    <2>1. Last \in Int /\ Last > 0 /\ requests \in Int /\ requests >= 0 /\ requests' = requests
      OBVIOUS
    <2>2. ASSUME NEW s \in Threads
          PROVE  /\ key'[s] <= Last + requests
                 /\ (Early(s) \/ Paying(s))' => key'[s] # 0
                 /\ s \in Ticking => key'[s] <= Last
                 /\ s \in Operators /\ key'[s] # 0 => key'[s] > Last
      BY <1>1, <2>1 DEF KeysBounded, Early, Paying
    <2>3. QED
      BY <2>1, <2>2, ThreadKinds DEF KeysBounded
  <1>3. KeysApart'
    BY <1>1, ThreadKinds DEF KeysApart
  <1>4. Claimed'
    BY <1>1, ThreadKinds DEF Claimed, Paying
  <1>5. Unpaid'
    <2>1. ASSUME NEW j \in Keys, NEW u \in Users,
                 ((j <= Last /\ runs[j] = "none") \/ j > Last + requests)'
          PROVE  balance'[j][u] = 0
      BY <2>1 DEF Unpaid
    <2>2. ASSUME NEW s \in Operators, NEW u \in Users, Early(s)'
          PROVE  balance'[key'[s]][u] = 0
      BY <1>1, <2>2, ThreadKinds DEF Unpaid, Early
    <2>3. ASSUME NEW s \in Threads, NEW u \in Users,
                 (pc[s] = "resolve" \/ (pc[s] = "paying" /\ u \in todo[s]))'
          PROVE  balance'[key'[s]][u] = 0
      BY <1>1, <2>3 DEF Unpaid
    <2>4. QED
      BY <2>1, <2>2, <2>3 DEF Unpaid
  <1>6. QED
    BY <1>2, <1>3, <1>4, <1>5 DEF AtMostOnce

\* So does one that keeps its key and neither pays nor starts to claim.
LEMMA KeepKeySafe ==
    ASSUME IInv, NEW t \in Threads,
           UNCHANGED <<runs, balance, requests, key>>,
           pc'[t] \in {"idle", "done", "loop", "advance", "scan", "claim"},
           pc'[t] \in {"scan", "claim"} => Early(t),
           \A s \in Threads \ {t} : pc'[s] = pc[s] /\ todo'[s] = todo[s]
    PROVE  Safe'
  <1> USE DEF IInv, Safe
  <1>1. KeysBounded'
    BY ThreadKinds DEF KeysBounded, Early, Paying
  <1>2. KeysApart'
    BY DEF KeysApart
  <1>3. Claimed'
    BY ThreadKinds DEF Claimed, Paying
  <1>4. Unpaid'
    BY ThreadKinds DEF Unpaid, Early
  <1>5. QED
    BY <1>1, <1>2, <1>3, <1>4 DEF AtMostOnce

\* A claim that succeeds makes the occurrence its own: no ticking thread pays for it,
\* since it had no run, and nothing was paid.
LEMMA ClaimSafe ==
    ASSUME IInv, NEW t \in Threads, Claim(t)
    PROVE  Safe'
  <1> USE DEF IInv, Safe
  <1>1. CASE runs[key[t]] # "none"
    <2>1. CASE t \in Ticking /\ mem[t].kind # "interval"
      <3>1. /\ pc' = [pc EXCEPT ![t] = "loop"]
            /\ UNCHANGED <<runs, balance, requests, key, todo>>
        BY <1>1, <2>1 DEF Claim, ReturnExisting, locals
      <3>2. pc \in [Threads -> {"idle", "done", "loop", "scan", "claim", "resolve",
                               "paying", "advance"}]
        BY DEF TypeOK
      <3>3. QED
        BY <3>1, <3>2, KeepKeySafe
    <2>2. CASE ~(t \in Ticking /\ mem[t].kind # "interval")
      BY <1>1, <2>2, StopSafe DEF Claim, ReturnExisting
    <2>3. QED
      BY <2>1, <2>2
  <1>2. CASE runs[key[t]] = "none"
    <2>1. /\ pc[t] = "claim" /\ runs' = [runs EXCEPT ![key[t]] = "planned"]
          /\ pc' = [pc EXCEPT ![t] = IF mem[t].kind = "interval" THEN "paying" ELSE "resolve"]
          /\ UNCHANGED <<key, todo, balance, requests>>
      BY <1>2 DEF Claim, Execute, locals
    <2>2. /\ key[t] \in Keys /\ runs'[key[t]] = "planned"
          /\ \A k \in Keys \ {key[t]} : runs'[k] = runs[k]
      BY <2>1 DEF TypeOK, KeysBounded, Early
    <2>3. /\ pc'[t] \in {"paying", "resolve"}
          /\ \A s \in Threads \ {t} : pc'[s] = pc[s]
      BY <2>1 DEF TypeOK
    <2>4. \A u \in Users : balance[key[t]][u] = 0
      <3>1. CASE t \in Ticking
        BY <1>2, <2>2, <3>1 DEF Unpaid, KeysBounded
      <3>2. CASE t \in Operators
        BY <2>1, <3>2 DEF Unpaid, Early
      <3>3. QED
        BY <3>1, <3>2 DEF Threads
    <2>5. KeysBounded'
      BY <2>1, <2>3, ThreadKinds DEF KeysBounded, Early, Paying
    <2>6. KeysApart'
      BY <2>1 DEF KeysApart
    <2>7. Claimed'
      <3>1. ASSUME NEW s \in Ticking, Paying(s)' PROVE runs'[key'[s]] # "none"
        <4>1. key[s] \in Keys
          BY <2>1, <2>3, <3>1, ThreadKinds DEF KeysBounded, Early, Paying, TypeOK
        <4>2. QED
          BY <2>1, <2>2, <2>3, <3>1, <4>1, ThreadKinds DEF Claimed, Paying
      <3>2. ASSUME NEW s1 \in Ticking, NEW s2 \in Ticking, s1 # s2, Paying(s1)', Paying(s2)'
            PROVE  key'[s1] # key'[s2]
        BY <1>2, <2>1, <2>3, <3>2, ThreadKinds DEF Claimed, Paying
      <3>3. QED
        BY <3>1, <3>2 DEF Claimed
    <2>8. Unpaid'
      <3>1. ASSUME NEW k \in Keys, NEW u \in Users,
                   ((k <= Last /\ runs[k] = "none") \/ k > Last + requests)'
            PROVE  balance'[k][u] = 0
        BY <2>1, <2>2, <2>4, <3>1 DEF Unpaid
      <3>2. ASSUME NEW s \in Operators, NEW u \in Users, Early(s)'
            PROVE  balance'[key'[s]][u] = 0
        BY <2>1, <2>3, <2>4, <3>2, ThreadKinds DEF Unpaid, Early
      <3>3. ASSUME NEW s \in Threads, NEW u \in Users,
                   (pc[s] = "resolve" \/ (pc[s] = "paying" /\ u \in todo[s]))'
            PROVE  balance'[key'[s]][u] = 0
        BY <2>1, <2>3, <2>4, <3>3 DEF Unpaid
      <3>4. QED
        BY <3>1, <3>2, <3>3 DEF Unpaid
    <2>9. QED
      BY <2>1, <2>5, <2>6, <2>7, <2>8 DEF AtMostOnce
  <1>3. QED
    BY <1>1, <1>2

\* A credit goes to a user who had none, and to an occurrence no other thread pays for.
LEMMA CreditSafe ==
    ASSUME IInv, NEW t \in Threads, NEW u \in Users, Credit(t, u)
    PROVE  Safe'
  <1> USE DEF IInv, Safe
  <1>1. /\ pc[t] = "paying" /\ u \in todo[t]
        /\ balance' = [balance EXCEPT ![key[t]][u] = balance[key[t]][u] + 1]
        /\ todo' = [todo EXCEPT ![t] = todo[t] \ {u}]
        /\ UNCHANGED <<pc, key, runs, requests>>
    BY DEF Credit
  <1>2. key[t] \in Keys
    BY <1>1 DEF TypeOK, KeysBounded, Paying
  <1>3. /\ balance'[key[t]][u] = 1
        /\ \A k \in Keys, v \in Users : k # key[t] \/ v # u => balance'[k][v] = balance[k][v]
    <2>1. balance[key[t]][u] = 0
      BY <1>1 DEF Unpaid
    <2>2. balance \in [Keys -> [Users -> Nat]]
      BY DEF TypeOK
    <2>3. balance[key[t]] \in [Users -> Nat]
      BY <1>2, <2>2
    <2>4. QED
      BY <1>1, <1>2, <2>1, <2>2, <2>3
  <1>4. /\ u \notin todo'[t] /\ todo'[t] \subseteq todo[t]
        /\ \A s \in Threads \ {t} : todo'[s] = todo[s]
    BY <1>1 DEF TypeOK
  \* Nobody else has the key and is going to pay.
  <1>5. ASSUME NEW s \in Threads, s # t, Paying(s) \/ (s \in Operators /\ Early(s))
        PROVE  key[s] # key[t] /\ key[s] \in Keys
    <2>1. key[s] \in Keys
      BY <1>5 DEF TypeOK, KeysBounded
    <2>2. CASE s \in Operators /\ t \in Operators
      BY <1>2, <1>5, <2>1, <2>2 DEF KeysApart, Keys
    <2>3. CASE s \in Ticking /\ t \in Ticking
      BY <1>1, <1>5, <2>1, <2>3, ThreadKinds DEF Claimed, Paying
    <2>4. CASE s \in Operators /\ t \in Ticking
      BY <1>2, <2>1, <2>4 DEF KeysBounded, Keys
    <2>5. CASE s \in Ticking /\ t \in Operators
      BY <1>2, <2>1, <2>5 DEF KeysBounded, Keys
    <2>6. QED
      BY <2>1, <2>2, <2>3, <2>4, <2>5 DEF Threads
  <1>6. KeysBounded' /\ KeysApart'
    BY <1>1 DEF KeysBounded, KeysApart, Early, Paying
  <1>7. Claimed'
    BY <1>1 DEF Claimed, Paying
  <1>8. Unpaid'
    <2>1. ASSUME NEW k \in Keys, NEW v \in Users,
                 ((k <= Last /\ runs[k] = "none") \/ k > Last + requests)'
          PROVE  balance'[k][v] = 0
      <3>1. k # key[t]
        <4>1. /\ Last \in Int /\ requests \in Int /\ requests >= 0
              /\ key[t] \in Int /\ key[t] # 0 /\ key[t] <= Last + requests
          BY <1>2 DEF TypeOK, Keys, KeysBounded
        <4>2. (k <= Last /\ runs[k] = "none") \/ k > Last + requests
          BY <1>1, <2>1
        <4>3. CASE t \in Ticking
          <5>1. runs[key[t]] # "none" /\ key[t] <= Last
            BY <1>1, <4>3 DEF Claimed, Paying, KeysBounded
          <5>2. QED
            BY <4>1, <4>2, <5>1
        <4>4. CASE t \in Operators
          <5>1. key[t] > Last
            BY <4>1, <4>4 DEF KeysBounded
          <5>2. QED
            BY <4>1, <4>2, <5>1
        <4>5. QED
          BY <4>3, <4>4 DEF Threads
      <3>2. QED
        BY <1>1, <1>3, <2>1, <3>1 DEF Unpaid
    <2>2. ASSUME NEW s \in Operators, NEW v \in Users, Early(s)'
          PROVE  balance'[key'[s]][v] = 0
      <3>1. Early(s) /\ s # t /\ s \in Threads
        BY <1>1, <2>2, ThreadKinds DEF Early
      <3>2. key[s] # key[t] /\ key[s] \in Keys
        BY <1>5, <3>1
      <3>3. QED
        BY <1>1, <1>3, <3>1, <3>2 DEF Unpaid
    <2>3. ASSUME NEW s \in Threads, NEW v \in Users,
                 (pc[s] = "resolve" \/ (pc[s] = "paying" /\ v \in todo[s]))'
          PROVE  balance'[key'[s]][v] = 0
      <3>1. CASE s = t
        BY <1>1, <1>2, <1>3, <1>4, <2>3, <3>1 DEF Unpaid
      <3>2. CASE s # t
        <4>1. key[s] # key[t] /\ key[s] \in Keys
          BY <1>1, <1>5, <2>3, <3>2 DEF Paying
        <4>2. QED
          BY <1>1, <1>3, <1>4, <2>3, <3>2, <4>1 DEF Unpaid
      <3>3. QED
        BY <3>1, <3>2
    <2>4. QED
      BY <2>1, <2>2, <2>3 DEF Unpaid
  <1>9. AtMostOnce'
    <2>1. ASSUME NEW k \in Keys, NEW v \in Users PROVE balance'[k][v] <= 1
      BY <1>3 DEF AtMostOnce
    <2>2. QED
      BY <2>1 DEF AtMostOnce
  <1>10. QED
    BY <1>6, <1>7, <1>8, <1>9

\* Refusals, and the resolution of the users, leave balances and runs alone.
LEMMA ResolveSafe ==
    ASSUME IInv, NEW t \in Threads,
           Resolve(t) \/ \E u \in Users : CreditRefused(t, u)
    PROVE  Safe'
  <1> USE DEF IInv, Safe
  <1> DEFINE GoesOn == /\ Paying(t) /\ pc'[t] = "paying"
                       /\ pc[t] = "resolve" \/ todo'[t] \subseteq todo[t]
                       /\ \A s \in Threads \ {t} : pc'[s] = pc[s] /\ todo'[s] = todo[s]
                       /\ UNCHANGED <<runs, balance, requests, key>>
  <1>1. GoesOn
    <2>1. CASE Resolve(t)
      BY <2>1 DEF Resolve, TypeOK, Paying
    <2>2. ASSUME NEW u \in Users, CreditRefused(t, u)
          PROVE  GoesOn
      BY <2>2 DEF CreditRefused, TypeOK, Paying
    <2>3. QED
      BY <2>1, <2>2
  <1>2. KeysBounded' /\ KeysApart'
    BY <1>1, ThreadKinds DEF KeysBounded, KeysApart, Early, Paying
  <1>3. Claimed'
    BY <1>1, ThreadKinds DEF Claimed, Paying
  <1>4. Unpaid'
    BY <1>1, ThreadKinds DEF Unpaid, Early, Paying
  <1>5. QED
    BY <1>1, <1>2, <1>3, <1>4 DEF AtMostOnce

\* Storing the run of an occurrence takes nothing away.
LEMMA FinishSafe ==
    ASSUME IInv, NEW t \in Threads, Finish(t)
    PROVE  Safe'
  <1> USE DEF IInv, Safe
  <1>1. /\ pc[t] = "paying" /\ runs' = [runs EXCEPT ![key[t]] = "finished"]
        /\ UNCHANGED <<balance, requests>>
    BY DEF Finish
  <1>2. \A k \in Keys : runs'[k] = "none" => runs[k] = "none"
    BY <1>1 DEF TypeOK
  <1>3. /\ pc'[t] \in {"idle", "done", "advance"} /\ key'[t] \in {0, key[t]}
        /\ \A s \in Threads \ {t} : pc'[s] = pc[s] /\ key'[s] = key[s] /\ todo'[s] = todo[s]
    BY DEF Finish, Stop, Rest, locals, TypeOK
  <1>4. KeysBounded'
    <2>1. Last \in Int /\ Last > 0 /\ requests \in Int /\ requests >= 0 /\ requests' = requests
      BY <1>1 DEF TypeOK
    <2>2. ASSUME NEW s \in Threads
          PROVE  /\ key'[s] <= Last + requests
                 /\ (Early(s) \/ Paying(s))' => key'[s] # 0
                 /\ s \in Ticking => key'[s] <= Last
                 /\ s \in Operators /\ key'[s] # 0 => key'[s] > Last
      BY <1>3, <2>1 DEF KeysBounded, Early, Paying
    <2>3. QED
      BY <2>1, <2>2, ThreadKinds DEF KeysBounded
  <1>5. KeysApart'
    BY <1>3, ThreadKinds DEF KeysApart
  <1>6. Claimed'
    <2>1. ASSUME NEW s \in Ticking, Paying(s)' PROVE runs'[key'[s]] # "none"
      <3>1. Paying(s) /\ s # t /\ s \in Threads
        BY <1>3, <2>1, ThreadKinds DEF Paying
      <3>2. key[s] \in Keys /\ key'[s] = key[s]
        BY <1>3, <3>1 DEF KeysBounded, TypeOK
      <3>3. QED
        BY <1>2, <2>1, <3>1, <3>2 DEF Claimed
    <2>2. ASSUME NEW s1 \in Ticking, NEW s2 \in Ticking, s1 # s2, Paying(s1)', Paying(s2)'
          PROVE  key'[s1] # key'[s2]
      BY <1>3, <2>2, ThreadKinds DEF Claimed, Paying
    <2>3. QED
      BY <2>1, <2>2 DEF Claimed
  <1>7. Unpaid'
    <2>1. ASSUME NEW k \in Keys, NEW u \in Users,
                 ((k <= Last /\ runs[k] = "none") \/ k > Last + requests)'
          PROVE  balance'[k][u] = 0
      BY <1>1, <1>2, <2>1 DEF Unpaid
    <2>2. ASSUME NEW s \in Operators, NEW u \in Users, Early(s)'
          PROVE  balance'[key'[s]][u] = 0
      BY <1>1, <1>3, <2>2, ThreadKinds DEF Unpaid, Early
    <2>3. ASSUME NEW s \in Threads, NEW u \in Users,
                 (pc[s] = "resolve" \/ (pc[s] = "paying" /\ u \in todo[s]))'
          PROVE  balance'[key'[s]][u] = 0
      BY <1>1, <1>3, <2>3 DEF Unpaid
    <2>4. QED
      BY <2>1, <2>2, <2>3 DEF Unpaid
  <1>8. QED
    BY <1>1, <1>4, <1>5, <1>6, <1>7 DEF AtMostOnce

\* A request gets a key that nobody had, and that nothing was paid for.
LEMMA RequestSafe ==
    ASSUME IInv, NEW t \in Threads, RunNow(t) \/ Adjust(t)
    PROVE  Safe'
  <1> USE DEF IInv, Safe
  <1>1. /\ t \in Operators /\ requests < MaxRequests /\ requests' = requests + 1
        /\ key' = [key EXCEPT ![t] = Last + requests + 1]
        /\ UNCHANGED <<runs, balance>>
        /\ \/ pc'[t] \in {"scan", "claim"}
           \/ pc'[t] = "paying" /\ todo'[t] \in SUBSET Users
        /\ \A s \in Threads \ {t} : pc'[s] = pc[s] /\ todo'[s] = todo[s]
    <2>1. CASE RunNow(t)
      BY <2>1 DEF RunNow, TypeOK
    <2>2. CASE Adjust(t)
      BY <2>2 DEF Adjust, TypeOK
    <2>3. QED
      BY <2>1, <2>2
  <1>2. /\ Last \in Int /\ Last > 0 /\ requests \in Int /\ requests >= 0
        /\ \A s \in Threads : key[s] \in Int
        /\ Last + requests + 1 \in Keys /\ MaxRequests \in Int
    BY <1>1 DEF TypeOK, Keys
  <1>3. /\ key'[t] = Last + requests + 1
        /\ \A s \in Threads \ {t} : key'[s] = key[s] /\ key[s] # key'[t]
    BY <1>1, <1>2 DEF TypeOK, KeysBounded
  <1>4. \A u \in Users : balance[key'[t]][u] = 0
    BY <1>2, <1>3 DEF Unpaid
  <1>5. t \notin Ticking
    BY <1>1, ThreadKinds
  <1>6. KeysBounded'
    <2>1. ASSUME NEW s \in Threads
          PROVE  /\ key'[s] <= Last + requests'
                 /\ (Early(s) \/ Paying(s))' => key'[s] # 0
                 /\ s \in Ticking => key'[s] <= Last
                 /\ s \in Operators /\ key'[s] # 0 => key'[s] > Last
      BY <1>1, <1>2, <1>3, <1>5 DEF KeysBounded, Early, Paying
    <2>2. QED
      BY <2>1, ThreadKinds DEF KeysBounded
  <1>7. KeysApart'
    BY <1>3, ThreadKinds DEF KeysApart
  <1>8. Claimed'
    BY <1>1, <1>3, <1>5, ThreadKinds DEF Claimed, Paying
  <1>9. Unpaid'
    <2>1. ASSUME NEW k \in Keys, NEW u \in Users,
                 ((k <= Last /\ runs[k] = "none") \/ k > Last + requests)'
          PROVE  balance'[k][u] = 0
      BY <1>1, <1>2, <2>1 DEF Unpaid, Keys
    <2>2. ASSUME NEW s \in Operators, NEW u \in Users, Early(s)'
          PROVE  balance'[key'[s]][u] = 0
      BY <1>1, <1>3, <1>4, <2>2, ThreadKinds DEF Unpaid, Early
    <2>3. ASSUME NEW s \in Threads, NEW u \in Users,
                 (pc[s] = "resolve" \/ (pc[s] = "paying" /\ u \in todo[s]))'
          PROVE  balance'[key'[s]][u] = 0
      BY <1>1, <1>3, <1>4, <2>3 DEF Unpaid
    <2>4. QED
      BY <2>1, <2>2, <2>3 DEF Unpaid
  <1>10. QED
    BY <1>1, <1>6, <1>7, <1>8, <1>9 DEF AtMostOnce

\* The steps that find out what there is to do, or give up.
LEMMA LookingSafe ==
    ASSUME IInv, NEW t \in Threads,
           StartTick(t) \/ Look(t) \/ Scan(t) \/ Abort(t) \/ ResolveFails(t) \/ Advance(t)
    PROVE  Safe'
  <1>1. /\ TypeOK
        /\ pc \in [Threads -> {"idle", "done", "loop", "scan", "claim", "resolve", "paying",
                               "advance"}]
        /\ key \in [Threads -> Keys \cup {0}] /\ todo \in [Threads -> SUBSET Users]
    BY DEF IInv, TypeOK
  <1>2. CASE StartTick(t)
    <2>1. CASE Due(policy, clock)
      <3>1. policy.next \in 1..Last
        BY <1>1, <2>1, DueType DEF TypeOK
      <3>2. QED
        BY <1>1, <1>2, <2>1, <3>1, EarlySafe DEF StartTick
    <2>2. CASE ~Due(policy, clock)
      BY <1>2, <2>2, StopSafe DEF StartTick
    <2>3. QED
      BY <2>1, <2>2
  <1>3. CASE Look(t)
    <2>1. CASE ~Due(mem[t], upto[t])
      BY <1>3, <2>1, StopSafe DEF Look
    <2>2. CASE Due(mem[t], upto[t]) /\ runs[mem[t].next] # "none"
      BY <1>1, <1>3, <2>2, KeepKeySafe DEF Look
    <2>3. CASE Due(mem[t], upto[t]) /\ runs[mem[t].next] = "none"
      <3>1. mem[t].next \in 1..Last
        BY <1>1, <2>3, DueType DEF TypeOK
      <3>2. t \in Ticking
        BY <1>3 DEF Look, IInv, LoopersTick, Threads
      <3>3. QED
        BY <1>1, <1>3, <2>3, <3>1, <3>2, EarlySafe DEF Look
    <2>4. QED
      BY <2>1, <2>2, <2>3
  <1>4. CASE Scan(t)
    <2>1. CASE runs[key[t]] = "none"
      BY <1>1, <1>4, <2>1, KeepKeySafe DEF Scan, Early
    <2>2. CASE runs[key[t]] # "none"
      BY <1>4, <2>2, StopSafe DEF Scan
    <2>3. QED
      BY <2>1, <2>2
  <1>5. CASE Abort(t)
    BY <1>5, StopSafe DEF Abort
  <1>6. CASE ResolveFails(t)
    BY <1>6, StopSafe DEF ResolveFails
  <1>7. CASE Advance(t)
    <2>1. CASE t \in Ticking /\ mem[t].kind # "interval"
      BY <1>1, <1>7, <2>1, KeepKeySafe DEF Advance
    <2>2. CASE ~(t \in Ticking /\ mem[t].kind # "interval")
      BY <1>7, <2>2, StopSafe DEF Advance
    <2>3. QED
      BY <2>1, <2>2
  <1>8. QED
    BY <1>2, <1>3, <1>4, <1>5, <1>6, <1>7

\* Steps of nobody in particular.
LEMMA OthersSafe ==
    ASSUME IInv, Toggle \/ DeletePolicy \/ TimePasses \/ Crash \/ UNCHANGED vars
    PROVE  Safe'
  <1> USE DEF IInv, Safe
  <1>1. CASE Crash
    BY <1>1 DEF Crash, TypeOK, KeysBounded, KeysApart, Claimed, Unpaid, AtMostOnce, Early,
                Paying, Threads
  <1>2. CASE UNCHANGED <<runs, balance, requests, pc, key, todo>>
    BY <1>2 DEF KeysBounded, KeysApart, Claimed, Unpaid, AtMostOnce, Early, Paying
  <1>3. \/ Crash
        \/ UNCHANGED <<runs, balance, requests, pc, key, todo>>
    <2>1. Toggle => UNCHANGED <<runs, balance, requests, pc, key, todo>>
      BY DEF Toggle, locals
    <2>2. DeletePolicy => UNCHANGED <<runs, balance, requests, pc, key, todo>>
      BY DEF DeletePolicy, locals
    <2>3. TimePasses => UNCHANGED <<runs, balance, requests, pc, key, todo>>
      BY DEF TimePasses, locals
    <2>4. UNCHANGED vars => UNCHANGED <<runs, balance, requests, pc, key, todo>>
      BY DEF vars
    <2>5. QED
      BY <2>1, <2>2, <2>3, <2>4
  <1>4. QED
    BY <1>1, <1>2, <1>3

\* The inductive step.
LEMMA NextSafe == IInv /\ [Next]_vars => IInv'
  <1> SUFFICES ASSUME IInv, [Next]_vars PROVE IInv'
    OBVIOUS
  <1>1. TypeOK' /\ LoopersTick'
    BY NextType, LoopersTickNext DEF IInv
  <1>2. ASSUME NEW t \in Threads, Step(t) PROVE Safe'
    BY <1>2, LookingSafe, ClaimSafe, ResolveSafe, CreditSafe, FinishSafe DEF Step
  <1>3. ASSUME NEW t \in Threads, RunNow(t) \/ Adjust(t) PROVE Safe'
    BY <1>3, RequestSafe
  <1>4. ASSUME Toggle \/ DeletePolicy \/ TimePasses \/ Crash \/ UNCHANGED vars PROVE Safe'
    BY <1>4, OthersSafe
  <1>5. QED
    BY <1>1, <1>2, <1>3, <1>4 DEF Next, IInv

\* No occurrence credits a user twice: not when both ticking threads meet the same due
\* policy, not when operators run it meanwhile, not after any number of crashes.
THEOREM RechargedAtMostOnce == Spec => []AtMostOnce
  <1>1. Init => IInv
    BY InitType, InitSafe DEF IInv
  <1>2. IInv => AtMostOnce
    BY DEF IInv, Safe
  <1>3. QED
    BY <1>1, <1>2, NextSafe, PTL DEF Spec

\* A run of the schedule's occurrences is stored before the first credit.
THEOREM CreditsAreStored == Spec => []CreditsAreRecorded
  <1>1. Init => IInv
    BY InitType, InitSafe DEF IInv
  <1>2. IInv => CreditsAreRecorded
    <2> SUFFICES ASSUME IInv, NEW k \in Occurrences, NEW u \in Users, balance[k][u] > 0,
                        runs[k] = "none"
                 PROVE  FALSE
      BY DEF CreditsAreRecorded
    <2>1. k \in Keys /\ k <= Last
      BY DEF Occurrences, Keys
    <2>2. balance[k][u] = 0
      BY <2>1 DEF IInv, Safe, Unpaid
    <2>3. QED
      BY <2>2
  <1>3. QED
    BY <1>1, <1>2, NextSafe, PTL DEF Spec

-----------------------------------------------------------------------------
(* No occurrence is skipped, while operators do not move the policy: what  *)
(* a tick has read of a recurring policy, as what is stored of it, is next *)
(* due at an occurrence before which all have a run; and a tick advances   *)
(* it only from an occurrence that has one.                                *)

Behind(n) == \A k \in Occurrences : n = NoTime \/ k < n => runs[k] # "none"

\* A policy keeps its kind.
OneKind ==
    wanted = "untouched" => \A t \in Threads : mem[t] # NoPolicy => mem[t].kind = policy.kind

Abreast(t) ==
    /\ pc[t] # "scan"
    /\ mem[t] # NoPolicy => Behind(mem[t].next)
    /\ pc[t] \in {"claim", "resolve", "paying", "advance"} =>
          key[t] = mem[t].next /\ key[t] \in Occurrences
    /\ pc[t] \in {"resolve", "paying", "advance"} => runs[key[t]] # "none"

CaughtUp ==
    wanted = "untouched" /\ policy.kind = "recurring" =>
        Behind(policy.next) /\ \A t \in Ticking : Abreast(t)

\* Operators adjust balances, no more.
OnlyTicksRun == \A t \in Operators : mem[t] = NoPolicy /\ pc[t] \in {"idle", "paying"}

Abiding == OneKind /\ CaughtUp /\ OnlyTicksRun

LEMMA AbidingInit == Init => Abiding
  <1> SUFFICES ASSUME Init PROVE Abiding
    OBVIOUS
  <1>1. policy.next = 1
    BY DEF Init
  <1>2. Behind(policy.next)
    BY <1>1 DEF Behind, NoTime, Occurrences
  <1>3. QED
    BY <1>2, ThreadKinds DEF Init, Abiding, OneKind, CaughtUp, Abreast, OnlyTicksRun

\* Advancing a recurring policy from an occurrence that has a run skips none.
LEMMA AdvanceSkipsNone ==
    ASSUME TypeOK, NEW p \in Policy, NEW k \in Occurrences, NEW t \in Ticking
    PROVE  /\ Advanced(p, k, t).kind = p.kind
           /\ p.kind = "recurring" /\ Behind(k) /\ runs[k] # "none"
              => Behind(Advanced(p, k, t).next)
  <1>1. Advanced(p, k, t).kind = p.kind
    BY DEF Advanced, Policy
  <1>2. ASSUME p.kind = "recurring", Behind(k), runs[k] # "none"
        PROVE  Behind(Advanced(p, k, t).next)
    <2>1. Advanced(p, k, t).next = NextAfter(k)
      BY <1>2, ThreadKinds DEF Advanced, Policy
    <2>2. k \in Int /\ k > 0 /\ k <= Last /\ Last \in Int
      BY DEF Occurrences
    <2>3. ASSUME NEW j \in Occurrences, NextAfter(k) = NoTime \/ j < NextAfter(k)
          PROVE  j <= k
      BY <2>2, <2>3 DEF NextAfter, NoTime, Occurrences
    <2>4. ASSUME NEW j \in Occurrences, j <= k PROVE runs[j] # "none"
      BY <1>2, <2>2, <2>4 DEF Behind, Occurrences
    <2>5. QED
      BY <2>1, <2>3, <2>4 DEF Behind
  <1>3. QED
    BY <1>1, <1>2

LEMMA OccurrencesAreKeys == \A k \in Occurrences : k \in Keys /\ k # 0 /\ k <= Last
  BY DEF Occurrences, Keys

\* Runs do not disappear.
LEMMA BehindStays ==
    ASSUME \A k \in Keys : runs[k] # "none" => runs'[k] # "none", NEW n, Behind(n)
    PROVE  \A k \in Occurrences : n = NoTime \/ k < n => runs'[k] # "none"
  BY OccurrencesAreKeys DEF Behind

\* What a thread's step has to keep.
LEMMA ThreadAbides ==
    ASSUME IInv, Abiding, NEW t \in Threads, wanted' = wanted,
           wanted = "untouched" => policy'.kind = policy.kind,
           wanted = "untouched" /\ policy.kind = "recurring" => Behind(policy.next)',
           \A k \in Keys : runs[k] # "none" => runs'[k] # "none",
           \A s \in Threads \ {t} : pc'[s] = pc[s] /\ mem'[s] = mem[s] /\ key'[s] = key[s],
           wanted = "untouched" /\ mem'[t] # NoPolicy => mem'[t].kind = policy.kind,
           wanted = "untouched" /\ policy.kind = "recurring" /\ t \in Ticking => Abreast(t)',
           t \in Operators => mem'[t] = NoPolicy /\ pc'[t] \in {"idle", "paying"}
    PROVE  Abiding'
  <1>1. OneKind'
    BY DEF Abiding, OneKind, NoPolicy
  <1>2. OnlyTicksRun'
    BY ThreadKinds DEF Abiding, OnlyTicksRun, NoPolicy
  <1>3. CaughtUp'
    <2> SUFFICES ASSUME wanted = "untouched", policy.kind = "recurring", NEW s \in Ticking, s # t
                 PROVE  Abreast(s)'
      BY DEF CaughtUp
    <2>1. s \in Threads /\ Abreast(s) /\ pc'[s] = pc[s] /\ mem'[s] = mem[s] /\ key'[s] = key[s]
      BY ThreadKinds DEF Abiding, CaughtUp
    <2>2. mem[s] # NoPolicy =>
             \A k \in Occurrences : mem[s].next = NoTime \/ k < mem[s].next => runs'[k] # "none"
      BY <2>1, BehindStays DEF Abreast
    <2>3. mem'[s] # NoPolicy => Behind(mem[s].next)'
      BY <2>1, <2>2 DEF Behind, NoTime, Occurrences
    <2>4. key[s] \in Occurrences => key[s] \in Keys
      BY OccurrencesAreKeys
    <2>5. QED
      BY <2>1, <2>3, <2>4 DEF Abreast, NoPolicy, Occurrences
  <1>4. QED
    BY <1>1, <1>2, <1>3 DEF Abiding

\* A thread that gives up.
LEMMA StopAbides ==
    ASSUME IInv, Abiding, NEW t \in Threads, Stop(t), UNCHANGED <<policy, runs, wanted>>
    PROVE  Abiding'
  <1>1. /\ mem'[t] = NoPolicy /\ pc'[t] = Rest(t)
        /\ \A s \in Threads \ {t} : pc'[s] = pc[s] /\ mem'[s] = mem[s] /\ key'[s] = key[s]
    BY DEF Stop, IInv, TypeOK
  <1>2. Abreast(t)'
    BY <1>1 DEF Abreast, Rest, NoPolicy
  <1>3. t \in Operators => pc'[t] = "idle"
    BY <1>1 DEF Rest, CreditAssumption
  <1>4. wanted = "untouched" /\ policy.kind = "recurring" => Behind(policy.next)'
    BY DEF Abiding, CaughtUp, Behind, Occurrences, NoTime
  <1>5. QED
    BY <1>1, <1>2, <1>3, <1>4, ThreadAbides

\* A tick that goes on without touching the policy or the runs.
LEMMA GoesOnAbides ==
    ASSUME IInv, Abiding, NEW t \in Ticking, UNCHANGED <<policy, runs, wanted>>,
           \A s \in Threads \ {t} : pc'[s] = pc[s] /\ mem'[s] = mem[s] /\ key'[s] = key[s],
           wanted = "untouched" /\ mem'[t] # NoPolicy => mem'[t].kind = policy.kind,
           wanted = "untouched" /\ policy.kind = "recurring" => Abreast(t)'
    PROVE  Abiding'
  <1>1. wanted = "untouched" /\ policy.kind = "recurring" => Behind(policy.next)'
    BY DEF Abiding, CaughtUp, Behind, Occurrences, NoTime
  <1>2. QED
    BY <1>1, ThreadKinds, ThreadAbides

LEMMA LookingAbides ==
    ASSUME IInv, Abiding, NEW t \in Ticking, StartTick(t) \/ Look(t) \/ Scan(t)
    PROVE  Abiding'
  <1>1. t \in Threads /\ TypeOK
    BY ThreadKinds DEF IInv
  <1>2. CASE Stop(t) /\ UNCHANGED <<policy, runs, wanted>>
    BY <1>1, <1>2, StopAbides
  <1>3. CASE StartTick(t) /\ Due(policy, clock)
    <2>1. /\ pc'[t] = IF policy.kind = "interval" THEN "scan" ELSE "loop"
          /\ mem'[t] = policy
          /\ UNCHANGED <<policy, runs, wanted>>
          /\ \A s \in Threads \ {t} : pc'[s] = pc[s] /\ mem'[s] = mem[s] /\ key'[s] = key[s]
      BY <1>1, <1>3 DEF StartTick, TypeOK
    <2>2. ASSUME wanted = "untouched", policy.kind = "recurring" PROVE Abreast(t)'
      <3>1. Behind(policy.next)
        BY <2>2 DEF Abiding, CaughtUp
      <3>2. pc'[t] = "loop"
        BY <2>1, <2>2
      <3>3. Behind(mem[t].next)'
        BY <2>1, <3>1 DEF Behind, Occurrences, NoTime
      <3>4. QED
        BY <3>2, <3>3 DEF Abreast
    <2>3. QED
      BY <2>1, <2>2, GoesOnAbides
  <1>4. CASE Look(t) /\ Due(mem[t], upto[t]) /\ runs[mem[t].next] = "none"
    <2>1. mem[t].next \in Occurrences /\ mem[t] # NoPolicy
      BY <1>1, <1>4, DueType DEF TypeOK, Occurrences
    <2>2. /\ pc'[t] = "claim" /\ key'[t] = mem[t].next /\ mem' = mem
          /\ UNCHANGED <<policy, runs, wanted>>
          /\ \A s \in Threads \ {t} : pc'[s] = pc[s] /\ key'[s] = key[s]
      BY <1>1, <1>4 DEF Look, TypeOK
    <2>3. ASSUME wanted = "untouched", policy.kind = "recurring" PROVE Abreast(t)'
      <3>1. Behind(mem[t].next)
        BY <2>1, <2>3 DEF Abiding, CaughtUp, Abreast
      <3>2. Behind(mem[t].next)'
        BY <2>2, <3>1 DEF Behind, Occurrences, NoTime
      <3>3. QED
        BY <2>1, <2>2, <3>2 DEF Abreast, Occurrences
    <2>4. wanted = "untouched" /\ mem'[t] # NoPolicy => mem'[t].kind = policy.kind
      BY <1>1, <2>2 DEF Abiding, OneKind
    <2>5. QED
      BY <2>2, <2>3, <2>4, GoesOnAbides
  <1>5. CASE Look(t) /\ Due(mem[t], upto[t]) /\ runs[mem[t].next] # "none"
    <2>1. mem[t].next \in Occurrences /\ mem[t] # NoPolicy /\ mem[t] \in Policy
      BY <1>1, <1>5, DueType DEF TypeOK, Occurrences
    <2>2. /\ policy' = Advanced(mem[t], mem[t].next, t) /\ mem'[t] = policy' /\ pc[t] = "loop"
          /\ UNCHANGED <<pc, key, runs, wanted>>
          /\ \A s \in Threads \ {t} : mem'[s] = mem[s]
      BY <1>1, <1>5 DEF Look, TypeOK
    <2>3. policy'.kind = mem[t].kind
      BY <1>1, <2>1, <2>2, AdvanceSkipsNone
    <2>4. wanted = "untouched" => mem[t].kind = policy.kind
      BY <1>1, <2>1 DEF Abiding, OneKind
    <2>5. ASSUME wanted = "untouched", policy.kind = "recurring" PROVE Behind(policy.next)' /\ Abreast(t)'
      <3>1. Behind(mem[t].next)
        BY <2>1, <2>5 DEF Abiding, CaughtUp, Abreast
      <3>2. Behind(Advanced(mem[t], mem[t].next, t).next)
        BY <1>1, <1>5, <2>1, <2>4, <2>5, <3>1, AdvanceSkipsNone
      <3>3. Behind(policy.next)'
        BY <2>2, <3>2 DEF Behind, Occurrences, NoTime
      <3>4. Behind(mem[t].next)'
        BY <2>2, <3>3 DEF Behind, Occurrences, NoTime
      <3>5. QED
        BY <2>2, <3>3, <3>4 DEF Abreast
    <2>6. QED
      BY <1>1, <2>2, <2>3, <2>4, <2>5, ThreadKinds, ThreadAbides
  <1>6. CASE Scan(t) /\ runs[key[t]] = "none"
    <2>1. pc[t] = "scan" /\ mem' = mem /\ key' = key /\ UNCHANGED <<policy, runs, wanted>>
      BY <1>6 DEF Scan
    <2>2. \A s \in Threads \ {t} : pc'[s] = pc[s]
      BY <1>1, <1>6 DEF Scan, TypeOK
    <2>3. ~(wanted = "untouched" /\ policy.kind = "recurring")
      BY <2>1 DEF Abiding, CaughtUp, Abreast
    <2>4. wanted = "untouched" /\ mem'[t] # NoPolicy => mem'[t].kind = policy.kind
      BY <1>1, <2>1 DEF Abiding, OneKind
    <2>5. QED
      BY <2>1, <2>2, <2>3, <2>4, GoesOnAbides
  <1>7. QED
    BY <1>2, <1>3, <1>4, <1>5, <1>6 DEF StartTick, Look, Scan

LEMMA ClaimAbides ==
    ASSUME IInv, Abiding, NEW t \in Ticking, Claim(t)
    PROVE  Abiding'
  <1>1. t \in Threads /\ TypeOK
    BY ThreadKinds DEF IInv
  <1>2. CASE Stop(t) /\ UNCHANGED <<policy, runs, wanted>>
    BY <1>1, <1>2, StopAbides
  <1>3. CASE runs[key[t]] = "none"
    <2>1. /\ pc[t] = "claim" /\ runs' = [runs EXCEPT ![key[t]] = "planned"]
          /\ pc'[t] \in {"paying", "resolve"}
          /\ UNCHANGED <<mem, key, policy, wanted>>
          /\ \A s \in Threads \ {t} : pc'[s] = pc[s]
      BY <1>1, <1>3 DEF Claim, Execute, locals, TypeOK
    <2>2. /\ \A k \in Keys : runs[k] # "none" => runs'[k] # "none"
          /\ key[t] \in Keys => runs'[key[t]] # "none"
      BY <1>1, <2>1 DEF TypeOK
    <2>3. ASSUME wanted = "untouched", policy.kind = "recurring" PROVE Behind(policy.next)' /\ Abreast(t)'
      <3>1. /\ Behind(policy.next)
            /\ mem[t] # NoPolicy => Behind(mem[t].next)
            /\ key[t] = mem[t].next /\ key[t] \in Occurrences /\ key[t] \in Keys
        BY <2>1, <2>3, OccurrencesAreKeys DEF Abiding, CaughtUp, Abreast
      <3>2. Behind(policy.next)'
        BY <2>1, <2>2, <3>1, BehindStays DEF Behind, Occurrences, NoTime
      <3>3. mem[t] # NoPolicy => Behind(mem[t].next)'
        BY <2>1, <2>2, <3>1, BehindStays DEF Behind, Occurrences, NoTime
      <3>4. QED
        BY <2>1, <2>2, <3>1, <3>2, <3>3 DEF Abreast, Occurrences, NoPolicy
    <2>4. wanted = "untouched" /\ mem'[t] # NoPolicy => mem'[t].kind = policy.kind
      BY <1>1, <2>1 DEF Abiding, OneKind
    <2>5. QED
      BY <1>1, <2>1, <2>2, <2>3, <2>4, ThreadKinds, ThreadAbides
  <1>4. CASE runs[key[t]] # "none" /\ ~Stop(t)
    <2>1. /\ pc' = [pc EXCEPT ![t] = "loop"]
          /\ UNCHANGED <<mem, key, policy, runs, wanted>>
      BY <1>4 DEF Claim, ReturnExisting, locals
    <2>2. pc'[t] = "loop" /\ \A s \in Threads \ {t} : pc'[s] = pc[s]
      BY <1>1, <2>1 DEF TypeOK
    <2>3. ASSUME wanted = "untouched", policy.kind = "recurring" PROVE Abreast(t)'
      BY <2>1, <2>2, <2>3 DEF Abiding, CaughtUp, Abreast, Behind, Occurrences, NoTime, NoPolicy
    <2>4. wanted = "untouched" /\ mem'[t] # NoPolicy => mem'[t].kind = policy.kind
      BY <1>1, <2>1 DEF Abiding, OneKind
    <2>5. QED
      BY <2>1, <2>2, <2>3, <2>4, GoesOnAbides
  <1>5. QED
    BY <1>2, <1>3, <1>4 DEF Claim

\* The users are found and credited, one by one.
LEMMA PayingAbides ==
    ASSUME IInv, Abiding, NEW t \in Threads,
           Resolve(t) \/ \E u \in Users : Credit(t, u) \/ CreditRefused(t, u)
    PROVE  Abiding'
  <1>1. /\ pc[t] \in {"resolve", "paying"} /\ pc'[t] = "paying"
        /\ \A s \in Threads \ {t} : pc'[s] = pc[s]
        /\ UNCHANGED <<mem, key, policy, runs, wanted>>
    <2>1. pc \in [Threads -> {"idle", "done", "loop", "scan", "claim", "resolve", "paying",
                              "advance"}]
      BY DEF IInv, TypeOK
    <2>2. CASE Resolve(t)
      BY <2>1, <2>2 DEF Resolve
    <2>3. ASSUME NEW u \in Users, Credit(t, u) \/ CreditRefused(t, u)
          PROVE  pc[t] = "paying" /\ UNCHANGED <<pc, mem, key, policy, runs, wanted>>
      BY <2>3 DEF Credit, CreditRefused
    <2>4. QED
      BY <2>2, <2>3
  <1>2. wanted = "untouched" /\ mem'[t] # NoPolicy => mem'[t].kind = policy.kind
    BY <1>1 DEF Abiding, OneKind
  <1>3. ASSUME wanted = "untouched", policy.kind = "recurring" PROVE Behind(policy.next)'
    BY <1>1, <1>3 DEF Abiding, CaughtUp, Behind, Occurrences, NoTime
  <1>4. ASSUME wanted = "untouched", policy.kind = "recurring", t \in Ticking PROVE Abreast(t)'
    BY <1>1, <1>4 DEF Abiding, CaughtUp, Abreast, Behind, Occurrences, NoTime, NoPolicy
  <1>5. t \in Operators => mem'[t] = NoPolicy
    BY <1>1 DEF Abiding, OnlyTicksRun
  <1>6. QED
    BY <1>1, <1>2, <1>3, <1>4, <1>5, ThreadAbides

LEMMA FinishAbides ==
    ASSUME IInv, Abiding, NEW t \in Threads, Finish(t)
    PROVE  Abiding'
  <1>1. /\ pc[t] = "paying" /\ runs' = [runs EXCEPT ![key[t]] = "finished"]
        /\ UNCHANGED <<policy, wanted>>
    BY DEF Finish
  <1>2. /\ \A k \in Keys : runs[k] # "none" => runs'[k] # "none"
        /\ key[t] \in Keys => runs'[key[t]] # "none"
    BY <1>1 DEF IInv, TypeOK
  <1>3. ASSUME wanted = "untouched", policy.kind = "recurring" PROVE Behind(policy.next)'
    BY <1>1, <1>2, <1>3, BehindStays DEF Abiding, CaughtUp, Behind, Occurrences, NoTime
  <1>4. CASE mem[t] = NoPolicy
    <2>1. /\ mem'[t] = NoPolicy /\ pc'[t] = Rest(t)
          /\ \A s \in Threads \ {t} : pc'[s] = pc[s] /\ mem'[s] = mem[s] /\ key'[s] = key[s]
      BY <1>4 DEF Finish, Stop, IInv, TypeOK
    <2>2. Abreast(t)'
      BY <2>1 DEF Abreast, Rest, NoPolicy
    <2>3. t \in Operators => pc'[t] = "idle"
      BY <2>1 DEF Rest
    <2>4. QED
      BY <1>1, <1>2, <1>3, <2>1, <2>2, <2>3, ThreadAbides
  <1>5. CASE mem[t] # NoPolicy
    <2>1. /\ pc'[t] = "advance" /\ \A s \in Threads \ {t} : pc'[s] = pc[s]
          /\ UNCHANGED <<mem, key>>
      BY <1>5 DEF Finish, locals, IInv, TypeOK
    <2>2. t \notin Operators
      BY <1>5 DEF Abiding, OnlyTicksRun
    <2>3. wanted = "untouched" /\ mem'[t] # NoPolicy => mem'[t].kind = policy.kind
      BY <2>1 DEF Abiding, OneKind
    <2>4. ASSUME wanted = "untouched", policy.kind = "recurring", t \in Ticking PROVE Abreast(t)'
      <3>1. /\ Behind(mem[t].next) /\ key[t] = mem[t].next
            /\ key[t] \in Occurrences /\ key[t] \in Keys
        BY <1>1, <1>5, <2>4, OccurrencesAreKeys DEF Abiding, CaughtUp, Abreast
      <3>2. Behind(mem[t].next)'
        BY <1>2, <2>1, <3>1, BehindStays DEF Behind, Occurrences, NoTime
      <3>3. QED
        BY <1>2, <2>1, <3>1, <3>2 DEF Abreast, Occurrences
    <2>5. QED
      BY <1>1, <1>2, <1>3, <2>1, <2>2, <2>3, <2>4, ThreadAbides
  <1>6. QED
    BY <1>4, <1>5

LEMMA AdvanceAbides ==
    ASSUME IInv, Abiding, NEW t \in Ticking, Advance(t)
    PROVE  Abiding'
  <1>1. t \in Threads /\ TypeOK /\ pc[t] = "advance"
    BY ThreadKinds DEF IInv, Advance
  <1>2. /\ mem[t] # NoPolicy /\ mem[t] \in Policy
        /\ policy' = Advanced(mem[t], key[t], t) /\ UNCHANGED <<runs, wanted>>
    BY <1>1 DEF Advance, TypeOK
  <1>3. wanted = "untouched" => mem[t].kind = policy.kind
    BY <1>1, <1>2 DEF Abiding, OneKind
  <1>4. policy'.kind = mem[t].kind
    BY <1>2 DEF Advanced, Policy
  <1>5. ASSUME wanted = "untouched", policy.kind = "recurring" PROVE Behind(policy.next)'
    <2>1. Behind(key[t]) /\ key[t] \in Occurrences /\ runs[key[t]] # "none"
      BY <1>1, <1>2, <1>5 DEF Abiding, CaughtUp, Abreast
    <2>2. Behind(Advanced(mem[t], key[t], t).next)
      BY <1>1, <1>2, <1>3, <1>5, <2>1, AdvanceSkipsNone
    <2>3. QED
      BY <1>2, <2>2 DEF Behind, Occurrences, NoTime
  <1>6. CASE mem[t].kind # "interval"
    <2>1. /\ pc'[t] = "loop" /\ mem'[t] = policy' /\ key' = key
          /\ \A s \in Threads \ {t} : pc'[s] = pc[s] /\ mem'[s] = mem[s]
      BY <1>1, <1>6 DEF Advance, TypeOK
    <2>2. ASSUME wanted = "untouched", policy.kind = "recurring" PROVE Abreast(t)'
      <3>1. Behind(mem[t].next)'
        BY <1>5, <2>1, <2>2 DEF Behind, Occurrences, NoTime
      <3>2. QED
        BY <2>1, <3>1 DEF Abreast
    <2>3. QED
      BY <1>1, <1>2, <1>3, <1>4, <1>5, <2>1, <2>2, ThreadKinds, ThreadAbides
  <1>7. CASE mem[t].kind = "interval"
    <2>1. /\ mem'[t] = NoPolicy /\ pc'[t] = Rest(t)
          /\ \A s \in Threads \ {t} : pc'[s] = pc[s] /\ mem'[s] = mem[s] /\ key'[s] = key[s]
      BY <1>1, <1>7 DEF Advance, Stop, TypeOK
    <2>2. Abreast(t)'
      BY <2>1 DEF Abreast, Rest, NoPolicy
    <2>3. QED
      BY <1>1, <1>2, <1>3, <1>4, <1>5, <2>1, <2>2, ThreadKinds, ThreadAbides
  <1>8. QED
    BY <1>6, <1>7

\* What operators have touched stays touched.
LEMMA WishesWane == [Next]_vars /\ wanted' = "untouched" => wanted = "untouched"
  <1> SUFFICES ASSUME [Next]_vars, wanted # "untouched" PROVE wanted' # "untouched"
    OBVIOUS
  <1>1. ASSUME NEW t \in Threads, Step(t) PROVE UNCHANGED wanted
    BY <1>1 DEF Step, StartTick, Look, Scan, Claim, Resolve, Abort, ResolveFails, Credit,
       CreditRefused, Finish, Advance
  <1>2. ASSUME NEW t \in Threads, RunNow(t) \/ Adjust(t) PROVE wanted' # "untouched"
    BY <1>2 DEF RunNow, Adjust
  <1>3. ASSUME Toggle \/ DeletePolicy \/ TimePasses \/ Crash \/ UNCHANGED vars
        PROVE  wanted' # "untouched"
    BY <1>3 DEF Toggle, DeletePolicy, TimePasses, Crash, vars
  <1>4. QED
    BY <1>1, <1>2, <1>3 DEF Next

LEMMA AbidingNext ==
    ASSUME IInv, wanted = "untouched", Abiding, [Next]_vars, wanted' = "untouched"
    PROVE  Abiding'
  <1>1. ASSUME NEW t \in Ticking, Step(t) PROVE Abiding'
    <2>1. t \in Threads
      BY ThreadKinds
    <2>2. CASE Abort(t) \/ ResolveFails(t)
      BY <2>1, <2>2, StopAbides DEF Abort, ResolveFails
    <2>3. QED
      BY <1>1, <2>1, <2>2, LookingAbides, ClaimAbides, PayingAbides, FinishAbides, AdvanceAbides
         DEF Step
  <1>2. ASSUME NEW t \in Operators, Step(t) PROVE Abiding'
    <2>1. t \in Threads /\ t \notin Ticking /\ pc[t] \in {"idle", "paying"}
      BY <1>2, ThreadKinds DEF Abiding, OnlyTicksRun
    <2>2. ~StartTick(t) /\ ~Look(t) /\ ~Scan(t) /\ ~Claim(t) /\ ~Abort(t) /\ ~Advance(t)
      BY <2>1 DEF StartTick, Look, Scan, Claim, Abort, Advance
    <2>3. ~ResolveFails(t)
      BY <2>1 DEF ResolveFails
    <2>4. QED
      BY <1>2, <2>1, <2>2, <2>3, PayingAbides, FinishAbides DEF Step
  <1>3. ASSUME NEW t \in Threads, RunNow(t) \/ Adjust(t) PROVE Abiding'
    <2>1. /\ t \in Operators /\ pc' = [pc EXCEPT ![t] = "paying"]
          /\ \A s \in Threads \ {t} : key'[s] = key[s]
          /\ UNCHANGED <<policy, runs, mem, wanted>>
      BY <1>3 DEF RunNow, Adjust, IInv, TypeOK
    <2>2. t \in Threads /\ t \notin Ticking /\ mem[t] = NoPolicy
      BY <2>1, ThreadKinds DEF Abiding, OnlyTicksRun
    <2>3. pc'[t] = "paying" /\ \A s \in Threads \ {t} : pc'[s] = pc[s]
      BY <2>1, <2>2 DEF IInv, TypeOK
    <2>4. wanted = "untouched" /\ policy.kind = "recurring" => Behind(policy.next)'
      BY <2>1 DEF Abiding, CaughtUp, Behind, Occurrences, NoTime
    <2>5. QED
      BY <2>1, <2>2, <2>3, <2>4, ThreadAbides
  <1>4. CASE Toggle
    BY <1>4 DEF Toggle
  <1>5. CASE DeletePolicy
    BY <1>5 DEF DeletePolicy
  <1>6. CASE Crash
    <2>1. /\ \A t \in Threads : pc'[t] = "idle" /\ mem'[t] = NoPolicy
          /\ UNCHANGED <<policy, runs, wanted>>
      BY <1>6 DEF Crash
    <2>2. OneKind' /\ OnlyTicksRun'
      BY <2>1, ThreadKinds DEF OneKind, OnlyTicksRun, NoPolicy
    <2>3. CaughtUp'
      BY <2>1, ThreadKinds DEF Abiding, CaughtUp, Abreast, Behind, Occurrences, NoTime, NoPolicy
    <2>4. QED
      BY <2>2, <2>3 DEF Abiding
  <1>7. CASE TimePasses \/ UNCHANGED vars
    <2>1. UNCHANGED <<policy, runs, pc, mem, key, wanted>>
      BY <1>7 DEF TimePasses, locals, vars
    <2>2. QED
      BY <2>1 DEF Abiding, OneKind, CaughtUp, OnlyTicksRun, Abreast, Behind, Occurrences, NoTime,
         NoPolicy
  <1>8. QED
    BY <1>1, <1>2, <1>3, <1>4, <1>5, <1>6, <1>7 DEF Next, Threads

-----------------------------------------------------------------------------
(* A run that is only planned is being executed, or was broken off.        *)

Accounted == \A k \in Keys : runs[k] = "planned" => k \in broken \/ InHand(k)

LEMMA AccountedInit == Init => Accounted
  BY DEF Init, Accounted

\* A step that plans no run, breaks none off and takes no thread away from one.
LEMMA AccountedStays ==
    ASSUME Accounted, broken \subseteq broken',
           \A k \in Keys : runs'[k] = "planned" => runs[k] = "planned",
           \A t \in Threads : Paying(t) =>
               \/ key[t] \in broken' \/ runs'[key[t]] # "planned"
               \/ key'[t] = key[t] /\ Paying(t)'
    PROVE  Accounted'
  BY DEF Accounted, InHand, Paying

LEMMA StepAccounts ==
    ASSUME IInv, Accounted, NEW t \in Threads, Step(t) PROVE Accounted'
  <1>1. TypeOK
    BY DEF IInv
  <1>2. ASSUME ~Paying(t), UNCHANGED <<runs, broken>>,
               \A s \in Threads \ {t} : pc'[s] = pc[s] /\ key'[s] = key[s]
        PROVE  Accounted'
    BY <1>2, AccountedStays DEF Paying
  <1>3. Stop(t) => \A s \in Threads \ {t} : pc'[s] = pc[s] /\ key'[s] = key[s]
    BY <1>1 DEF Stop, TypeOK
  <1>4. CASE StartTick(t)
    BY <1>1, <1>2, <1>3, <1>4 DEF StartTick, Paying, TypeOK
  <1>5. CASE Look(t)
    BY <1>1, <1>2, <1>3, <1>5 DEF Look, Paying, TypeOK
  <1>6. CASE Scan(t)
    BY <1>1, <1>2, <1>3, <1>6 DEF Scan, Paying, TypeOK
  <1>7. CASE Abort(t)
    BY <1>1, <1>2, <1>3, <1>7 DEF Abort, Paying, TypeOK
  <1>8. CASE Advance(t)
    BY <1>1, <1>2, <1>3, <1>8 DEF Advance, Paying, TypeOK
  <1>9. CASE Claim(t)
    <2>1. CASE runs[key[t]] = "none"
      <3>1. /\ runs' = [runs EXCEPT ![key[t]] = "planned"] /\ UNCHANGED <<key, broken>>
            /\ Paying(t)' /\ \A s \in Threads \ {t} : pc'[s] = pc[s]
        BY <1>1, <1>9, <2>1 DEF Claim, Execute, locals, Paying, TypeOK
      <3>2. ASSUME NEW k \in Keys, runs'[k] = "planned" PROVE k \in broken' \/ InHand(k)'
        <4>1. CASE k = key[t]
          BY <3>1, <4>1 DEF InHand, Paying
        <4>2. CASE k # key[t]
          <5>1. k \in broken \/ InHand(k)
            BY <1>1, <3>1, <3>2, <4>2 DEF Accounted, TypeOK
          <5>2. QED
            BY <3>1, <4>2, <5>1 DEF InHand
        <4>3. QED
          BY <4>1, <4>2
      <3>3. QED
        BY <3>2 DEF Accounted
    <2>2. CASE runs[key[t]] # "none"
      <3>1. /\ UNCHANGED <<runs, broken>> /\ ~Paying(t)
            /\ \A s \in Threads \ {t} : pc'[s] = pc[s] /\ key'[s] = key[s]
        BY <1>1, <1>3, <1>9, <2>2 DEF Claim, ReturnExisting, locals, Paying, TypeOK
      <3>2. QED
        BY <1>2, <3>1
    <2>3. QED
      BY <2>1, <2>2
  <1>10. ASSUME Paying(t), Paying(t)', UNCHANGED <<runs, key, broken>>,
                \A s \in Threads \ {t} : pc'[s] = pc[s]
         PROVE  Accounted'
    BY <1>10, AccountedStays DEF Paying
  <1>11. CASE Resolve(t)
    BY <1>1, <1>10, <1>11 DEF Resolve, Paying, TypeOK
  <1>12. ASSUME NEW u \in Users, Credit(t, u) \/ CreditRefused(t, u) PROVE Accounted'
    BY <1>10, <1>12 DEF Credit, CreditRefused, Paying
  <1>13. CASE ResolveFails(t)
    <2>1. /\ runs' = runs /\ broken \subseteq broken' /\ (Paying(t) => key[t] \in broken')
          /\ \A s \in Threads \ {t} : pc'[s] = pc[s] /\ key'[s] = key[s]
      BY <1>3, <1>13 DEF ResolveFails, Paying
    <2>2. QED
      BY <2>1, AccountedStays DEF Paying
  <1>14. CASE Finish(t)
    <2>1. /\ runs' = [runs EXCEPT ![key[t]] = "finished"] /\ broken' = broken
          /\ \A s \in Threads \ {t} : pc'[s] = pc[s] /\ key'[s] = key[s]
      BY <1>1, <1>3, <1>14 DEF Finish, locals, TypeOK
    <2>2. /\ \A k \in Keys : runs'[k] = "planned" => runs[k] = "planned"
          /\ key[t] \in Keys => runs'[key[t]] # "planned"
      BY <1>1, <2>1 DEF TypeOK
    <2>3. Paying(t) => key[t] \in Keys
      BY <1>1 DEF IInv, Safe, KeysBounded, TypeOK
    <2>4. QED
      BY <2>1, <2>2, <2>3, AccountedStays DEF Paying
  <1>15. QED
    BY <1>4, <1>5, <1>6, <1>7, <1>8, <1>9, <1>11, <1>12, <1>13, <1>14 DEF Step

LEMMA AccountedNext == IInv /\ Accounted /\ [Next]_vars => Accounted'
  <1> SUFFICES ASSUME IInv, Accounted, [Next]_vars PROVE Accounted'
    OBVIOUS
  <1>1. ASSUME NEW t \in Threads, RunNow(t) \/ Adjust(t) PROVE Accounted'
    <2>1. /\ ~Paying(t) /\ UNCHANGED <<runs, broken>>
          /\ \A s \in Threads \ {t} : pc'[s] = pc[s] /\ key'[s] = key[s]
      BY <1>1 DEF RunNow, Adjust, Paying, IInv, TypeOK
    <2>2. QED
      BY <2>1, AccountedStays DEF Paying
  <1>2. CASE Toggle \/ DeletePolicy \/ TimePasses \/ UNCHANGED vars
    <2>1. UNCHANGED <<runs, broken, pc, key>>
      BY <1>2 DEF Toggle, DeletePolicy, TimePasses, locals, vars
    <2>2. QED
      BY <2>1, AccountedStays DEF Paying
  <1>3. CASE Crash
    BY <1>3 DEF Crash, Accounted
  <1>4. QED
    BY <1>1, <1>2, <1>3, StepAccounts DEF Next

\* Until an operator runs or edits the policy, every occurrence of a recurring policy before
\* its next one has been executed, is being executed, or was broken off behind its
\* placeholder, whatever the two ticking threads overwrite of each other and however often
\* the process crashes.
THEOREM MissedOnesAreCaughtUp == Spec => []NoOccurrenceSkipped
  <1> DEFINE Inv == IInv /\ Accounted /\ (wanted = "untouched" => Abiding)
  <1>1. Init => Inv
    BY InitType, InitSafe, AccountedInit, AbidingInit DEF IInv
  <1>2. Inv /\ [Next]_vars => Inv'
    <2> SUFFICES ASSUME Inv, [Next]_vars PROVE Inv'
      OBVIOUS
    <2>1. wanted' = "untouched" => wanted = "untouched"
      BY WishesWane
    <2>2. QED
      BY <2>1, NextSafe, AccountedNext, AbidingNext
  <1>3. Inv => NoOccurrenceSkipped
    <2> SUFFICES ASSUME Inv, policy.kind = "recurring", wanted = "untouched",
                        NEW k \in Occurrences,
                        k < (IF policy.next = NoTime THEN Last + 1 ELSE policy.next)
                 PROVE  runs[k] = "finished" \/ k \in broken \/ InHand(k)
      BY DEF NoOccurrenceSkipped
    <2>1. k \in Keys /\ runs[k] # "none"
      BY OccurrencesAreKeys DEF Abiding, CaughtUp, Behind
    <2>2. runs[k] \in {"planned", "finished"}
      BY <2>1 DEF IInv, TypeOK, Status
    <2>3. QED
      BY <2>1, <2>2 DEF Accounted
  <1>4. QED
    BY <1>1, <1>2, <1>3, PTL DEF Spec

\* What is due is executed, unless it is broken off, and what is credited is on record,
\* although everything may crash.
THEOREM CreditsDoSettle == Spec => []CreditsSettle
  BY MissedOnesAreCaughtUp, CreditsAreStored, PTL DEF CreditsSettle
=============================================================================
