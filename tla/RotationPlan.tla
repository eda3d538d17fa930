---------------------------- MODULE RotationPlan ----------------------------
(***************************************************************************)
(* What an automatic rotation decides on one platform: the loops of        *)
(* RotationService.run_auto_rotation (src/app/services/rotation.py) over   *)
(* newcomers and over users in the order of their usage, one user a step,  *)
(* with the operators that choose a group for them.  Runs follow one       *)
(* another while nothing else changes.                                     *)
(*                                                                         *)
(* Groups and users are numbered in the order that breaks ties.  Usage is  *)
(* an integer and the quota of a group is read in steps of 100/Quota per   *)
(* cent; shares are compared after multiplication by the total weight, so  *)
(* that nothing is rounded.  Moves succeed unless their preconditions fail;*)
(* no cooldown is configured.                                              *)
(***************************************************************************)
EXTENDS Integers, FiniteSets, FiniteSetsExt

CONSTANTS
    NGroups, NUsers,
    Quota,          \* the quota of an account
    Threshold,      \* evacuate_quota_used_percent, in the same unit
    Epsilon,        \* imbalance_epsilon
    Delta,          \* improvement_delta
    Protections,    \* the sets of protected users to look at
    Evacuations,    \* the settings of evacuate_unavailable_accounts to look at
    InOrder,        \* users are numbered by falling usage, groups by rising readings
    MaxUsage, MaxRuns

PlanAssumption ==
    /\ NGroups \in Nat \ {0} /\ NUsers \in Nat \ {0} /\ Quota \in Nat \ {0}
    /\ Threshold \in Nat /\ Epsilon \in Nat /\ Delta \in Nat
    /\ Protections \subseteq SUBSET (1..NUsers) /\ Evacuations \subseteq BOOLEAN
    /\ MaxUsage \in Nat /\ MaxRuns \in Nat

VARIABLES
    in,      \* what upstream reports and how the rotation is configured
    place,   \* the group of each user
    loads,   \* target_loads of the run
    left,    \* the users it has yet to look at
    runs,
    \* History.
    began    \* place when the run began

vars == <<in, place, loads, left, runs, began>>

Groups == 1..NGroups
Members == 1..NUsers
Nowhere == 0          \* the place of a newcomer

\* What upstream reports of a group: that it does not exist, that no account of it can be
\* scheduled, that none of those that can be publishes a reading, or the least quota used.
Missing == -3
Dead == -2
Readings == Missing..Quota

Inputs == [usage : [Members -> 0..MaxUsage], reading : [Groups -> Readings],
           weighted : BOOLEAN, protected : Protections, evacuate : Evacuations]

Abs(n) == IF n < 0 THEN -n ELSE n

\* The sum of f over S.
Total(f, S) == Cardinality(UNION {{x} \X (1..f[x]) : x \in S})

-----------------------------------------------------------------------------
(* Groups.                                                                 *)

Serves(g) == in.reading[g] \notin {Missing, Dead}
Known(g) == in.reading[g] \in 0..Quota

\* _group_remaining_capacity: without a reading the weight is neutral.
Remaining(g) ==
    IF ~Known(g) THEN Quota
    ELSE IF in.reading[g] < Quota THEN Quota - in.reading[g] ELSE 0

\* _group_evacuation_reason is not None.
Evacuated(g) ==
    \/ in.evacuate /\ in.reading[g] = Dead
    \/ Known(g) /\ in.reading[g] >= Threshold

Healthy == {g \in Groups : ~Evacuated(g)}

\* _initial_pool_group_loads.
Loads(where) == [g \in Groups |-> Total(in.usage, {u \in Members : where[u] = g})]

-----------------------------------------------------------------------------
(* Where a group is and where it should be, given loads l.  All amounts    *)
(* are multiplied by Scale.                                                *)

Weights == Total([g \in Groups |-> Remaining(g)], Healthy)
Scale ==
    IF ~in.weighted THEN 1 ELSE IF Weights = 0 THEN Cardinality(Healthy) ELSE Weights

\* _capacity_target_shares.
Share(l, g) == Total(l, Healthy) * (IF Weights = 0 THEN 1 ELSE Remaining(g))

\* How much more a group carries than it should, or what it carries.
Excess(l, g) == l[g] * Scale - (IF in.weighted THEN Share(l, g) ELSE 0)

\* What the selectors compare: the first difference decides.
Rank(l, g) == <<Excess(l, g), IF in.weighted THEN -Remaining(g) ELSE 0, g>>

Before(r, s) ==
    \/ r[1] < s[1]
    \/ r[1] = s[1] /\ r[2] < s[2]
    \/ r[1] = s[1] /\ r[2] = s[2] /\ r[3] < s[3]

\* _select_landing_target_group.
Landing(l) ==
    CHOOSE g \in Healthy : \A h \in Healthy \ {g} : Before(Rank(l, g), Rank(l, h))

Imbalance(l) ==
    LET excess == {Excess(l, g) : g \in Healthy}
    IN  IF in.weighted THEN Max({Abs(e) : e \in excess}) ELSE Max(excess) - Min(excess)

Balanced(l) == Epsilon > 0 /\ Imbalance(l) <= Epsilon * Scale

\* Mutation of Improves: a move that changes nothing is good enough.
ImprovesOrNot(l, from, to, use) ==
    LET u == use * Scale
        here == Excess(l, from)
        there == Excess(l, to)
    IN  IF in.weighted
        THEN Abs(here - u) + Abs(there + u) <= Abs(here) + Abs(there) - Delta * Scale
        ELSE Abs(here - there - 2 * u) <= here - there - Delta

\* The two balancing selectors: the distance from the shares, or the gap between the loads,
\* must become smaller by more than Delta.
Improves(l, from, to, use) ==
    LET u == use * Scale
        here == Excess(l, from)
        there == Excess(l, to)
    IN  IF in.weighted
        THEN Abs(here - u) + Abs(there + u) < Abs(here) + Abs(there) - Delta * Scale
        ELSE here > there /\ Abs(here - there - 2 * u) < here - there - Delta

-----------------------------------------------------------------------------
(* A run.                                                                  *)

Init ==
    /\ in \in Inputs
    /\ InOrder => /\ \A u \in Members \ {1} : in.usage[u - 1] >= in.usage[u]
                  /\ \A g \in Groups \ {1} : in.reading[g - 1] <= in.reading[g]
    /\ place \in [Members -> Groups \cup {Nowhere}]
    /\ loads = [g \in Groups |-> 0] /\ left = {} /\ runs = 0
    /\ began = place

Begin ==
    /\ left = {} /\ runs < MaxRuns
    /\ loads' = Loads(place)
    /\ left' = Members
    /\ runs' = runs + 1
    /\ began' = place
    /\ UNCHANGED <<in, place>>

\* New users are placed first, the others follow in the order of their usage.
Ahead(u, v) ==
    \/ place[u] = Nowhere /\ (place[v] = Nowhere => u < v)
    \/ /\ place[u] # Nowhere /\ place[v] # Nowhere
       /\ in.usage[u] > in.usage[v] \/ (in.usage[u] = in.usage[v] /\ u < v)

IsNext(u) == u \in left /\ \A v \in left \ {u} : Ahead(u, v)

\* _execute_rotation, as far as a run can tell: a target that cannot serve is refused.
Move(u, g) ==
    IF g \in Groups /\ g # place[u] /\ Serves(g)
    THEN /\ place' = [place EXCEPT ![u] = g]
         /\ loads' = [h \in Groups |-> IF h = g THEN loads[h] + in.usage[u]
                                       ELSE IF h = place[u] THEN loads[h] - in.usage[u]
                                       ELSE loads[h]]
    ELSE UNCHANGED <<place, loads>>

PlaceNewcomer(u) ==
    /\ IsNext(u) /\ place[u] = Nowhere
    /\ left' = left \ {u}
    /\ IF Healthy = {} THEN UNCHANGED <<place, loads>> ELSE Move(u, Landing(loads))
    /\ UNCHANGED <<in, runs, began>>

\* Mutation of Settled: a tidy load chart keeps users on a group that cannot serve them.
SettledAnyway(g) == Balanced(loads)

Settled(g) == ~Evacuated(g) /\ Balanced(loads)

\* The group chosen for a user, the present one if the user is to stay.
Target(u) ==
    LET here == place[u]
        best == Landing(loads)
    IN  IF u \in in.protected \/ Healthy = {} \/ Settled(here) THEN here
        ELSE IF \/ Evacuated(here)
                \/ best # here /\ Improves(loads, here, best, in.usage[u])
        THEN best ELSE here

Balance(u) ==
    /\ IsNext(u) /\ place[u] # Nowhere
    /\ left' = left \ {u}
    /\ Move(u, Target(u))
    /\ UNCHANGED <<in, runs, began>>

Next == Begin \/ \E u \in left : PlaceNewcomer(u) \/ Balance(u)

Spec == Init /\ [][Next]_vars

-----------------------------------------------------------------------------

Stranded(where) ==
    {u \in Members \ in.protected : where[u] # Nowhere /\ Evacuated(where[u])}

\* What every voluntary move makes smaller.
Disorder(where) ==
    LET l == Loads(where)
    IN  Total([g \in Groups |-> IF in.weighted THEN Abs(Excess(l, g)) ELSE l[g] * l[g]],
              Healthy)

(***************************************************************************)
(* A run empties the groups that can no longer serve, and places the       *)
(* newcomers, whatever the loads are, if every other group of the pool     *)
(* exists upstream and can take users.                                     *)
(***************************************************************************)
EvacuationEmpties ==
    runs > 0 /\ left = {} /\ Healthy # {} /\ (\A g \in Healthy : Serves(g)) =>
        Stranded(place) = {} /\ \A u \in Members : place[u] # Nowhere

(***************************************************************************)
(* Runs do not keep correcting each other (_initial_pool_group_loads tells *)
(* of users bounced four times): when nobody is to be placed or evacuated, *)
(* a run that moves somebody leaves the pool nearer to its shares, so that *)
(* no placement is ever seen again.                                        *)
(***************************************************************************)
Settling ==
    Stranded(began) = {} /\ (\A u \in Members : began[u] # Nowhere) /\ Healthy # {}
    => place = began \/ Disorder(place) < Disorder(began)
=============================================================================
