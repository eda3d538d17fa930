--------------------------- MODULE GroupRotation ---------------------------
(***************************************************************************)
(* RotationService (src/app/services/rotation.py): which group a user, its *)
(* keys and its accounts are in.  The automatic run, the operators' moves, *)
(* the migration of a whole group and the rollback of a run are carried out*)
(* one upstream call at a time, each by a thread of its own; nothing locks *)
(* them out of each other, and the process may crash between two calls.    *)
(*                                                                         *)
(* Which group the automatic run picks is RotationPlan's; here it picks any*)
(* group it may pick.  Every group is on a platform, and a user's groups   *)
(* are what the upstream's allowed_groups says.                            *)
(***************************************************************************)
EXTENDS Integers, FiniteSets

CONSTANTS
    Users,
    KeyNames,        \* names of each user's API keys
    Accounts,        \* upstream accounts; every key refers to all of them
    AccountPlatform, \* the platform of each account
    Groups,
    Platform,        \* the platform of each group
    Rotatable,       \* the groups that are exclusive and no subscription
    FirstLanding,    \* the landing pool at the start
    OldFlows,        \* users whom pending flows of an earlier version name
    Threads,
    Loads,           \* sets of operations: each behaviour carries out those of one of them
    Failures,        \* of {"refused", "lost", "crash"}
    MaxRequests,     \* bounds of each load: on the operators' requests,
    MaxCrashes       \* and on the crashes

NoGroup == "no group"

ASSUME GroupRotationAssumption ==
    /\ NoGroup \notin Groups
    /\ IsFiniteSet(Groups)
    /\ Rotatable \subseteq Groups
    /\ FirstLanding \subseteq Groups
    /\ OldFlows \subseteq Users
    /\ \A l \in Loads : MaxRequests[l] \in Nat /\ MaxCrashes[l] \in Nat

VARIABLES
    \* Upstream.
    allowed,    \* the groups each user is authorised for
    keyGroup,   \* the group each key routes to, or NoGroup
    bound,      \* the groups each account is bound to
    \* The store.
    snapshot,   \* the users' groups as they were last collected
    assign,     \* the stored assignment of each user on each platform, or NoGroup
    pool,       \* the rotation pool and the landing pool
    enabled,    \* automatic rotation is switched on
    pending,    \* users whom a provisioning flow names that is not finished
    run,        \* the latest automatic run that moved somebody
    \* The threads.
    thread,
    load,       \* the operations of this behaviour; it does not change
    requests,   \* requests so far
    crashes,    \* crashes so far
    \* History.
    routed,     \* how operators have routed each key by hand: "never", "seen", "unseen"
    crossed,    \* what changed upstream under a thread that had read it
    strayed,    \* users of a rollback that were neither where the run left them nor back
    untouched   \* nothing but the run and its rollback moved anybody since it began

upstream == <<allowed, keyGroup, bound>>
store == <<snapshot, assign, pool, enabled, pending, run>>
notes == <<crashes, routed, crossed, strayed>>
history == <<notes, untouched>>
vars == <<upstream, store, thread, load, requests, history>>

NoOne == "no one"
NoKey == <<NoOne, "no key">>
Platforms == {Platform[g] : g \in Groups}
Keys == Users \X KeyNames
Owner(k) == k[1]
PoolKinds == {"rotation", "landing"}

NoRun == [moved |-> {}, undone |-> {}, status |-> "none"]

Idle == [op |-> "none", pc |-> "idle", user |-> NoOne, key |-> NoKey, from |-> NoGroup,
         to |-> NoGroup, todo |-> {}, read |-> {}, keys |-> {}, account |-> {},
         accounts |-> {}, unassigned |-> FALSE, moved |-> {}, was |-> {}, owns |-> FALSE,
         landing |-> {}]

OnPlatform(S, p) == {g \in S : Platform[g] = p}

\* The group a user is dedicated to on a platform: the only one it has there.
Direct(S, p) ==
    IF Cardinality(OnPlatform(S, p)) = 1 THEN CHOOSE g \in S : Platform[g] = p ELSE NoGroup

Item == [user : Users, from : Groups, to : Groups, was : SUBSET Groups]

TypeOK ==
    /\ allowed \in [Users -> SUBSET Groups]
    /\ keyGroup \in [Keys -> Groups \cup {NoGroup}]
    /\ bound \in [Accounts -> SUBSET Groups]
    /\ snapshot \in [Users -> SUBSET Groups]
    /\ assign \in [Users \X Platforms -> Groups \cup {NoGroup}]
    /\ \A u \in Users, p \in Platforms :
          assign[<<u, p>>] # NoGroup => Platform[assign[<<u, p>>]] = p
    /\ pool \in [PoolKinds -> SUBSET Groups]
    /\ pool["rotation"] \subseteq Rotatable
    /\ enabled \in BOOLEAN
    /\ pending \subseteq Users
    /\ run.moved \subseteq Item /\ run.undone \subseteq run.moved
    /\ run.status \in {"none", "completed", "failed"}
    /\ DOMAIN thread = Threads
    /\ load \in Loads
    /\ requests \in 0..MaxRequests[load] /\ crashes \in 0..MaxCrashes[load]
    /\ routed \in [Keys -> {"never", "seen", "unseen"}]
    /\ crossed \in [groups : SUBSET Users, grants : SUBSET Users, routes : SUBSET Keys,
                     bindings : SUBSET Accounts]
    /\ strayed \subseteq Users
    /\ untouched \in BOOLEAN

\* At most one group of a user per platform, its keys in those groups or in none.
Init ==
    /\ allowed \in [Users -> {S \in SUBSET Groups :
                                \A p \in Platforms : Cardinality(OnPlatform(S, p)) <= 1}]
    /\ keyGroup \in [Keys -> Groups \cup {NoGroup}]
    /\ \A k \in Keys : keyGroup[k] \in allowed[Owner(k)] \cup {NoGroup}
    /\ bound = [a \in Accounts |-> {}]
    /\ snapshot = allowed
    /\ assign = [up \in Users \X Platforms |->
                    IF Direct(allowed[up[1]], up[2]) \in Rotatable
                    THEN Direct(allowed[up[1]], up[2]) ELSE NoGroup]
    /\ pool = [rotation |-> Rotatable, landing |-> FirstLanding]
    /\ enabled = TRUE
    /\ pending = OldFlows
    /\ run = NoRun
    /\ thread = [t \in Threads |-> Idle]
    /\ load \in Loads
    /\ requests = 0
    /\ crashes = 0
    /\ routed = [k \in Keys |-> "never"]
    /\ crossed = [groups |-> {}, grants |-> {}, routes |-> {}, bindings |-> {}]
    /\ strayed = {}
    /\ untouched = FALSE

-----------------------------------------------------------------------------
(* Threads.                                                                *)

Free(t, op) ==
    /\ op \in load
    /\ thread[t].pc = "idle"

At(t, ops, pc) == thread[t].op \in ops /\ thread[t].pc = pc

Become(t, local) == thread' = [thread EXCEPT ![t] = local]

Request == requests < MaxRequests[load] /\ requests' = requests + 1

\* What a thread goes by although it read it some steps ago: the groups of the users that it
\* is to move, the grants that it is to put back or that its keys are to use, the groups of
\* keys, and the groups of accounts.
Moves(l, u) ==
    \/ \E row \in l.todo : row.user = u
    \/ l.user = u /\ l.pc \in {"check", "replace", "read", "grant"}
    \/ l.op = "auto" /\ l.pc = "check"
Relies(l, u) ==
    /\ l.user = u
    /\ l.pc \in {"grant", "list", "accounts", "bind"} \/ (l.op = "assign" /\ l.pc = "check")
Routes(l, k) == (\E item \in l.keys : item.key = k) \/ (l.key = k /\ l.pc = "seen")
Binds(l, a) == a \in l.account

\* History: this thread's call changes what some other one goes by.
Cross(t) ==
    LET other == {thread[s] : s \in Threads \ {t}}
        moved == {u \in Users : allowed'[u] # allowed[u]}
    IN  crossed' =
          [groups |-> crossed.groups \cup {u \in moved : \E l \in other : Moves(l, u)},
           grants |-> crossed.grants \cup {u \in moved : \E l \in other : Relies(l, u)},
           routes |-> crossed.routes \cup
               {k \in Keys : keyGroup'[k] # keyGroup[k] /\ \E l \in other : Routes(l, k)},
           bindings |-> crossed.bindings \cup
               {a \in Accounts : bound'[a] # bound[a] /\ \E l \in other : Binds(l, a)}]

\* What is left of an operation whose upstream call failed: the loops go on with the
\* next item, the others end.
AfterFailure(l) ==
    IF l.op \in {"auto", "migrate", "rollback"} THEN [l EXCEPT !.pc = "rows"] ELSE Idle

\* Mutation of Refresh: nothing is collected.
RefreshNothing(t) ==
    /\ thread[t].pc = "refresh"
    /\ Become(t, [thread[t] EXCEPT !.pc = "check"])
    /\ UNCHANGED <<upstream, store, load, requests, history>>

\* refresh_before_mutation: the users are collected and stored.
Refresh(t) ==
    /\ thread[t].pc = "refresh"
    /\ snapshot' = allowed
    /\ Become(t, [thread[t] EXCEPT !.pc = "check"])
    /\ UNCHANGED <<upstream, assign, pool, enabled, pending, run, load, requests, history>>

\* The collection or a check raises: the operation ends with what it has done.
Abandon(t) ==
    /\ "refused" \in Failures
    /\ thread[t].pc \in {"refresh", "check"}
    /\ Become(t, Idle)
    /\ UNCHANGED <<upstream, store, load, requests, history>>

\* The process dies; the store and the upstream stay.
Crash ==
    /\ "crash" \in Failures /\ crashes < MaxCrashes[load]
    /\ crashes' = crashes + 1
    /\ \E t \in Threads : thread[t].pc # "idle"
    /\ thread' = [t \in Threads |-> Idle]
    /\ UNCHANGED <<upstream, store, load, requests, routed, crossed, strayed, untouched>>

-----------------------------------------------------------------------------
(* Upstream calls that change a user's groups.                             *)

\* The upstream's replace-group: keys follow the grant, in one transaction.
ReplaceGroup(u, old, new) ==
    /\ allowed' = [allowed EXCEPT ![u] = (@ \ {old}) \cup {new}]
    /\ keyGroup' = [k \in Keys |-> IF Owner(k) = u /\ keyGroup[k] = old THEN new
                                   ELSE keyGroup[k]]
    /\ UNCHANGED bound

Replaced(l) ==
    [l EXCEPT !.pc = IF l.op \in {"assign", "migrate"} THEN "list" ELSE "store",
              !.was = OnPlatform(allowed[l.user], Platform[l.to])]

Replace(t) ==
    /\ thread[t].pc = "replace"
    /\ LET l == thread[t]
       IN  /\ ReplaceGroup(l.user, l.from, l.to)
           /\ Become(t, Replaced(l))
    /\ Cross(t)
    /\ UNCHANGED <<store, load, requests, crashes, routed, strayed, untouched>>

\* The upstream may also refuse to replace a group the user does not have.
ReplaceFails(t) ==
    /\ thread[t].pc = "replace"
    /\ LET l == thread[t]
       IN  \/ /\ "refused" \in Failures \/ l.from \notin allowed[l.user]
              /\ UNCHANGED upstream
           \/ "lost" \in Failures /\ ReplaceGroup(l.user, l.from, l.to)
    /\ Become(t, AfterFailure(thread[t]))
    /\ Cross(t)
    /\ UNCHANGED <<store, load, requests, crashes, routed, strayed, untouched>>

\* add_user_allowed_group reads the grants ...
ReadGrants(t) ==
    /\ thread[t].pc = "read"
    /\ Become(t, [thread[t] EXCEPT !.read = allowed[thread[t].user], !.pc = "grant"])
    /\ UNCHANGED <<upstream, store, load, requests, history>>

\* Mutation of SetGrants: the target group is sent alone.
SetOneGrant(l) == allowed' = [allowed EXCEPT ![l.user] = {l.to}]

\* ... and puts them back with the target group among them.
SetGrants(l) == allowed' = [allowed EXCEPT ![l.user] = l.read \cup {l.to}]

Grant(t) ==
    /\ thread[t].pc = "grant"
    /\ SetGrants(thread[t])
    /\ \/ Become(t, [thread[t] EXCEPT !.pc = "list", !.read = {}])
       \/ "lost" \in Failures /\ Become(t, AfterFailure(thread[t]))
    /\ UNCHANGED <<keyGroup, bound>>
    /\ Cross(t)
    /\ UNCHANGED <<store, load, requests, crashes, routed, strayed, untouched>>

GrantFails(t) ==
    /\ "refused" \in Failures
    /\ thread[t].pc \in {"read", "grant"}
    /\ Become(t, AfterFailure(thread[t]))
    /\ UNCHANGED <<upstream, store, load, requests, history>>

-----------------------------------------------------------------------------
(* Keys and accounts follow the user (_sync_user_resources_to_group).      *)

ListKeys(t) ==
    /\ thread[t].pc = "list"
    /\ LET l == thread[t]
           mine == {k \in Keys : /\ Owner(k) = l.user
                                 /\ l.unassigned => keyGroup[k] = NoGroup}
       IN  Become(t, [l EXCEPT
             !.keys = {[key |-> k, group |-> keyGroup[k]] : k \in mine},
             !.accounts = IF mine = {} THEN {}
                          ELSE {a \in Accounts : /\ AccountPlatform[a] = Platform[l.to]
                                                 /\ l.to \notin bound[a]},
             !.pc = "accounts"])
    /\ UNCHANGED <<upstream, store, load, requests, history>>

\* bind_account_to_group reads the account's groups ...
ReadAccount(t, a) ==
    /\ thread[t].pc = "accounts" /\ a \in thread[t].accounts
    /\ Become(t, [thread[t] EXCEPT !.accounts = @ \ {a}, !.account = {a},
                                   !.read = bound[a], !.pc = "bind"])
    /\ UNCHANGED <<upstream, store, load, requests, history>>

\* ... and puts them back with the target group among them.
SetBindings(l) ==
    bound' = [a \in Accounts |-> IF a \in l.account THEN l.read \cup {l.to} ELSE bound[a]]

Bind(t) ==
    /\ thread[t].pc = "bind"
    /\ SetBindings(thread[t]) \/ ("refused" \in Failures /\ UNCHANGED bound)
    /\ Become(t, [thread[t] EXCEPT !.account = {}, !.read = {}, !.pc = "accounts"])
    /\ UNCHANGED <<allowed, keyGroup>>
    /\ Cross(t)
    /\ UNCHANGED <<store, load, requests, crashes, routed, strayed, untouched>>

\* Mutation of MayFollow: any key follows.
AnyMayFollow(g, target) == g # target

\* A key follows the user into the target group from a group of the same platform, or
\* from none.
MayFollow(g, target) ==
    /\ g # target
    /\ g # NoGroup => Platform[g] = Platform[target]

MoveKey(t, item) ==
    /\ thread[t].pc = "accounts" /\ thread[t].accounts = {} /\ item \in thread[t].keys
    /\ LET l == thread[t]
       IN  /\ keyGroup' = IF MayFollow(item.group, l.to)
                          THEN [keyGroup EXCEPT ![item.key] = l.to] ELSE keyGroup
           /\ \/ Become(t, [l EXCEPT !.keys = @ \ {item}])
              \/ "lost" \in Failures /\ MayFollow(item.group, l.to)
                 /\ Become(t, AfterFailure([l EXCEPT !.keys = {}]))
    /\ UNCHANGED <<allowed, bound>>
    /\ Cross(t)
    /\ UNCHANGED <<store, load, requests, crashes, routed, strayed, untouched>>

\* One call that fails ends the whole operation for this user, before it is stored.
MoveKeyFails(t) ==
    /\ "refused" \in Failures
    /\ \/ thread[t].pc = "list"
       \/ thread[t].pc = "accounts" /\ thread[t].accounts = {} /\ thread[t].keys # {}
    /\ Become(t, AfterFailure([thread[t] EXCEPT !.keys = {}]))
    /\ UNCHANGED <<upstream, store, load, requests, history>>

KeysMoved(t) ==
    /\ thread[t].pc = "accounts" /\ thread[t].accounts = {} /\ thread[t].keys = {}
    /\ Become(t, [thread[t] EXCEPT !.pc = "store"])
    /\ UNCHANGED <<upstream, store, load, requests, history>>

-----------------------------------------------------------------------------
(* The automatic run.                                                      *)

\* The run may be scoped to one platform: the pools it works with are cut down to it.
\* (Bounds: only a load with "scoped" has such runs, and only one with "again" has a run
\* after one that moved somebody.)
StartAuto(t, scope) ==
    /\ Free(t, "auto")
    /\ scope # Platforms => "scoped" \in load
    /\ run # NoRun => "again" \in load
    /\ enabled
    /\ LET InScope(S) == {g \in S : Platform[g] \in scope}
       IN  /\ InScope(pool["rotation"]) # {}
           /\ Become(t, [Idle EXCEPT !.op = "auto", !.pc = "refresh",
                                     !.read = InScope(pool["rotation"]),
                                     !.landing = InScope(pool["landing"])])
    /\ untouched' = (run = NoRun /\ \A s \in Threads : thread[s].pc = "idle")
    /\ UNCHANGED <<upstream, store, load, requests, notes>>

\* Users whose only group on a platform is in the given pool, as collected.
Rows(groups) ==
    {[user |-> u, from |-> g, to |-> NoGroup] : u \in Users, g \in groups} \cap
    {[user |-> u, from |-> Direct(snapshot[u], p), to |-> NoGroup] :
        u \in Users, p \in Platforms}

\* Mutation of SyncAssignments: assignments that exist are not refreshed.
SyncNewAssignments(rows) ==
    assign' = [up \in DOMAIN assign |->
                  LET mine == {r \in rows : r.user = up[1] /\ Platform[r.from] = up[2]}
                  IN  IF mine = {} \/ assign[up] # NoGroup THEN assign[up]
                      ELSE (CHOOSE r \in mine : TRUE).from]

SyncAssignments(rows) ==
    assign' = [up \in DOMAIN assign |->
                  LET mine == {r \in rows : r.user = up[1] /\ Platform[r.from] = up[2]}
                  IN  IF mine = {} THEN assign[up] ELSE (CHOOSE r \in mine : TRUE).from]

Newcomers(l) == Rows(l.landing \ l.read)

\* Users in the pool are synchronised and may be balanced; users in the landing pool
\* are to be placed.
Sync(t) ==
    /\ At(t, {"auto"}, "check")
    /\ LET l == thread[t]
           rows == Rows(l.read)
       IN  /\ SyncAssignments(rows)
           /\ Become(t, [l EXCEPT !.todo = rows \cup Newcomers(l),
                                  !.pc = "rows"])
    /\ UNCHANGED <<upstream, snapshot, pool, enabled, pending, run, load, requests, history>>

Newcomer(l, row) == row.from \notin l.read

\* A row is moved to another group of the pool on its platform that the store still
\* lists, unless the user has a provisioning flow.
Pick(t, row, g) ==
    /\ At(t, {"auto"}, "rows") /\ row \in thread[t].todo
    /\ g \in thread[t].read \cap pool["rotation"]
    /\ Platform[g] = Platform[row.from] /\ g # row.from
    /\ row.user \notin pending
    /\ Become(t, [thread[t] EXCEPT !.todo = @ \ {row}, !.user = row.user,
                                   !.from = row.from, !.to = g, !.pc = "replace"])
    /\ UNCHANGED <<upstream, store, load, requests, history>>

\* The plan leaves the user where it is, or a precondition does not hold.
Skip(t, row) ==
    /\ At(t, {"auto"}, "rows") /\ row \in thread[t].todo
    /\ Become(t, [thread[t] EXCEPT !.todo = @ \ {row}])
    /\ UNCHANGED <<upstream, store, load, requests, history>>

\* Mutation of MovedItem: the group the assignment has now is recorded as the source.
MovedItemFromNew(l) == [user |-> l.user, from |-> l.to, to |-> l.to, was |-> l.was]

MovedItem(l) == [user |-> l.user, from |-> l.from, to |-> l.to, was |-> l.was]

\* The stored assignment follows the upstream's answer.
Store(t) ==
    /\ thread[t].pc = "store"
    /\ LET l == thread[t]
       IN  /\ assign' = [assign EXCEPT ![<<l.user, Platform[l.to]>>] = l.to]
           /\ Become(t, CASE l.op \in {"auto", "rollback"} ->
                                [l EXCEPT !.moved = @ \cup {MovedItem(l)}, !.was = {},
                                          !.pc = "rows"]
                          [] l.op = "migrate" -> [l EXCEPT !.was = {}, !.pc = "rows"]
                          [] OTHER -> Idle)
    /\ UNCHANGED <<upstream, snapshot, pool, enabled, pending, run, load, requests, history>>

\* The record of the run is saved when all its rows have been handled; a rollback of
\* an older run still saves the older record.
FinishAuto(t) ==
    /\ At(t, {"auto"}, "rows") /\ thread[t].todo = {}
    /\ IF thread[t].moved = {}
       THEN Become(t, Idle) /\ UNCHANGED run
       ELSE /\ run' = [moved |-> thread[t].moved, undone |-> {}, status |-> "none"]
            /\ thread' = [s \in Threads |-> IF s = t THEN Idle
                                            ELSE [thread[s] EXCEPT !.owns = FALSE]]
    /\ UNCHANGED <<upstream, snapshot, assign, pool, enabled, pending, load, requests, history>>

-----------------------------------------------------------------------------
(* Operators move one user.                                                *)

Touch == untouched' = FALSE

StartManual(t, u, g) ==
    /\ Free(t, "manual") /\ Request /\ Touch
    /\ assign[<<u, Platform[g]>>] # NoGroup
    /\ Become(t, [Idle EXCEPT !.op = "manual", !.pc = "refresh", !.user = u, !.to = g,
                              !.from = assign[<<u, Platform[g]>>]])
    /\ UNCHANGED <<upstream, store, load, notes>>

\* The stored assignment gives way to what was collected.
CheckManual(t) ==
    /\ At(t, {"manual"}, "check")
    /\ LET l == thread[t]
           p == Platform[l.to]
           direct == Direct(snapshot[l.user], p)
           current == IF direct = NoGroup THEN l.from ELSE direct
       IN  /\ assign' = IF direct \in {NoGroup, l.from} /\ l.to # current THEN assign
                        ELSE [assign EXCEPT ![<<l.user, p>>] = current]
           /\ Become(t, IF l.to \in Rotatable /\ l.user \notin pending /\ l.to # current
                        THEN [l EXCEPT !.from = current, !.pc = "replace"]
                        ELSE Idle)
    /\ UNCHANGED <<upstream, snapshot, pool, enabled, pending, run, load, requests, history>>

StartAssign(t, u, source, g) ==
    /\ Free(t, "assign") /\ Request /\ Touch
    /\ Become(t, [Idle EXCEPT !.op = "assign", !.pc = "refresh", !.user = u, !.from = source,
                              !.to = g])
    /\ UNCHANGED <<upstream, store, load, notes>>

\* The source an operator names must be the user's group on the target's platform, and
\* a first assignment needs an empty platform.
MayAssign(l, mine, direct) ==
    /\ l.to \in Rotatable
    /\ l.from \in {NoGroup, direct}
    /\ direct = NoGroup => mine = {}

CheckAssign(t) ==
    /\ At(t, {"assign"}, "check")
    /\ LET l == thread[t]
           mine == OnPlatform(snapshot[l.user], Platform[l.to])
           direct == Direct(snapshot[l.user], Platform[l.to])
       IN  Become(t, IF ~MayAssign(l, mine, direct) THEN Idle
                     ELSE [l EXCEPT !.from = direct,
                                    !.unassigned = direct \notin {NoGroup, l.to},
                                    !.pc = CASE direct = l.to -> "list"
                                             [] direct = NoGroup -> "read"
                                             [] OTHER -> "replace"])
    /\ UNCHANGED <<upstream, store, load, requests, history>>

-----------------------------------------------------------------------------
(* Operators migrate a group, route a key, roll a run back.                *)

StartMigrate(t, s, g) ==
    /\ Free(t, "migrate") /\ Request /\ Touch
    /\ s # g /\ Platform[s] = Platform[g] /\ g \in Rotatable
    /\ Become(t, [Idle EXCEPT !.op = "migrate", !.pc = "refresh", !.from = s, !.to = g])
    /\ UNCHANGED <<upstream, store, load, notes>>

\* The users dedicated to the source group, and those whose keys route through it;
\* the group is handed over when the user is authorised for it.
ListCandidates(t) ==
    /\ At(t, {"migrate"}, "check")
    /\ LET l == thread[t]
           candidates == {u \in Users :
               \/ Direct(allowed[u], Platform[l.from]) = l.from
               \/ \E k \in Keys : Owner(k) = u /\ keyGroup[k] = l.from}
       IN  Become(t, [l EXCEPT !.pc = "rows",
             !.todo = {[user |-> u, from |-> IF l.from \in allowed[u] THEN l.from ELSE NoGroup,
                        to |-> l.to] : u \in candidates}])
    /\ UNCHANGED <<upstream, store, load, requests, history>>

NextCandidate(t, row) ==
    /\ At(t, {"migrate"}, "rows") /\ row \in thread[t].todo
    /\ Become(t, [thread[t] EXCEPT !.todo = @ \ {row}, !.user = row.user,
                                   !.pc = IF row.from = NoGroup THEN "read" ELSE "replace"])
    /\ UNCHANGED <<upstream, store, load, requests, history>>

FinishMigrate(t) ==
    /\ At(t, {"migrate"}, "rows") /\ thread[t].todo = {}
    /\ Become(t, Idle)
    /\ UNCHANGED <<upstream, store, load, requests, history>>

\* The group the operator names as the key's is only used when the key cannot be read.
StartKey(t, k, hint, g) ==
    /\ Free(t, "key") /\ Request /\ Touch
    /\ Become(t, [Idle EXCEPT !.op = "key", !.pc = "refresh", !.user = Owner(k), !.key = k,
                              !.from = hint, !.to = g])
    /\ UNCHANGED <<upstream, store, load, notes>>

CheckKey(t) ==
    /\ At(t, {"key"}, "check")
    /\ LET l == thread[t]
           Fits(g) == g # NoGroup => Platform[g] = Platform[l.to]
       IN  \/ Become(t, IF Fits(keyGroup[l.key]) THEN [l EXCEPT !.pc = "seen"] ELSE Idle)
           \/ /\ "refused" \in Failures
              /\ Become(t, IF Fits(l.from) THEN [l EXCEPT !.pc = "unseen"] ELSE Idle)
    /\ UNCHANGED <<upstream, store, load, requests, history>>

RouteKey(t) ==
    /\ thread[t].pc \in {"seen", "unseen"}
    /\ LET l == thread[t]
       IN  \/ /\ keyGroup' = [keyGroup EXCEPT ![l.key] = l.to]
              /\ routed' = [routed EXCEPT ![l.key] = IF @ = "unseen" THEN @ ELSE l.pc]
           \/ "refused" \in Failures /\ UNCHANGED <<keyGroup, routed>>
    /\ Become(t, Idle)
    /\ UNCHANGED <<allowed, bound>>
    /\ Cross(t)
    /\ UNCHANGED <<store, load, requests, crashes, strayed, untouched>>

\* The user is not where the run has moved it, and not back either.
Strays(m) ==
    /\ m.to \notin allowed[m.user]
    /\ ~OnPlatform(allowed[m.user], Platform[m.from]) \subseteq {m.from}

StartRollback(t) ==
    /\ Free(t, "rollback") /\ Request
    /\ run.moved # {} /\ run.status = "none"
    /\ Become(t, [Idle EXCEPT !.op = "rollback", !.pc = "refresh", !.owns = TRUE,
            !.todo = {[user |-> m.user, from |-> m.to, to |-> m.from] : m \in run.moved}])
    /\ strayed' = strayed \cup {m.user : m \in {m \in run.moved : Strays(m)}}
    /\ UNCHANGED <<upstream, store, load, crashes, routed, crossed, untouched>>

\* What was collected is not looked at.
CheckRollback(t) ==
    /\ At(t, {"rollback"}, "check")
    /\ Become(t, [thread[t] EXCEPT !.pc = "rows"])
    /\ UNCHANGED <<upstream, store, load, requests, history>>

NextItem(t, row) ==
    /\ At(t, {"rollback"}, "rows") /\ row \in thread[t].todo
    /\ Become(t, [thread[t] EXCEPT !.todo = @ \ {row}, !.user = row.user, !.from = row.from,
                                   !.to = row.to, !.pc = "replace"])
    /\ UNCHANGED <<upstream, store, load, requests, history>>

\* A rollback is completed unless every item failed.
FinishRollback(t) ==
    /\ At(t, {"rollback"}, "rows") /\ thread[t].todo = {}
    /\ LET l == thread[t]
           undone == {m \in run.moved : \E n \in l.moved : /\ n.user = m.user
                                                          /\ n.from = m.to /\ n.to = m.from}
       IN  run' = IF ~l.owns THEN run
                  ELSE [run EXCEPT !.undone = undone,
                                   !.status = IF l.moved = {} THEN "failed" ELSE "completed"]
    /\ Become(t, Idle)
    /\ UNCHANGED <<upstream, snapshot, assign, pool, enabled, pending, load, requests, history>>

-----------------------------------------------------------------------------
(* The pools, the switch, and provisioning flows of other components.      *)

AddToPool(kind, g) ==
    /\ "pool" \in load /\ Request
    /\ kind = "rotation" => g \in Rotatable
    /\ pool' = [pool EXCEPT ![kind] = @ \cup {g}]
    /\ UNCHANGED <<upstream, snapshot, assign, enabled, pending, run, thread, load, history>>

RemoveFromPool(kind, g) ==
    /\ "pool" \in load /\ Request
    /\ pool' = [pool EXCEPT ![kind] = @ \ {g}]
    /\ UNCHANGED <<upstream, snapshot, assign, enabled, pending, run, thread, load, history>>

SetEnabled ==
    /\ "pool" \in load /\ Request
    /\ enabled' = ~enabled
    /\ UNCHANGED <<upstream, snapshot, assign, pool, pending, run, thread, load, history>>

\* The flows that are started today name no user (see Provisioning), so only old ones hold
\* anybody.
FlowEnds(u) ==
    /\ u \in pending /\ pending' = pending \ {u}
    /\ UNCHANGED <<upstream, snapshot, assign, pool, enabled, run, thread, load, requests, history>>

Starts(t) ==
    \/ \E u \in Users, g \in Groups :
          \/ StartManual(t, u, g)
          \/ \E source \in Groups \cup {NoGroup} : StartAssign(t, u, source, g)
    \/ \E s, g \in Groups : StartMigrate(t, s, g)
    \/ \E k \in Keys, hint \in Groups \cup {NoGroup}, g \in Groups : StartKey(t, k, hint, g)
    \/ StartRollback(t)

Answered(t) ==
    \/ Refresh(t) \/ Sync(t) \/ CheckManual(t) \/ CheckAssign(t) \/ ListCandidates(t)
    \/ CheckKey(t) \/ CheckRollback(t)
    \/ Replace(t) \/ ReadGrants(t) \/ Grant(t) \/ ListKeys(t) \/ Bind(t)
    \/ \E a \in Accounts : ReadAccount(t, a)
    \/ \E item \in thread[t].keys : MoveKey(t, item)
    \/ KeysMoved(t) \/ RouteKey(t) \/ Store(t)
    \/ \E row \in thread[t].todo :
          \/ \E g \in Groups : Pick(t, row, g)
          \/ Skip(t, row) \/ NextCandidate(t, row) \/ NextItem(t, row)
    \/ FinishAuto(t) \/ FinishMigrate(t) \/ FinishRollback(t)

Failed(t) == Abandon(t) \/ ReplaceFails(t) \/ GrantFails(t) \/ MoveKeyFails(t)

Next ==
    \/ \E t \in Threads, p \in Platforms : StartAuto(t, Platforms) \/ StartAuto(t, {p})
    \/ \E t \in Threads : Starts(t) \/ Answered(t) \/ Failed(t)
    \/ \E kind \in PoolKinds, g \in Groups : AddToPool(kind, g) \/ RemoveFromPool(kind, g)
    \/ SetEnabled
    \/ \E u \in Users : FlowEnds(u)
    \/ Crash

Spec == Init /\ [][Next]_vars

\* The scheduler runs the automatic rotation again and again, calls return, and neither
\* the collection nor the upstream fails for ever; a newcomer that may be placed again
\* and again finds a group with accounts once.
PickNewcomer(t) ==
    \E row \in thread[t].todo, g \in Groups : Newcomer(thread[t], row) /\ Pick(t, row, g)

Fairness ==
    /\ WF_vars(\E t \in Threads : StartAuto(t, Platforms))
    /\ \A t \in Threads :
          /\ WF_vars(Answered(t) \/ Failed(t))
          /\ SF_vars(Refresh(t)) /\ SF_vars(Sync(t))
          /\ SF_vars(PickNewcomer(t)) /\ SF_vars(At(t, {"auto"}, "replace") /\ Replace(t))

FairSpec == Spec /\ Fairness

-----------------------------------------------------------------------------
(* Properties.                                                             *)

(***************************************************************************)
(* No key is left in a group its owner is not authorised for (upstream     *)
(* answers such a key with 403): the grant comes before the keys, and a    *)
(* group is given up together with them.  Excepted are keys that operators *)
(* have routed, and the users whose grants changed between the time at     *)
(* which some operation read them and the calls that rely on them          *)
(* (clients/sub2api.py:352-354, rotation.py:908-949): nothing keeps other  *)
(* operations out meanwhile.                                               *)
(***************************************************************************)
NoKeyOrphaned ==
    \A k \in Keys :
        routed[k] = "never" /\ Owner(k) \notin crossed.grants =>
            keyGroup[k] \in allowed[Owner(k)] \cup {NoGroup}

\* Neither was the user moved under an operation that goes by where it was, nor did operators
\* route its keys, nor was a run rolled back after the user had been moved on.
Clean(u) ==
    /\ u \notin crossed.groups \cup crossed.grants \cup strayed
    /\ \A k \in Keys : Owner(k) = u => routed[k] = "never"

(***************************************************************************)
(* "A user holds at most one dedicated group ... per platform"             *)
(* (openspec/specs/group-rotation/spec.md): assignments, moves, migrations,*)
(* automatic runs and rollbacks, however they follow each other and        *)
(* whatever fails, is lost or crashes, leave a user on one group, unless   *)
(* two of them overlap on that user.  Two serial ways to a second group    *)
(* are excepted: a key that is routed by hand makes its owner a candidate  *)
(* of the migration of that group, which authorises it (rotation.py:861),  *)
(* and a rollback does not look where its users are now (:2314).           *)
(***************************************************************************)
OneGroupPerPlatform ==
    \A u \in Users : Clean(u) =>
        \A p \in Platforms : Cardinality(OnPlatform(allowed[u], p)) <= 1

(***************************************************************************)
(* A key that serves a platform never serves another one, and never none,  *)
(* unless an operator routes a key whose group could not be read; and an   *)
(* account never loses a group it was bound to.  Excepted are keys and     *)
(* accounts that changed while an operation held what it had read of them. *)
(***************************************************************************)
RoutesAreKept ==
    [][/\ \A k \in Keys \ crossed'.routes :
             keyGroup[k] # NoGroup /\ routed'[k] # "unseen" =>
                 /\ keyGroup'[k] # NoGroup
                 /\ Platform[keyGroup'[k]] = Platform[keyGroup[k]]
       /\ \A a \in Accounts \ crossed'.bindings : bound[a] \subseteq bound'[a]]_vars

(***************************************************************************)
(* A user that a rollback has brought back has, on that platform, the very *)
(* groups it had when the run moved it, if nobody else touched it between. *)
(***************************************************************************)
RollbackRestores ==
    untouched /\ run.status = "completed" =>
        \A m \in run.undone : OnPlatform(allowed[m.user], Platform[m.from]) = m.was

(***************************************************************************)
(* What is stored of a user catches up with the upstream after lost answers*)
(* and crashes: as long as the user sits in one group of the pool, that    *)
(* group becomes its stored assignment.                                    *)
(***************************************************************************)
AssignmentsCatchUp ==
    \A u \in Users, g \in Rotatable :
        LET p == Platform[g]
            sits == Direct(allowed[u], p) = g /\ g \in pool["rotation"] /\ enabled
        IN  (sits /\ assign[<<u, p>>] # g) ~> (~sits \/ assign[<<u, p>>] = g)

(***************************************************************************)
(* A user found on a landing group is placed in the rotation pool, as long *)
(* as the pool has groups for it and no provisioning flow holds it.        *)
(***************************************************************************)
NewcomersArrive ==
    \A u \in Users, g \in Groups :
        LET p == Platform[g]
            waits == /\ Direct(allowed[u], p) = g
                     /\ g \in pool["landing"] \ pool["rotation"]
                     /\ OnPlatform(pool["rotation"], p) # {} /\ u \notin pending /\ enabled
        IN  waits ~> ~waits

(***************************************************************************)
(* Whatever failed, the users end where the pools want them, and are known *)
(* to be there.                                                            *)
(***************************************************************************)
UsersSettle == AssignmentsCatchUp /\ NewcomersArrive
=============================================================================
