# sub2api-sidecar, modelled and checked

`sub2api-sidecar` is a FastAPI process that manages an upstream "sub2api"
installation through its admin HTTP API: it provisions OAuth accounts, moves
users between groups, keeps accounts on healthy proxies, pauses accounts that
look bad, recharges users' balances and raises alerts. It keeps its own records
in PostgreSQL. This directory holds TLA+ models of its services, the TLC runs
that check them on small instances, and proofs, checked by TLAPS, that every
safety property of those runs holds for instances of every size.

What makes the program hard to test is always the same: the truth is spread over
two systems (upstream and the store), every operation is a sequence of calls to
both, each call may fail, be carried out with its answer lost, or be the last one
before a crash, and scheduler threads, HTTP handlers and people with a browser on
the upstream's own panel take turns in between.

## 1. Inventory

Paths are below `src/app/`.

| Component | State it keeps | Operations | What makes it correct |
|---|---|---|---|
| **Proxy health** `services/proxy_health.py`, its scheduler | store: health state, parked record and pin per proxy/account; upstream: the proxy of each account; memory: `_operation_lock` | probe tick, rebalance (automatic, manual, dry run), pin, unpin, clearing of a deleted proxy | accounts leave dead proxies and come back; an account the sidecar made direct is remembered; an account direct by choice stays so; verdicts have hysteresis; alerts follow verdicts |
| **Account health** `services/account_health.py`, its scheduler | store: health state and eviction record per account; upstream: `schedulable`; `_operation_lock` | reconciliation, manual evict and rejoin | bad accounts are evicted, well ones return, pauses made by people are respected, alerts follow |
| **Credit control** `services/credit_control.py`, `credit_scheduler.py` | store: policies (with `next_run_at`), runs with a unique occurrence key, audit records; upstream: balances | tick (two threads), run now, manual adjustment, save, delete, preview | an occurrence is paid at most once, none is passed over unless it was broken off, policies go on |
| **Group rotation** `services/rotation.py`, its scheduler | store: pools, assignments, runs; upstream: the groups of users, keys and accounts | automatic run, manual move, first assignment, migration of a group, routing of a key, rollback, pools, transfer of keys | keys stay usable, a user keeps to one group per platform, records catch up with upstream, a rollback restores; groups that cannot serve are emptied, runs settle |
| **OAuth provisioning** `services/provisioning.py` | store: flows; upstream: groups, accounts, OAuth sessions | start, API key account, paste-back, retries | nothing is created twice, codes do not cross, accounts keep what they have |
| **API key automation** `services/api_key_automation.py` | upstream: keys | create a key for the owner of an address | keys reach whom they are named after |
| **Operational data, segmentation, group usage** `services/operational_data.py`, `usage_segmentation.py`, `group_usage.py` | store: snapshots, samples and derived views | collect, derive, refresh before a mutation, clean-up by age and size | a mutation acts on fresh data; a clean-up leaves what readers need |
| **Notifications** `services/notification*.py` | store: samples, rule states per scope, delivery records | collect, evaluate, deliver with retries | sustained breaches and recoveries reach the receiver, blips do not |
| **Administrators' sessions** `auth.py` | memory and store: login keys, API tokens | login, token, logout, check, purge | revoked keys are refused, others accepted, one token each |
| **Startup and schedulers** `main.py`, `services/*_scheduler.py` | `warmup_completed` event, scheduler threads | lifespan start and stop, ticks | no gated scheduler acts on data that has not been loaded; everything stops |
| **Upstream client** `clients/sub2api.py` | memory: caches of usage rows | calls; crawl of paged lists | a finished day is read exactly |
| **Metric collectors, store, configuration, dashboards, web frontend, scripts** | | | see `PROJECT.json` |

How they interact: the schedulers are daemon threads of the one process, started
by `lifespan`; HTTP handlers run on a thread pool and call the same services; all
of them share the store and the upstream client. Proxy health and account health
each have one lock around whole operations. Credit control has none and relies on
a unique index; rotation, provisioning, key delivery, collection, alerting and
sessions have none at all. Proxy and account health hand metric samples to the
notification rules through the store; rotation plans from the snapshots of the
operational data and provisioning puts new users into rotation's landing pool.

The hazards this structure brings, each at its line, are listed under `hazards`
in `PROJECT.json` with the properties that cover them.

## 2. Modules

    ProxyPlacement           the even split, as functions
      Placements             rebalances from every placement       <- PlacementProofs
      ProxyRebalance         rebalances, pins and the parked set   <- ProxyRebalanceProofs
    ProxyProbe               verdicts, samples, deleted proxies
      ProxyHealth            both under the one lock               <- ProxyHealthProofs
    AccountHealth            eviction and rejoining of accounts    <- AccountHealthProofs
    GroupRotation            every operation on users' groups      <- GroupRotationProofs
    Background               what schedulers run, side by side     <- BackgroundProofs
      CreditControl          recharge policies and adjustments     <- CreditControlProofs
      ProxyProbe, Placements (above)
      RotationPlan           what automatic rotations decide
      UsageCrawl             one day of usage rows, page by page
    Services                 what requests run, side by side       <- ServicesProofs
      Sessions               login keys and API tokens
      OperationalData        snapshots, views and mutations
      DataRetention          the clean-up of snapshots and samples
      KeyDelivery            keys named after their owners
      Provisioning           flows, groups, accounts, OAuth codes
      Notification           one alerting rule and its receiver
      Schedulers             startup, gate, ticks, shutdown

`MC*.tla` gives the constants values; `map` in `PROJECT.json` gives the lines of
the source that each definition models. **Background** and **Services** put
components that share nothing into one state space: `Init` chooses the component
that a behaviour is about (`subject`) and the others rest, so that the state space
is the sum of theirs, and one run and one set of theorems speak of all of them.
`MCLive` does the same for the components with a liveness property of their own.

**ProxyPlacement** is the arithmetic of `_rebalance_locked` (lines 581-697):
pinned accounts first, caps from `divmod` handed out to the fullest proxies
first and floored at the pinned counts, surplus and homeless accounts into free
slots. It is a pure function from where accounts are to the moves planned.
**Placements** applies it, once or twice, to any placement of the accounts, any set
of eligible proxies and any pins, so that what it promises can be stated.

**ProxyRebalance** is one rebalance or pin, call by call. Its `pc` says which call
comes next; `seenProxies` and `seenParked` are what the run read at its beginning
and goes on using. A move to a direct connection is `BeginMove` (the parked record
is stored), `ApplyMove` (upstream), and for the way back `Unpark`. Each call has
the outcomes *done*, *failed* and *done, but the answer is lost*
(`MoveAnswerLost`); `Crash` cuts in anywhere. Operators edit accounts and proxies
upstream at any moment. Verdicts change by `ProbeVerdicts`, an abstraction of the
probe tick that is shown to be right by the composition.

**ProxyProbe** is `_probe_once_locked` and `clear_proxy_state`: every listed proxy
is observed, its new state is computed from test, latency and quality check, then
states are stored one by one, states of vanished proxies deleted, and all samples
stored by one call that may fail. Deleting a proxy through the panel is two steps,
upstream and then `ClearState` under the lock.

**ProxyHealth** puts the two together: ticks, the rebalance a tick finds due
(`_run` re-enters through `rebalance` under the same re-entrant lock), manual
operations, deletions. `Rebalance == INSTANCE ProxyRebalance WITH dead <- ...`
is the refinement mapping, and `RebalanceSpec` the property that the whole
implements `ProxyRebalance`, from which it inherits what is proved there.

**AccountHealth** is `_reconcile_locked`, `_apply_schedulable` and
`_manual_toggle`. A reconciliation lists all accounts (`seen`), then handles them
one by one: read the state, adopt half-executed evictions (`Adopted`), judge
(`Judged`), decide, call upstream, store. The availability parser of the client
is part of the model where it matters: our own pause hides `available = false`
(`Bad`). `failures`, chosen at the beginning and never changed, says what may go
wrong in a behaviour, so that one run can check properties that hold only while,
say, nothing crashes.

**CreditControl** has one `pc` per thread: the scheduler's, the one that ticks
during startup before the scheduler's thread exists, and the operators'. Time is
counted in occurrences of the schedule: `clock = n` when the instant of occurrence
n has passed. A thread reads the policy into `mem`, goes through its due
occurrences (`Look`), inserts the placeholder run (`Claim`, which the unique index
may refuse), resolves the users, credits them one at a time, stores the run and
then the whole policy as it had read it, advanced. Interval policies resolve their
users first and are executed once a tick (`Scan`). The limit of 100 occurrences
per tick only ends a tick early and is left out; so are amounts, filters and the
audit trail.

**RotationPlan** is the decision of `run_auto_rotation`: capacity and load of the
groups, who has to leave (`Evacuated`), the order of the candidates, the
imbalance and improvement tests. A run looks at one user per step (`PlaceNewcomer`,
`Balance`), each seeing the loads that the earlier ones left, as in the code; another
run may follow it. Shares are compared after multiplying out, so that nothing is
rounded.

**GroupRotation** is everything that changes a user's groups, one upstream or
store call per action, in a record per thread (`thread[t]`): refresh, sync of the
assignments with what upstream says, the choice of a row (`Pick` takes any group
that `RotationPlan` may take), `Replace` (upstream's replace-group, which moves
the keys with the user), `ReadGrants` and `Grant` (read, modify, write of
`allowed_groups`), `ListKeys` and `MoveKey`, `ReadAccount` and `Bind`, `Store`.
Automatic runs, manual moves, first assignments, migrations, key routing and
rollbacks are different paths through these actions, as in the code. Which
operations run in a behaviour is its `load`; every thread may carry out any of them
at any time. Nothing in the code keeps the operations apart, and where two of them
meet on one user it breaks (section 4). So each step that changes something upstream
notes in `crossed` the users, keys and accounts that some other thread has read and
still goes by (`Moves`, `Relies`, `Routes`, `Binds`), `routed` the keys that operators
have routed, and `strayed` the users that a rollback finds where it does not expect
them. The properties except these, by name, and nothing else: that two operations
overlap is no exception.

**KeyDelivery** is `ApiKeyAutomationService` and `transfer_admin_api_keys`: both
read users, groups and keys first and act on what they have read; operators edit
upstream meanwhile, and a search for an address also finds similar ones.

**Provisioning** is `ProvisioningService`: `start_flow`, the API-key way, the
OAuth way with the pasted code, and the reuse of groups and accounts that a
retried flow finds.

**OperationalData** keeps, for every snapshot, the moment its collection began
(`observed`, which the program stores) and the moment upstream was read (`read`,
which it does not know). Bases are fetched all at once, derived sources after
them, then each is saved; the view is derived by another scheduler; a mutation
refreshes, reads back and acts.

**DataRetention** is what becomes of those rows: `cleanup_operational_data`, in one
transaction, deletes by age and then the oldest rows one by one until the rest fits,
sparing the newest of every source and metric (`Protected`). What a transaction has
deleted is in `gone` until it commits; other ticks store rows and clean up meanwhile.
Rows are all of one size, and operators may set either limit at any time.

**UsageCrawl** is `list_usage_logs`: waves of pages, the incremental crawl of the
current day down to the newest cached row, the cache of finished days, and rows
that arrive in front while all this goes on. Rows are numbered in the order they
appear, so that a page is told by the length the listing had when it was read, and
what a crawl has merged is a function of those lengths. Two history variables
remember that a wave was shifted by a new row (`shifted`) and that rows were cached
with a newer one below the first (`lapped`, section 4).

**Notification** is one rule with a threshold, `for_minutes` and a cooldown, and one
receiver: collect, read the latest samples, decide per scope, store the state,
deliver with retries. Times are ages that stop growing where they no longer
matter.

**Sessions** is `EphemeralAdminAuthManager`: the memory, the store, the key that a
caller receives after both were written, revocation in both, expiry, restarts.

**Schedulers** is `lifespan`, the warm-up thread, the loops of the seven scheduler
classes (one loop, with or without the gate) and the shutdown.

## 3. Runs

| Run | Bounds | Shows |
|---|---|---|
| `rebalance` | 2 proxies, 2 accounts, everything may fail | `ForcedIsParked`, `NeverProxiedNeverMoved`, `MoveTargetNotDead`, `PinsRespected` |
| `health` | 2 proxies, 1 account, thresholds 1, operators' edits of all kinds | `RebalanceSpec` |
| `health_live` | the same without operators | `DeadProxiesAreLeft`, `ParkedReturn` |
| `account` | 1 account, thresholds 2, with and without crashes, both kinds of faults; administrators pause, resume, disable and delete | `OwnPauseIsKnown`, `StoredManualEvictionStays`, `EvictionsSettle` |
| `rotation` | 1 user, 1 key, 1 account; groups `g1`, `g2`, the landing group `l1` on one platform, `q1` on another; 2 threads; four loads: operators' assignments, migrations, routed keys and moves; automatic runs with rollbacks; with rollbacks and moves; with runs scoped to a platform. 2 requests and 1 crash, but no crash where runs, rollbacks and moves meet, and 1 request where there are runs only | `NoKeyOrphaned`, `RollbackRestores`, `RoutesAreKept`, `OneGroupPerPlatform` |
| `rotation_live` | the same with 1 thread, 1 request, 1 crash and a flow of an earlier version; runs again and again, next to an assignment or a change of the pools | `UsersSettle` |
| `live` | `Schedulers`: a gated one, one that ticks at its start, one plain; 2 refreshes | `RunAndStop` |
| | `CreditControl`: every kind of policy, 1 user, 3 occurrences, no operator | `PolicyAdvances` |
| | `Notification`: 1 scope, `for_minutes` 2, cooldown 2, expiry 1, 2 attempts, 2 failures | `ReceiverCatchesUp` |
| | `ProxyProbe`: 1 proxy, thresholds 2 | `AlertFollowsVerdict` |
| `background` | `CreditControl`: every kind, 1 user, 1 operator, 2 occurrences, 1 request | `AtMostOnce`, `CreditsSettle` |
| | `ProxyProbe`: 2 proxies, thresholds 2 | `ClearedStaysCleared`, `Hysteresis` |
| | `Placements`: 4 accounts, 3 proxies, every start, every eligible set, up to 2 pins | `PlacedEvenly` (with the fewest moves of all even placements) |
| | `RotationPlan`: 3 groups and 3 users (numbered by rising readings and falling usage), the first user protected or nobody, every usage up to 2, reading and start, evacuation on, 1 run | `EvacuationEmpties`, `RunsSettle` |
| | `UsageCrawl`: 2 readers, pages of 2, waves of 2, at most 3 items, 3 rows | `OnlyWavesLose`, `ClosedDaysAreExact` |
| `services` | all of `Services`: 2 threads | `TypesOK` |
| | `Sessions`: 2 administrators, 4 requests | `KeysAreJudgedRight`, `OneTokenEach` |
| | `OperationalData`: 3 collections | `MutationsReadFresh` |
| | `DataRetention`: 1 source, 1 metric with 2 scopes, room for 2 rows, 3 collections | `ReadersKeepTheLatest` |
| | `KeyDelivery`: 4 users of whom two share an address, 3 groups, 2 keys, 2 requests, 1 edit | `KeysReachTheirNames`, `QuotaResetOnce` |
| | `Provisioning`: 2 addresses, 2 platforms, 3 requests | `RetriesReuse`, `AccountsBelong`, `AccountsKeepWhatTheyHave` |
| | `Notification`: 1 scope, `for_minutes` 2, cooldown 2, expiry 1, 2 attempts, 1 failure | `SustainedOnly` |
| | `Schedulers`: as in `live` | `GateHolds` |
| `health_pinned` | as `health_live` | violation: `PinnedReturnHome` |
| `credit_stuck` | interval policy, crashes only | violation: `IntervalAdvances` |
| `crawl_lossy` | 1 thread, pages of 1, waves of 2, 4 rows | violation: `WavesLoseNothing` |

The types are `TypesOK` of `services`, part of `ClosedDaysAreExact`, or proved only.

*Why the bounds are enough.* The placement needs more accounts than proxies, a
remainder, and pins: 4 over 3 has all of them. A rebalance is a sequence of independent
moves, and what could go wrong between two moves needs two accounts, what could go wrong
with the target two proxies. Thresholds of 2 are the smallest that tell "twice in a row"
from "twice". Accounts meet in the account reconciler only in the order in which they
are handled; the staleness of the listing comes about with one. Two ticking threads and
one operator are every kind of pair of threads; three occurrences have a first, a middle
and a last one. Operations of the rotation meet in what they know of one user: two of
them on one user, one after the other or side by side, with a group to come from, one to
go to, a landing group and another platform, is the case; other users only share the
pools. A third one (two rollbacks of a run and a move), automatic runs next to
assignments, migrations and routed keys, and any number of crashes are left to the
proofs. A plan needs a group to leave and two to choose between, and users
enough to put one of them too many into a group. Two pages of two rows with a third that
arrives have a wave that is shifted, and a limit of three cuts a page. Four session
requests are two keys, a revocation and a check. Room for two rows, where two keys have
a newest one each, makes every clean-up delete all it may. Alerting scopes never meet;
`for_minutes` and the cooldown of 2 have a before, a during and an after.

*Bounds on counters.* Account-health and proxy counters stop at their threshold (more is
never looked at; `streak` too). `clock` of `CreditControl` stops at `Last`, which is at
the same time the end of the schedule; that of `OperationalData` at `MaxBegun`
collections. Requests and, where the module says so, crashes are bounded by
`MaxRequests` and `MaxCrashes` (in `GroupRotation` for each load), the collections of
`DataRetention` by `MaxBegun`, operators' edits by `MaxEdits`, failures of the alerting
by `MaxFailures`, the length of an evaluation by `MaxLag`, the rows of a day by
`MaxRows`. The ages of `Notification` stop where they are past every limit they are
compared with.

*Fairness.* Every scheduler loop catches what a tick raises and ticks again
(`_run`, `_tick_once`), every upstream call has a timeout, so an operation that has
begun goes on: weak fairness. That a call which is made again and again succeeds
some day is strong fairness of the successful outcome; for the rotation these are
the refresh, the sync and the replace-group of the automatic run, and the choice
of a group for a newcomer who may be placed again and again. Crashes and requests
of people have to stop some day, or nothing could be promised: they are bounded,
or `<>[][~...]_vars` says so. A crash at the last step of an operation can look
exactly like that operation giving up (nothing changes but the lock), so what stops
is `CrashMidway`: a crash that is not also such a step. Faults of proxies and
accounts never have to stop. No fairness is assumed of operators, administrators
and faults.

## 4. What is not so

Three runs show a property that the sources promise and the code does not keep; they
are the `findings` of `PROJECT.json`.

- `PinnedReturnHome`: recovery triggers a rebalance once, on the tick of the
  transition. When the move home fails in that rebalance nothing is dead or parked
  any more, so no later tick is due, and the account stays away until an operator
  rebalances by hand.
- `IntervalAdvances`: after a crash between the placeholder and the advance, an
  interval policy finds the placeholder at every scan, returns it, and never moves.
- `WavesLoseNothing`: pages of a wave are answered in any order while rows arrive in
  front; a row that moves from a page answered late to one answered earlier is in
  neither. A comment (`clients/sub2api.py:667-668`) calls the merged result the same
  as that of a sequential crawl, which may repeat rows but loses none.

Met on the way, and not kept as runs. The properties are stated so that they hold
next to these; their comments say which restriction is meant.

*Proxy health.* A parked record outlives a fallback move that failed; if an operator
makes the account direct before the next rebalance sees it on a proxy, that
rebalance takes it for a parked one (`proxy_health.py:547-553`). With pins beyond a
proxy's share the caps of the others are not lowered, and the survivors can be
uneven (`:659`). The sample that ends the alert of a vanished proxy or account is
lost for good when it cannot be saved, since the state it comes from is deleted
first (`proxy_health.py:384`, `account_health.py:244`).

*Account health.* Failures are counted while an administrator has paused an account, so
the first good tick after it is resumed evicts it (`account_health.py:156`, where the
docstring at `:31` speaks of unhealthy accounts). A crash between an eviction call and
the storing of the state leaves an account that counts as paused by an administrator; an
eviction record that survived an administrator's resume claims the next pause; the lost
answer of a manual eviction makes it an automatic one; an account that an administrator
resumes while its fault is still there, or whose rejoin was carried out without an
answer, stays on record as evicted (`account_health.py:138-139` clears the attempt only)
and is not evicted a second time (`:186`) until it has been well: it goes on serving
with its fault, and `EvictionsSettle` excepts it by that record and promises that the
record goes when the account is well; that of an operator's eviction, resumed upstream
and not through the sidecar, never goes by itself; an account with `available = false`
is rejoined with the fault still there, as its eviction hides it.

*Credit control.* An occurrence of a recurring policy whose execution is broken off
behind its placeholder, by a crash or because an explicit target does not exist
(`credit_control.py:574`), is never executed: the next tick finds the run, advances
the policy past it (`:403-404`), and the run stays `planned`, where
`openspec/specs/credit-control/spec.md:140-142` wants the overdue occurrence credited
and marked completed or failed. The history variable `broken` names these occurrences and
`CreditsSettle` excepts them. A run by an operator moves a policy past an overdue occurrence
(`credit_control.py:1042`). A run stores the policy as it had read it before the
users were credited, and overwrites an operator's disabling in between (`:1045`,
`openspec/specs/credit-control/spec.md:147`). A manual adjustment that crashes
leaves changed balances and no record (`:226`). An explicit target who does not exist
aborts the tick, for the policies behind it too (`:574`).

*Group rotation.* Operations are not kept apart: two concurrent read-modify-writes of
`allowed_groups` lose one (`clients/sub2api.py:354`), which leaves keys in a group
their owner is not authorised for; two first assignments, or an assignment next to a
migration, give a user two groups; a key that an operator routes while its owner is
being moved is moved by what was read of it before; two rollbacks of one run both act
(`rotation.py:2326`, `2361`). One after the other, too, a second group comes about in
two ways: a key routed by hand makes its owner a candidate of the migration of that
group, which authorises it without looking at what the owner has (`:861`, `~748`); and
a rollback does not look where its users are now (`:2328`), so that one who was moved
on after the run gets the run's source next to the group it is in, should upstream
carry out the replacement of a group that the user does not have (the model leaves
open whether it does; nothing in the code counts on its refusal). Both contradict "a user
holds at most one dedicated group ... per platform"
(`openspec/specs/group-rotation/spec.md:9`, `README.md:87`); `OneGroupPerPlatform`
excepts the users concerned by the histories `crossed`, `routed` and `strayed`.
A replace-group whose answer is lost is recorded as failed. A pool group that
cannot serve has load 0 and attracts moves that all fail. A group without a reading
gets the full weight of 100, where a comment says that "a missing reading must never
read as wide open" (`~2828`); the loads a run starts with count the protected users,
whom a docstring leaves out (`_initial_pool_group_loads`).

*Provisioning and keys.* A flow that is completed becomes failed when the code is pasted
a second time (`provisioning.py:411`). An OAuth start over an API-key account of the
same name changes its type (`970-1010`). Overlapping starts create two groups or lose a
binding; so is a binding lost that the rotation or an operator makes between the reading
of an account and the PUT that replaces its groups (`clients/sub2api.py:1193-1197`).
Creation of an API-key account is not idempotent; overlapping transfers reset a quota
twice; a key whose group cannot be read is routed by the operator's hint
(`rotation.py:1536`).

*Sessions.* Overlapping token creations leave two tokens (`auth.py:81-94`);
`_purge_expired_sessions` iterates over a dict that other threads change (`181`).

*Operational data.* A derived view can be stored from older snapshots than the view
it replaces (`operational_data.py:571`, `stores/postgres.py:1596`). The size clean-up
keeps the newest sample per metric and not per scope, so that an alert's scope may be
left without one (`postgres.py:1313`); when collections overlap, a late row may become
the latest of a scope whose later one was just cleaned up.

*Usage rows.* When more rows arrive during a crawl than it has read, an incremental
crawl that began later can be overtaken: it caches rows below whose first there is a
newer one, and the next crawl takes that first one for the newest. The comment that
"everything above the watermark is new" (`clients/sub2api.py:744`) is then untrue and
rows are left out. The history variable `lapped` excludes just this from
`OnlyWavesLose`. With pages of one row it takes 4 or 5 rows; within the bounds of the
`background` run it does not happen, so that there the property says as much as
without it. Answers for closed days are not affected (`ClosedDaysAreExact`).

*Notifications.* A recovery whose delivery failed, or which was stored when the process
died before the delivery, is not repeated; a scope whose
last sample expired stays firing (`notification.py:291`); the beginning of a breach
survives a time without data; overlapping evaluations alert twice.

*Startup.* The gate opens even when the warm-up refresh failed; the credit scheduler
does its first tick inside the startup (`credit_scheduler.py:48-67`), where a comment
(`main.py:234-239`) wants startup not to wait.

## 5. Proofs

Everything below is checked by `tlapm` for every value of the constants that
satisfies the named assumption of the module (`RebalanceAssumption`,
`ProbeAssumption`, `AccountHealthAssumption`, `CreditAssumption`,
`GroupRotationAssumption`, `ListingsAssumption`, and `BackgroundAssumption` and
`ServicesAssumption`, which collect those of the components): orders enumerate their
sets, numbers are natural, names are different, what is there at the beginning fits
together. Every failure, crash and interleaving of the modules is allowed in the
proofs, and no theorem has a hypothesis besides; where the property itself speaks of
some behaviours only, the table names them. The invariants were checked with TLC first.

| Module | Theorem | States | Besides |
|---|---|---|---|
| `ProxyRebalanceProofs` | `ParkingCrashSafe` | `ForcedIsParked` | |
| | `NeverProxiedSafe` | `NeverProxiedNeverMoved` | |
| | `MovesAvoidDead` | `MoveTargetNotDead` | |
| | `PinsAreRespected` | `PinsRespected` | |
| `ProxyHealthProofs` | `LockSerialises` | `RebalanceSpec`: refinement of `ProxyRebalance` | |
| | `ProbesUndisturbed` | refinement of `ProxyProbe` | |
| `AccountHealthProofs` | `OwnPausesAreKnown` | `OwnPauseIsKnown` | while nothing crashes (in the property) |
| | `ManualEvictionsStay` | `StoredManualEvictionStays` | |
| `GroupRotationProofs` | `KeysStayAuthorised` | `NoKeyOrphaned` | users whose grants did not change under an operation that had read them, keys never routed by hand (in the property) |
| | `RoutesStayOnPlatform` | `RoutesAreKept` | keys and accounts that did not change under an operation that had read them, keys not routed unseen (in the property) |
| | `UsersStayDedicated` | `OneGroupPerPlatform` | users not moved under an operation that was to move them, with no key routed by hand, not strayed from a rollback (in the property) |
| | `RollbacksRestore` | `RollbackRestores` | users that nobody else touched (in the property) |
| `CreditControlProofs` | `RechargedAtMostOnce` | `AtMostOnce` | |
| | `CreditsDoSettle` | `CreditsSettle`: credits are on record, no occurrence is skipped | the second while operators have not touched the policy, and except occurrences broken off behind their placeholder (in the property) |
| `BackgroundProofs` | `ClearedForGood` | `ClearedStaysCleared` | |
| | `HysteresisHolds` | `Hysteresis` | |
| | `RebalancesPlaceEvenly` | `PlacedEvenly` | evenness: pins within the share; fewest moves: no pins (in the property) |
| | `RunsEvacuate` | `EvacuationEmpties` | the groups left can serve (in the property) |
| | `RunsDoSettle` | `RunsSettle` | nobody to place or to evacuate (in the property) |
| | `OnlyShiftsLose` | `OnlyWavesLose` | |
| | `SettledDaysAreExact` | `ClosedDaysAreExact` | |
| `ServicesProofs` | `ServicesAreTyped` | `TypesOK` | |
| | `ServicesJudgeKeysRight` | `KeysAreJudgedRight` | |
| | `ServicesKeepOneToken` | `OneTokenEach` | requests do not overlap |
| | `ServicesMutateFresh` | `MutationsReadFresh` | |
| | `ServicesKeepTheLatest` | `ReadersKeepTheLatest` | rows of the key stored in order (in the property) |
| | `ServicesDeliverKeys` | `KeysReachTheirNames` | parts of it: no overlap, no edit |
| | `ServicesResetOnce` | `QuotaResetOnce` | transfers do not overlap |
| | `ServicesKeepAccountsApart` | `AccountsBelong` | |
| | `ServicesReuse` | `RetriesReuse` | flows do not overlap |
| | `ServicesTakeNothing` | `AccountsKeepWhatTheyHave` | flows do not overlap; nobody else changes accounts |
| | `ServicesReportBreaches` | `SustainedOnly` | evaluations do not overlap |
| | `ServicesKeepTheGate` | `GateHolds` | |

These are all the safety properties that the passing runs check. The proofs of
`ProxyRebalance`, `AccountHealth` and `CreditControl` also have `TypeCorrect`. "Do not
overlap" is the antecedent `~overlapped` of the property, a history variable that the
module sets when two operations are under way: the code has no lock there, and section 4
says what happens otherwise. Most proofs are by an inductive invariant, one step per
action.

In `BackgroundProofs` and `ServicesProofs` a theorem about the composition rests on two
lemmas: a step of the composition is a step of the component that the behaviour is about,
or leaves its variables alone, and that component stays the same.

**ProxyRebalanceProofs.** `ForcedIsParked` is not inductive: that an account which the
sidecar made direct has a parked record depends on the record being stored before the
call, on a run dropping only records of accounts it has seen on a proxy, and on the move
in progress. The invariant `IInv` adds what is known of the run at each `pc`: what it
has seen, that planned moves come from accounts it may move, and that the target of a
move was alive when the run began and no verdict changes while the lock is held.
`PinsRespected` needs of it only that nothing is planned before: a plan sends a pinned
account to its proxy, and neither the surplus nor the homeless accounts have a pinned
one among them.

**ProxyHealthProofs.** The last clause is an assumption of `ProxyRebalance` about its
environment (`ProbeVerdicts` happens between runs only), and this is where it is
discharged. `LockInv` says who holds `_operation_lock`: a tick, the rebalance that the
tick has found due, or an operator's operation, never two of them. Under it every step
of the composition is a step of `ProxyRebalance` or leaves its variables alone, and
likewise for `ProxyProbe`; so all that is proved of the two holds of the service.

**AccountHealthProofs.** The invariant ties the pause upstream, the record in memory of
the operation and the stored state together at each `pc`.

**CreditControlProofs.** A ticking thread that pays has itself inserted the run of the
occurrence, and two ticking threads that pay have different occurrences (`Claimed`);
keys of operators' runs are new, different and beyond the schedule (`KeysBounded`,
`KeysApart`); what a thread has still to credit has not been credited, nor has an
occurrence without a run (`Unpaid`, from which `CreditsAreRecorded` follows). That
none is skipped is an argument about copies: the stored policy and what each tick has
read of it are all next due at an occurrence before which every one has a run
(`Behind`), and a tick advances its copy only past an occurrence that has one, so that
it does not matter which of the two threads stores the policy last. A run that is still
a placeholder is in some thread's hand or was broken off (`Accounted`). An operator's run
advances the policy from now and breaks this; the property speaks of policies that no
operator has touched (`wanted = "untouched"`).

**GroupRotationProofs.** Any operations may run side by side; a step of one thread that
changes what another goes by puts the user, key or account on record in `crossed`, and
the invariants say that of all others what has been read still holds when it is used.
For `NoKeyOrphaned` this is `KInv`: the grants a thread is about to put back contain
those the user has, and the group that it moves keys to is one of them (`Follows`); a
step of another thread leaves them alone or is noted (`Spares`). For `RoutesAreKept` it
is `AllKnown`, of the groups of keys and the bindings of accounts. For
`OneGroupPerPlatform` it is two invariants. `DInv` says that what one operation has
still to move are different users or different platforms, so that it never gets in its
own way (`Neat`). `SInv` says of every `Clean` user that it has one group per platform
and that what each thread has seen of it is still so (`Sees`): what was collected at the
check, that its platform is empty from the check to the grant, and that the group to be
replaced is there, or none but the new one, at the replace-group and in the rows of a
rollback (`Fits`). For `RollbackRestores`,
`RInv` says, as long as `untouched`, that the record of the run names each user and
platform once, that the user is in the one group or the other, that until the run is
recorded nothing else is at work (`Alone`), and where each thread at work on the record
stands, which is enough for any number of rollbacks that overlap or crash.

**PlacementProofs** shows what the even split computes, for all sets of accounts and
proxies, and without induction. `ProxyPlacement` hands out seats: a seat is a proxy and
a number up to its cap, so that a sum over proxies is the size of a set of seats. Sizes
are compared by two maps: a set and the ranks of its elements have as many
(`Ranked`), and so have a set and the seats that its parts would fill (`Fibres`). From
these follow that caps add up to the accounts, that the free seats are as many as the
pool, hence that everybody is placed; and, for the fewest moves, that an even placement
can leave no more accounts where they are than the caps do, as the larger caps go to the
fuller proxies.

**BackgroundProofs**

- *Probe.* No tick brings back what a deletion cleared, since a tick under the lock
  carries only proxies it has listed; a counter is never more than the equal observations
  in a row that were really made, so a verdict that changes had as many as its threshold
  says, crashes between tick and store included.
- *Placements.* Only that the inputs stay what they are is remembered; a rebalance keeps
  its promises from any placement.
- *Rotation plan.* `RotationInv`: the loads the run counts with are those of the seating
  as it is, and whoever it has looked at has a place that can serve. `DisorderDrops`: a
  voluntary move makes the sum of the distances from the shares less, or, with equal
  shares, the sum of the squares of the loads; for this a sum is shown to differ only in
  the two groups of the move (sums, too, are sizes of sets here). A run that had nobody to
  place or to evacuate therefore ends where it began or tidier (`RunsSettle`), which is why
  runs cannot undo each other for ever.
- *Crawl.* `CrawlInv` says of each reader which pages it has, and how long the listing was
  at each: pages before the wave were full (`InWave`), those of an incremental crawl show
  listings that grew and end above the cached rows (`InSplice`). As long as nothing was
  shifted or lapped, answers and caches are `Whole`: from the newest row down in steps of
  one at most, to the oldest unless the limit cut it. That a row between two others is
  then met (`NoGap`) is by the least position below it. A closed day grows no more, so all
  its pages are of one listing and its rows are exact.

**ServicesProofs**, component by component:

- *Schedulers.* The gate is open only when the warm-up has ended, and the warm-up
  begins when every scheduler has been started; a gated scheduler that is past its gate
  has found it open.
- *Sessions.* A revoked session is neither stored nor, unless it is a token's, in the
  memory (`RevokedIsGone`), and what callers were given is in one of the two
  (`GivenIsKept`); a request that is being judged has read one or the other. While
  requests do not overlap at most one thread is busy, stored tokens belong to different
  administrators, and from the revocation of the earlier ones to the end of the request
  its administrator has none stored (`Alone`).
- *OperationalData.* What a mutation reads back was collected after the mutation began,
  whoever else stores snapshots meanwhile, because the latest snapshot of a source only
  ever gets a later `observed`.
- *DataRetention.* `TopIsKept`: of a key that lost nothing to the retention, the newest
  row of all is stored and in nobody's transaction. A clean-up spares the newest row *it
  sees*, which could be another one when a second clean-up has deleted the first; that
  it is not needs the newest to be unique, so that no collection stores under a moment
  that its key has been stored at already (`StoredOnce`). `OldestFirst`: what a
  transaction deletes of a scope is older than what it leaves, so a commit, which takes
  it all away at once, cannot uncover an older row.
- *KeyDelivery.* The name of a key and what a thread has read of it belong together
  (`NamesKept`), the groups it chose from were granted (`GrantsKept`, unless there was
  an edit), and a key whose quota was reset is with a user it is named after
  (`ResetIsDelivered`), so a repeated transfer no longer lists it.
- *Provisioning.* A code is looked up with the flow it was issued for and used for the
  address of that flow (`Starting`, `Completing`); a request writes only to groups and
  accounts of its platform, even when it has to find the platform by its group
  (`OnPlatform`). While flows do not overlap, what a request has found missing is
  missing, and what it puts back is what is there (`UpToDate`).
- *Notification.* A breach that is stored began after the last good evaluation of its
  scope, and one that fires has lasted, counted from the evaluation that is under way
  (`BreachSince`, `LongEnough`).

- *Types.* The invariants above hold types as far as they are needed; `TypesOK` says more,
  and needs more of what is under way. A counter of resets is bounded by counting: the
  resets of a key and the transfers that may still hand it over are requests, all of them
  (`Movers`). A flow that is stored as completed names an account that exists, since the
  request that stores it found or made it (`Equipped`, `FlowsComplete`). An evaluation
  that delivers has something to say (`Speaks`), and clean-ups, collections and callers
  hold only rows, moments and keys that there are.

*Model-checked only*: liveness under fairness (`DeadProxiesAreLeft`, `ParkedReturn`,
`EvictionsSettle`, `UsersSettle`, `RunAndStop`, `PolicyAdvances`, `ReceiverCatchesUp`,
`AlertFollowsVerdict`), for which the provers have no rule. The three violations are
counterexamples, which TLC finds.

## 6. Not modelled

- Effects that reach upstream after the caller has timed out and gone on; two processes
  at once (the deployment runs one worker).
- The HTTP layer, SQL, parsing and formatting, except where a property depends on what
  they do; cadences of the schedulers.
- Rotation: groups without a platform and inactive ones, previews and dry runs, records
  of manual runs, all but the last automatic run; the cooldown between moves in
  `RotationPlan`. `auto_assign_new_users` switched off is the same as an empty landing
  pool.
- Provisioning: writers of accounts and groups other than flows (a binding that the
  rotation or an operator adds while a flow is at work is lost, section 4; the overlap
  of bindings is modelled in `GroupRotation`), accounts without a platform, the
  scheduled test plan, the trail of events, named upstreams, which share snapshots and
  assignments (`main.py:421-431`).
- Notifications: aggregate rules, several receivers, texts.
- Operational data: what the views compute (`usage_segmentation.py`, `group_usage.py`)
  and the source status. That the view is derived is part of the model, no property is
  stated of it (section 4).
- Metric collectors, the store's SQL, configuration, dashboards, the web frontend and
  the demo scripts, which are read-only or carry no state of their own.

## 7. What is left to do

1. Segments and group usage: the windows and the arithmetic, as functions.
2. Aggregate rules, and more than one receiver, in `Notification`.
3. Rotation: the cooldown between moves in `RotationPlan`.
