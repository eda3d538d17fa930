---------------------------- MODULE DataRetention ----------------------------
(***************************************************************************)
(* The rows that collections leave in the store (src/app/stores/postgres   *)
(* .py) and the clean-up that follows a collection of the alerting ticks   *)
(* (NotificationService.refresh_samples).  A clean-up first deletes what is*)
(* older than the retention, then the oldest rows one by one until the rest*)
(* fits, all in one transaction; others collect and clean up meanwhile.    *)
(*                                                                         *)
(* Every row has the same size.  What a transaction has deleted is gone for*)
(* itself at once and for the others when it commits; until then nobody    *)
(* else can delete it.                                                     *)
(***************************************************************************)
EXTENDS Integers, FiniteSets

CONSTANTS
    Sources,     \* source_key of the snapshots
    NScopes,     \* the scopes of the one metric, in the order they are saved
    Threads,
    Retention,   \* retention_seconds, in collections
    MaxStored,   \* max_storage_mb, in rows
    MaxBegun     \* bound on the collections

Metric == "metric"

RetentionAssumption ==
    /\ Metric \notin Sources
    /\ NScopes \in Nat /\ Retention \in Nat /\ MaxStored \in Nat /\ MaxBegun \in Nat

VARIABLES
    begun,     \* counts the collections that have begun: the current moment
    rows,      \* the committed rows of both tables
    thread,
    \* History.
    newest,    \* the latest moment of each key that was ever stored
    aged,      \* keys of which a clean-up was to delete a row for its age
    late       \* keys of which a row was stored after one of a later collection

vars == <<begun, rows, thread, newest, aged, late>>

Keys == Sources \cup {Metric}
AllScopes == 1..NScopes
NoScope == 0
Never == 0
Row(key, scope, observed) == [key |-> key, scope |-> scope, observed |-> observed]
Idle == [pc |-> "idle", began |-> Never, cleans |-> FALSE, todo |-> {}, gone |-> {}]

TypeOK ==
    /\ begun \in 0..MaxBegun
    /\ \A r \in rows : /\ r.key \in Keys /\ r.scope \in AllScopes \cup {NoScope}
                        /\ r.observed \in 1..begun
    /\ \A t \in Threads : thread[t].gone \subseteq [key : Keys, scope : AllScopes \cup {NoScope},
                                                   observed : 1..begun]
    /\ DOMAIN newest = Keys /\ aged \subseteq Keys /\ late \subseteq Keys

Init ==
    /\ begun = 0 /\ rows = {}
    /\ thread = [t \in Threads |-> Idle]
    /\ newest = [k \in Keys |-> Never] /\ aged = {} /\ late = {}

-----------------------------------------------------------------------------
(* Collections.                                                            *)

At(t, pc) == thread[t].pc = pc
Become(t, local) == thread' = [thread EXCEPT ![t] = local]

Later(m, n) == IF m > n THEN m ELSE n

\* An alerting tick cleans up after its collection, the refresh of a mutation does not.
Begin(t, cleans) ==
    /\ At(t, "idle") /\ begun < MaxBegun
    /\ begun' = begun + 1
    /\ Become(t, [Idle EXCEPT !.pc = "collect", !.began = begun', !.cleans = cleans,
                              !.todo = Sources])
    /\ UNCHANGED <<rows, newest, aged, late>>

\* Rows are stored under the moment their collection began.
Store(k, new, moment) ==
    /\ rows' = rows \cup new
    /\ newest' = IF new = {} THEN newest ELSE [newest EXCEPT ![k] = Later(@, moment)]
    /\ late' = IF new = {} \/ newest[k] <= moment THEN late ELSE late \cup {k}

SaveSnapshot(t, s) ==
    /\ At(t, "collect") /\ s \in thread[t].todo
    /\ Store(s, {Row(s, NoScope, thread[t].began)}, thread[t].began)
    /\ Become(t, [thread[t] EXCEPT !.todo = @ \ {s}])
    /\ UNCHANGED <<begun, aged>>

\* The samples of a collection are stored together.  Sources that are not stored by now
\* have failed; scopes without a sample depended on them.
SaveSamples(t) ==
    /\ At(t, "collect")
    /\ \E S \in SUBSET AllScopes :
          Store(Metric, {Row(Metric, i, thread[t].began) : i \in S}, thread[t].began)
    /\ Become(t, IF thread[t].cleans THEN [thread[t] EXCEPT !.pc = "clean"] ELSE Idle)
    /\ UNCHANGED <<begun, aged>>

-----------------------------------------------------------------------------
(* The clean-up.                                                           *)

Others(t) == UNION {thread[u].gone : u \in Threads \ {t}}
Visible(t) == rows \ thread[t].gone
Size(S) == Cardinality(S)

Outdated(t) == {r \in Visible(t) : r.observed < thread[t].began - Retention}

\* What the operators have set at that moment: either limit, both or none.
DeleteByAge(t) ==
    /\ At(t, "clean")
    /\ \E byAge, bySize \in BOOLEAN :
          /\ byAge \/ bySize
          /\ LET out == IF byAge THEN Outdated(t) ELSE {}
             IN  /\ out \cap Others(t) = {}
                 /\ Become(t, [thread[t] EXCEPT !.gone = out,
                                  !.pc = IF bySize THEN "shrink" ELSE "commit"])
                 /\ aged' = aged \cup {r.key : r \in out}
    /\ UNCHANGED <<begun, rows, newest, late>>

NoLimits(t) ==
    /\ At(t, "clean")
    /\ Become(t, Idle)
    /\ UNCHANGED <<begun, rows, newest, aged, late>>

Before(r, s) == r.observed < s.observed \/ (r.observed = s.observed /\ r.scope < s.scope)

\* The newest row of each source and of each metric, whatever its scope.
Protected(S) == {r \in S : \A s \in S : s.key = r.key => ~Before(r, s)}

\* Mutation of Oldest: youngest first.
Youngest(S) == {r \in S : \A s \in S : s.observed <= r.observed}
Oldest(S) == {r \in S : \A s \in S : r.observed <= s.observed}

DeleteOldest(t) ==
    /\ At(t, "shrink")
    /\ LET seen == Visible(t)
       IN  /\ Size(seen) > MaxStored
           /\ \E r \in Oldest(seen \ Protected(seen)) \ Others(t) :
                 Become(t, [thread[t] EXCEPT !.gone = @ \cup {r}])
    /\ UNCHANGED <<begun, rows, newest, aged, late>>

Shrunk(t) ==
    /\ At(t, "shrink")
    /\ LET seen == Visible(t)
       IN  Size(seen) <= MaxStored \/ seen = Protected(seen)
    /\ Become(t, [thread[t] EXCEPT !.pc = "commit"])
    /\ UNCHANGED <<begun, rows, newest, aged, late>>

Commit(t) ==
    /\ At(t, "commit")
    /\ rows' = rows \ thread[t].gone
    /\ Become(t, Idle)
    /\ UNCHANGED <<begun, newest, aged, late>>

\* The database raises or the process dies: the transaction is rolled back.
Stops(t) ==
    /\ ~At(t, "idle")
    /\ Become(t, Idle)
    /\ UNCHANGED <<begun, rows, newest, aged, late>>

-----------------------------------------------------------------------------

Next ==
    \E t \in Threads :
        \/ \E cleans \in BOOLEAN : Begin(t, cleans)
        \/ \E s \in Sources : SaveSnapshot(t, s)
        \/ SaveSamples(t) \/ DeleteByAge(t) \/ NoLimits(t) \/ DeleteOldest(t) \/ Shrunk(t)
        \/ Commit(t) \/ Stops(t)

Spec == Init /\ [][Next]_vars

-----------------------------------------------------------------------------
(* Properties.                                                             *)

Stored(k) == {r \in rows : r.key = k}
Moments(k, scope) == {r.observed : r \in {r \in rows : r.key = k /\ r.scope = scope}}
Latest(k, scope) == {m \in Moments(k, scope) : \A n \in Moments(k, scope) : n <= m}

(***************************************************************************)
(* "size-based cleanup keeps the newest record for each source and each    *)
(* metric key" (openspec, simplify-operational-config, spec.md:31), though *)
(* collections overlap and two clean-ups run at once: a key that has lost  *)
(* nothing to the retention still has the latest of all its rows.          *)
(***************************************************************************)
NewestSurvives ==
    \A k \in Keys \ aged :
        newest[k] # Never => \E r \in Stored(k) : r.observed = newest[k]

(***************************************************************************)
(* What readers get as the latest snapshot of a source, or the latest      *)
(* sample of a scope, is never followed by an older one, as long as        *)
(* collections store in the order in which they began: a clean-up may leave*)
(* readers with nothing, but not with yesterday's.                         *)
(***************************************************************************)
GoesForward ==
    \A k \in Keys \ late', scope \in AllScopes \cup {NoScope} :
        \A m \in Latest(k, scope), n \in Latest(k, scope)' : n >= m
=============================================================================
