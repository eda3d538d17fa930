------------------------ MODULE GroupRotationProofs ------------------------
(***************************************************************************)
(* Proofs about GroupRotation, for every number of users, keys, groups,    *)
(* platforms, threads, requests and crashes:                               *)
(*  - no key is left in a group that its owner is not authorised for;      *)
(*  - keys stay on their platform, and accounts keep their bindings;       *)
(*  - a user with one group per platform keeps it that way;                *)
(*  - a rollback gives back just the groups that the run took.             *)
(* The first three except the users, keys and accounts that changed under  *)
(* an operation that had read them; any operations may run side by side.   *)
(***************************************************************************)
EXTENDS GroupRotation, FiniteSetTheorems, TLAPS

\* Operations that authorise a user for a further group, or move keys one by one.
Granting == {"assign", "migrate"}

-----------------------------------------------------------------------------
(* Types.                                                                  *)

Spots == Groups \cup {NoGroup}
Row == [user : Users, from : Spots, to : Spots]
KeyItem == [key : Keys, group : Spots]
Pcs == {"idle", "refresh", "check", "rows", "replace", "read", "grant", "list", "accounts", "bind",
        "store", "seen", "unseen"}
Ops == {"none", "auto", "manual", "assign", "migrate", "key", "rollback"}
\* From one group to another on the same platform.
Stays(x) == x.from \in Groups /\ x.to \in Groups /\ Platform[x.from] = Platform[x.to]
Move == {m \in Item : Stays(m)}
Local ==
    [op : Ops, pc : Pcs, user : Users \cup {NoOne}, key : Keys \cup {NoKey}, from : Spots,
     to : Spots, todo : SUBSET Row, read : SUBSET Groups, keys : SUBSET KeyItem,
     account : SUBSET Accounts, accounts : SUBSET Accounts, unassigned : BOOLEAN,
     moved : SUBSET Move, was : SUBSET Groups, owns : BOOLEAN, landing : SUBSET Groups]

\* Who is moved, and where to; a group is only replaced by one of its platform.
Well(l) ==
    /\ l.op \in {"manual", "assign", "key"} => l.user \in Users /\ l.to \in Groups
    /\ l.op = "manual" /\ l.pc \in {"refresh", "check"} => Stays(l)
    /\ l.op = "migrate" => Stays(l)
    /\ l.pc \in {"replace", "read", "grant", "list", "accounts", "bind", "store"} =>
          l.user \in Users /\ l.to \in Groups
    /\ l.pc = "replace" => Stays(l) /\ l.op # "key"
    /\ l.op \in {"auto", "rollback"} =>
          /\ l.pc = "store" => Stays(l)
          /\ \A row \in l.todo : row.from \in Groups
    /\ l.op = "rollback" => \A row \in l.todo : Stays(row)
    /\ l.op = "key" => l.key \in Keys
    /\ l.pc \in {"seen", "unseen"} => l.op = "key"
    /\ l.pc \in {"accounts", "bind"} => \A item \in l.keys : Owner(item.key) = l.user

Crossings == [groups : SUBSET Users, grants : SUBSET Users, routes : SUBSET Keys,
              bindings : SUBSET Accounts]

Data ==
    /\ allowed \in [Users -> SUBSET Groups]
    /\ keyGroup \in [Keys -> Spots]
    /\ snapshot \in [Users -> SUBSET Groups]
    /\ assign \in [Users \X Platforms -> Spots]
    /\ \A up \in Users \X Platforms : assign[up] # NoGroup => Platform[assign[up]] = up[2]
    /\ pool \in [PoolKinds -> SUBSET Groups]
    /\ run \in [moved : SUBSET Move, undone : SUBSET Move, status : {"none", "completed", "failed"}]
    /\ routed \in [Keys -> {"never", "seen", "unseen"}]
    /\ load \in Loads
    /\ crossed \in Crossings
    /\ NoKeyOrphaned

\* A thread works on one of the operations of this behaviour.  Unless the user's grants
\* changed under an operation that relies on them, what it has read of them is still so, and
\* it moves keys to where their owner may use them.
Follows(l) ==
    /\ l.pc # "idle" => l.op \in load
    /\ l.pc \in {"read", "grant", "list", "accounts", "bind"} => l.op \in Granting
    /\ l.user \notin crossed.grants =>
          /\ l.pc = "check" /\ l.op = "assign" => snapshot[l.user] = allowed[l.user]
          /\ l.pc = "grant" => allowed[l.user] \subseteq l.read
          /\ l.pc \in {"list", "accounts", "bind"} => l.to \in allowed[l.user]

KInv ==
    /\ Data
    /\ thread \in [Threads -> Local]
    /\ \A t \in Threads : Well(thread[t]) /\ Follows(thread[t])

\* What one thread's step leaves of what the others go by: the grants they rely on, unless it
\* is noted that they changed.
Spares(t) ==
    /\ snapshot' = snapshot \/ snapshot' = allowed'
    /\ crossed' \in Crossings
    /\ crossed.grants \subseteq crossed'.grants
    /\ \A s \in Threads \ {t}, u \in Users :
          Relies(thread[s], u) /\ u \notin crossed'.grants => allowed'[u] = allowed[u]

\* The same piece of work.
Same(l, m) ==
    /\ l.op = m.op /\ l.user = m.user /\ l.key = m.key /\ l.from = m.from /\ l.to = m.to
    /\ l.todo = m.todo /\ l.moved = m.moved

\* The same point of it, with the same of it read.
Alike(l, m) ==
    /\ Same(l, m) /\ l.pc = m.pc
    /\ l.keys = m.keys /\ l.read = m.read /\ l.account = m.account

\* What a step makes of the threads: the others rest; this one stays at the same piece of work,
\* goes on with the next, or ends.
Others(t) == \A s \in Threads \ {t} : thread'[s] = thread[s]
Begins(t, op) == /\ Others(t) /\ thread'[t].op = op /\ thread'[t].pc = "refresh"
                 /\ thread'[t].moved = {} /\ (op # "rollback" => thread'[t].todo = {})
Steps(t, pc) == Others(t) /\ thread'[t].pc = pc /\ Same(thread'[t], thread[t])
Ends(t) == Others(t) /\ thread'[t] = Idle
Retreats(t) == Ends(t) \/ Steps(t, "rows")

LEMMA IdleTyped == Idle \in Local /\ Idle.pc = "idle" /\ Idle.op = "none" /\ Well(Idle)
<1>1. Idle \in Local
  BY DEF Idle, Local, Ops, Pcs, Spots
<1>2. Idle.pc = "idle" /\ Idle.op = "none"
  BY DEF Idle
<1> QED
  BY <1>1, <1>2 DEF Well, Stays

LEMMA IdleEmpty == Idle.todo = {} /\ Idle.moved = {}
BY DEF Idle

\* The group a user is dedicated to is the one that it has on the platform.
LEMMA DirectTyped ==
    ASSUME NEW S \in SUBSET Groups, NEW p
    PROVE  /\ Direct(S, p) \in Spots
           /\ Direct(S, p) # NoGroup =>
                 /\ Direct(S, p) \in S /\ Platform[Direct(S, p)] = p
                 /\ OnPlatform(S, p) = {Direct(S, p)}
<1>1. CASE Cardinality(OnPlatform(S, p)) = 1
  <2>1. IsFiniteSet(OnPlatform(S, p))
    BY FS_Subset, GroupRotationAssumption DEF GroupRotationAssumption, OnPlatform
  <2>2. PICK g : OnPlatform(S, p) = {g}
    BY <1>1, <2>1, FS_Singleton
  <2>3. g \in S /\ Platform[g] = p
    BY <2>2 DEF OnPlatform
  <2>4. (CHOOSE h \in S : Platform[h] = p) = g
    BY <2>2, <2>3 DEF OnPlatform
  <2> QED
    BY <1>1, <2>2, <2>3, <2>4 DEF Direct, Spots
<1>2. CASE Cardinality(OnPlatform(S, p)) # 1
  BY <1>2 DEF Direct, Spots
<1> QED
  BY <1>1, <1>2

LEMMA DataKept ==
    ASSUME Data, UNCHANGED <<allowed, keyGroup, snapshot, assign, pool, run, routed, crossed, load>>
    PROVE  Data'
BY DEF Data, NoKeyOrphaned

\* A step that changes no grants spares the others, and one that changes them notes it.
LEMMA QuietSpares ==
    ASSUME KInv, NEW t \in Threads, UNCHANGED <<allowed, crossed>>,
           snapshot' = snapshot \/ snapshot' = allowed'
    PROVE  Spares(t)
BY DEF Spares, KInv, Data

LEMMA CrossNotes ==
    ASSUME KInv, NEW t \in Threads, Cross(t)
    PROVE  /\ crossed' \in Crossings
           /\ crossed.groups \subseteq crossed'.groups /\ crossed.grants \subseteq crossed'.grants
           /\ crossed.routes \subseteq crossed'.routes
           /\ crossed.bindings \subseteq crossed'.bindings
           /\ \A s \in Threads \ {t} :
                 /\ \A u \in Users : allowed'[u] # allowed[u] =>
                       /\ Moves(thread[s], u) => u \in crossed'.groups
                       /\ Relies(thread[s], u) => u \in crossed'.grants
                 /\ \A k \in Keys : keyGroup'[k] # keyGroup[k] /\ Routes(thread[s], k) =>
                       k \in crossed'.routes
                 /\ \A a \in Accounts : bound'[a] # bound[a] /\ Binds(thread[s], a) =>
                       a \in crossed'.bindings
<1> DEFINE other == {thread[s] : s \in Threads \ {t}}
           moved == {u \in Users : allowed'[u] # allowed[u]}
           groups == crossed.groups \cup {u \in moved : \E l \in other : Moves(l, u)}
           grants == crossed.grants \cup {u \in moved : \E l \in other : Relies(l, u)}
           routes == crossed.routes \cup
               {k \in Keys : keyGroup'[k] # keyGroup[k] /\ \E l \in other : Routes(l, k)}
           bindings == crossed.bindings \cup
               {a \in Accounts : bound'[a] # bound[a] /\ \E l \in other : Binds(l, a)}
<1>1. crossed' = [groups |-> groups, grants |-> grants, routes |-> routes, bindings |-> bindings]
  BY DEF Cross
<1>2. crossed \in Crossings
  BY DEF KInv, Data
<1>3. /\ groups \in SUBSET Users /\ grants \in SUBSET Users /\ routes \in SUBSET Keys
      /\ bindings \in SUBSET Accounts
  BY <1>2 DEF Crossings
<1>4. /\ crossed.groups \subseteq groups /\ crossed.grants \subseteq grants
      /\ crossed.routes \subseteq routes /\ crossed.bindings \subseteq bindings
  OBVIOUS
<1>5. ASSUME NEW s \in Threads \ {t}
      PROVE  /\ \A u \in Users : allowed'[u] # allowed[u] =>
                   (Moves(thread[s], u) => u \in groups) /\ (Relies(thread[s], u) => u \in grants)
             /\ \A k \in Keys : keyGroup'[k] # keyGroup[k] /\ Routes(thread[s], k) => k \in routes
             /\ \A a \in Accounts : bound'[a] # bound[a] /\ Binds(thread[s], a) => a \in bindings
  <2>1. thread[s] \in other
    OBVIOUS
  <2> HIDE DEF other
  <2> QED
    BY <2>1
<1> HIDE DEF groups, grants, routes, bindings
<1> QED
  BY <1>1, <1>3, <1>4, <1>5 DEF Crossings

LEMMA CrossSpares ==
    ASSUME KInv, NEW t \in Threads, Cross(t), snapshot' = snapshot
    PROVE  Spares(t)
BY CrossNotes DEF Spares

\* What another thread knows survives a step that spares it.
LEMMA OtherFollows ==
    ASSUME KInv, NEW t \in Threads, NEW s \in Threads \ {t}, Spares(t), load' = load
    PROVE  /\ thread[s].pc # "idle" => thread[s].op \in load'
           /\ thread[s].pc \in {"read", "grant", "list", "accounts", "bind"} =>
                 thread[s].op \in Granting
           /\ thread[s].user \notin crossed'.grants =>
                 /\ thread[s].pc = "check" /\ thread[s].op = "assign" =>
                       snapshot'[thread[s].user] = allowed'[thread[s].user]
                 /\ thread[s].pc = "grant" => allowed'[thread[s].user] \subseteq thread[s].read
                 /\ thread[s].pc \in {"list", "accounts", "bind"} =>
                       thread[s].to \in allowed'[thread[s].user]
<1>1. Well(thread[s]) /\ Follows(thread[s])
  BY DEF KInv
<1>2. CASE /\ thread[s].user \notin crossed'.grants
           /\ \/ thread[s].pc \in {"grant", "list", "accounts", "bind"}
              \/ thread[s].pc = "check" /\ thread[s].op = "assign"
  <2>1. thread[s].user \in Users /\ Relies(thread[s], thread[s].user)
    BY <1>1, <1>2 DEF Well, Relies
  <2>2. /\ allowed'[thread[s].user] = allowed[thread[s].user]
        /\ thread[s].user \notin crossed.grants
    BY <1>2, <2>1 DEF Spares
  <2> QED
    BY <1>1, <1>2, <2>2 DEF Spares, Follows
<1> QED
  BY <1>1, <1>2 DEF Follows

LEMMA StepHolds ==
    ASSUME KInv, NEW t \in Threads, NEW l \in Local, Become(t, l), Well(l), Follows(l)', Data',
           Spares(t), load' = load
    PROVE  KInv' /\ thread'[t] = l /\ Others(t)
<1>1. /\ thread' \in [Threads -> Local] /\ thread'[t] = l
      /\ \A s \in Threads \ {t} : thread'[s] = thread[s]
  BY DEF Become, KInv
<1>2. ASSUME NEW s \in Threads \ {t} PROVE Well(thread[s]) /\ Follows(thread[s])'
  <2>1. thread'[s] = thread[s]
    BY <1>1
  <2> QED
    BY <2>1, OtherFollows DEF KInv, Follows
<1> QED
  BY <1>1, <1>2 DEF KInv, Others

\* A step that concerns the thread alone.
LEMMA ThreadOnly ==
    ASSUME KInv, NEW t \in Threads, NEW l \in Local, Become(t, l), Well(l), Follows(l),
           UNCHANGED <<allowed, keyGroup, snapshot, assign, pool, run, routed, crossed, load>>
    PROVE  KInv' /\ thread'[t] = l /\ Others(t)
<1>1. Follows(l)'
  BY DEF Follows
<1>2. Data'
  BY DataKept DEF KInv
<1> QED
  BY <1>1, <1>2, QuietSpares, StepHolds

LEMMA Working ==
    ASSUME KInv, NEW t \in Threads, thread[t].pc # "idle"
    PROVE  /\ thread[t] \in Local /\ Well(thread[t]) /\ Follows(thread[t])
           /\ thread[t].op \in load
BY DEF KInv, Follows

LEMMA IdleFollows == Follows(Idle)
BY IdleTyped DEF Follows

\* What an operation becomes when a call fails: the next row, or nothing.
LEMMA AfterFailureTyped ==
    ASSUME NEW l \in Local, Well(l), l.op \in load
    PROVE  /\ AfterFailure(l) \in Local /\ Well(AfterFailure(l)) /\ Follows(AfterFailure(l))
           /\ AfterFailure(l).pc \in {"rows", "idle"}
           /\ AfterFailure(l).pc # "idle" => AfterFailure(l).op \in load
           /\ AfterFailure(l) = Idle \/ (AfterFailure(l).pc = "rows" /\ Same(AfterFailure(l), l))
<1>1. CASE l.op \in {"auto", "migrate", "rollback"}
  <2>1. PICK m : m = [l EXCEPT !.pc = "rows"]
    OBVIOUS
  <2>2. m \in Local /\ m.pc = "rows" /\ Same(m, l)
    BY <2>1 DEF Local, Pcs, Same
  <2>3. Well(m) /\ Follows(m)
    BY <1>1, <2>2 DEF Well, Stays, Same, Follows
  <2> QED
    BY <1>1, <2>1, <2>2, <2>3 DEF AfterFailure
<1>2. CASE l.op \notin {"auto", "migrate", "rollback"}
  <2>1. AfterFailure(l) = Idle
    BY <1>2 DEF AfterFailure
  <2>2. /\ AfterFailure(l) \in Local /\ Well(AfterFailure(l)) /\ Follows(AfterFailure(l))
        /\ AfterFailure(l).pc = "idle"
    BY <1>2, IdleTyped, IdleFollows DEF AfterFailure
  <2> QED
    BY <2>1, <2>2
<1> QED
  BY <1>1, <1>2

LEMMA EndsIdle ==
    ASSUME KInv, NEW t \in Threads, thread[t].pc # "idle", Become(t, Idle),
           UNCHANGED <<allowed, keyGroup, snapshot, assign, pool, run, routed, crossed, load>>
    PROVE  KInv' /\ Ends(t)
<1>1. PICK l : l = Idle
  OBVIOUS
<1>2. l \in Local /\ Well(l) /\ Follows(l) /\ Become(t, l)
  BY <1>1, IdleTyped, IdleFollows
<1> QED
  BY <1>1, <1>2, Working, ThreadOnly DEF Ends

LEMMA Fails ==
    ASSUME KInv, NEW t \in Threads, thread[t].pc # "idle",
           NEW l \in Local, Well(l), Same(l, thread[t]), Become(t, AfterFailure(l)),
           UNCHANGED <<allowed, keyGroup, snapshot, assign, pool, run, routed, crossed, load>>
    PROVE  KInv' /\ Retreats(t)
<1>1. PICK m : m = AfterFailure(l)
  OBVIOUS
<1>2. /\ m \in Local /\ Well(m) /\ Follows(m) /\ Become(t, m)
      /\ m = Idle \/ (m.pc = "rows" /\ Same(m, thread[t]))
  BY <1>1, AfterFailureTyped, Working DEF Same
<1> QED
  BY <1>2, Working, ThreadOnly DEF Retreats, Ends, Steps

-----------------------------------------------------------------------------
(* Operations that start.                                                  *)

\* What every start has in common.
LEMMA StartHolds ==
    ASSUME KInv, NEW t \in Threads, NEW l \in Local, NEW op \in load, Free(t, op),
           l.op = op, l.pc = "refresh", Well(l), Become(t, l),
           UNCHANGED <<allowed, keyGroup, snapshot, assign, pool, run, routed, crossed, load>>
    PROVE  KInv' /\ thread'[t] = l /\ Others(t)
<1>1. Follows(l)
  BY DEF Follows
<1> QED
  BY <1>1, ThreadOnly

LEMMA StartAutoHolds ==
    ASSUME KInv, NEW t \in Threads, NEW scope, StartAuto(t, scope)
    PROVE  KInv' /\ Begins(t, "auto")
<1> DEFINE InScope(S) == {g \in S : Platform[g] \in scope}
<1>1. PICK l : l = [Idle EXCEPT !.op = "auto", !.pc = "refresh", !.read = InScope(pool["rotation"]),
                                !.landing = InScope(pool["landing"])]
  OBVIOUS
<1>2. InScope(pool["rotation"]) \in SUBSET Groups /\ InScope(pool["landing"]) \in SUBSET Groups
  BY DEF KInv, Data, PoolKinds
<1>3. l \in Local /\ l.op = "auto" /\ l.pc = "refresh" /\ l.todo = {} /\ l.moved = {}
  <2>1. Idle \in Local /\ Idle.todo = {} /\ Idle.moved = {}
    BY IdleTyped DEF Idle
  <2> HIDE DEF InScope
  <2> QED
    BY <1>1, <1>2, <2>1 DEF Local, Ops, Pcs
<1>4. Well(l)
  BY <1>3 DEF Well, Stays
<1>5. Become(t, l) /\ Free(t, "auto") /\ "auto" \in load
  BY <1>1 DEF StartAuto, Free
<1>6. UNCHANGED <<allowed, keyGroup, snapshot, assign, pool, run, routed, crossed, load>>
  BY DEF StartAuto, upstream, store, notes
<1> QED
  BY <1>3, <1>4, <1>5, <1>6, StartHolds DEF Begins

LEMMA StartManualHolds ==
    ASSUME KInv, NEW t \in Threads, NEW u \in Users, NEW g \in Groups,
           StartManual(t, u, g)
    PROVE  KInv' /\ Begins(t, "manual")
<1>1. PICK l : l = [Idle EXCEPT !.op = "manual", !.pc = "refresh", !.user = u, !.to = g,
                                !.from = assign[<<u, Platform[g]>>]]
  OBVIOUS
<1>2. /\ assign[<<u, Platform[g]>>] \in Groups
      /\ Platform[assign[<<u, Platform[g]>>]] = Platform[g]
  <2>1. <<u, Platform[g]>> \in Users \X Platforms
    BY DEF Platforms
  <2>2. assign[<<u, Platform[g]>>] # NoGroup
    BY DEF StartManual
  <2> QED
    BY <2>1, <2>2 DEF KInv, Data, Spots
<1>3. /\ l \in Local /\ l.op = "manual" /\ l.pc = "refresh" /\ l.user = u /\ l.to = g
      /\ l.from = assign[<<u, Platform[g]>>] /\ l.todo = {} /\ l.moved = {}
  BY <1>1, <1>2, IdleTyped, IdleEmpty DEF Local, Ops, Pcs, Spots
<1>4. Well(l)
  BY <1>2, <1>3 DEF Well, Stays
<1>5. Become(t, l) /\ Free(t, "manual") /\ "manual" \in load
  BY <1>1 DEF StartManual, Free
<1>6. UNCHANGED <<allowed, keyGroup, snapshot, assign, pool, run, routed, crossed, load>>
  BY DEF StartManual, upstream, store, notes
<1> QED
  BY <1>3, <1>4, <1>5, <1>6, StartHolds DEF Begins

LEMMA StartAssignHolds ==
    ASSUME KInv, NEW t \in Threads, NEW u \in Users,
           NEW source \in Groups \cup {NoGroup}, NEW g \in Groups, StartAssign(t, u, source, g)
    PROVE  KInv' /\ Begins(t, "assign")
<1>1. PICK l : l = [Idle EXCEPT !.op = "assign", !.pc = "refresh", !.user = u, !.from = source,
                                !.to = g]
  OBVIOUS
<1>2. /\ l \in Local /\ l.op = "assign" /\ l.pc = "refresh" /\ l.user = u /\ l.to = g
      /\ l.todo = {} /\ l.moved = {}
  BY <1>1, IdleTyped, IdleEmpty DEF Local, Ops, Pcs, Spots
<1>3. Well(l)
  BY <1>2 DEF Well, Stays
<1>4. Become(t, l) /\ Free(t, "assign") /\ "assign" \in load
  BY <1>1 DEF StartAssign, Free
<1>5. UNCHANGED <<allowed, keyGroup, snapshot, assign, pool, run, routed, crossed, load>>
  BY DEF StartAssign, upstream, store, notes
<1> QED
  BY <1>2, <1>3, <1>4, <1>5, StartHolds DEF Begins

LEMMA StartMigrateHolds ==
    ASSUME KInv, NEW t \in Threads, NEW source \in Groups, NEW g \in Groups,
           StartMigrate(t, source, g)
    PROVE  KInv' /\ Begins(t, "migrate")
<1>1. PICK l : l = [Idle EXCEPT !.op = "migrate", !.pc = "refresh", !.from = source, !.to = g]
  OBVIOUS
<1>2. /\ l \in Local /\ l.op = "migrate" /\ l.pc = "refresh" /\ l.to = g /\ l.from = source
      /\ Platform[source] = Platform[g] /\ l.todo = {} /\ l.moved = {}
  BY <1>1, IdleTyped, IdleEmpty DEF Local, Ops, Pcs, Spots, StartMigrate
<1>3. Well(l)
  BY <1>2 DEF Well, Stays
<1>4. Become(t, l) /\ Free(t, "migrate") /\ "migrate" \in load
  BY <1>1 DEF StartMigrate, Free
<1>5. UNCHANGED <<allowed, keyGroup, snapshot, assign, pool, run, routed, crossed, load>>
  BY DEF StartMigrate, upstream, store, notes
<1> QED
  BY <1>2, <1>3, <1>4, <1>5, StartHolds DEF Begins

LEMMA StartKeyHolds ==
    ASSUME KInv, NEW t \in Threads, NEW k \in Keys,
           NEW hint \in Groups \cup {NoGroup}, NEW g \in Groups, StartKey(t, k, hint, g)
    PROVE  KInv' /\ Begins(t, "key")
<1>1. PICK l : l = [Idle EXCEPT !.op = "key", !.pc = "refresh", !.user = Owner(k), !.key = k,
                                !.from = hint, !.to = g]
  OBVIOUS
<1>2. Owner(k) \in Users
  BY DEF Keys, Owner
<1>3. /\ l \in Local /\ l.op = "key" /\ l.pc = "refresh" /\ l.user \in Users /\ l.to = g
      /\ l.key = k /\ l.todo = {} /\ l.moved = {}
  BY <1>1, <1>2, IdleTyped, IdleEmpty DEF Local, Ops, Pcs, Spots
<1>4. Well(l)
  BY <1>3 DEF Well, Stays
<1>5. Become(t, l) /\ Free(t, "key") /\ "key" \in load
  BY <1>1 DEF StartKey, Free
<1>6. UNCHANGED <<allowed, keyGroup, snapshot, assign, pool, run, routed, crossed, load>>
  BY DEF StartKey, upstream, store, notes
<1> QED
  BY <1>3, <1>4, <1>5, <1>6, StartHolds DEF Begins

LEMMA StartRollbackHolds ==
    ASSUME KInv, NEW t \in Threads, StartRollback(t)
    PROVE  /\ KInv' /\ Begins(t, "rollback")
           /\ thread'[t].todo = {[user |-> m.user, from |-> m.to, to |-> m.from] : m \in run.moved}
<1> DEFINE rows == {[user |-> m.user, from |-> m.to, to |-> m.from] : m \in run.moved}
<1>1. PICK l : l = [Idle EXCEPT !.op = "rollback", !.pc = "refresh", !.owns = TRUE, !.todo = rows]
  OBVIOUS
<1>2. /\ rows \in SUBSET Row
      /\ \A row \in rows : Stays(row)
  <2>1. run.moved \in SUBSET Move
    BY DEF KInv, Data
  <2> QED
    BY <2>1 DEF Move, Item, Row, Spots, Stays
<1>3. l \in Local /\ l.op = "rollback" /\ l.pc = "refresh" /\ l.todo = rows /\ l.moved = {}
  <2> HIDE DEF rows
  <2> QED
    BY <1>1, <1>2, IdleTyped, IdleEmpty DEF Local, Ops, Pcs
<1>4. Well(l)
  <2> HIDE DEF rows
  <2> QED
    BY <1>2, <1>3 DEF Well, Stays
<1>5. Become(t, l) /\ Free(t, "rollback") /\ "rollback" \in load
  BY <1>1 DEF StartRollback, Free
<1>6. UNCHANGED <<allowed, keyGroup, snapshot, assign, pool, run, routed, crossed, load>>
  BY DEF StartRollback, upstream, store
<1> QED
  BY <1>3, <1>4, <1>5, <1>6, StartHolds DEF Begins

-----------------------------------------------------------------------------
(* Threads.                                                                *)

\* What has been collected is what the upstream says.
LEMMA RefreshHolds ==
    ASSUME KInv, NEW t \in Threads, Refresh(t)
    PROVE  KInv' /\ Steps(t, "check")
<1>1. PICK l : l = [thread[t] EXCEPT !.pc = "check"]
  OBVIOUS
<1>2. thread[t].pc = "refresh" /\ Become(t, l) /\ snapshot' = allowed
  BY <1>1 DEF Refresh
<1>3. UNCHANGED <<allowed, keyGroup, assign, pool, run, routed, crossed, load>>
  BY DEF Refresh, upstream, history, notes
<1>4. thread[t] \in Local /\ Well(thread[t]) /\ thread[t].op \in load
  BY <1>2, Working
<1>5. /\ l \in Local /\ l.pc = "check" /\ Same(l, thread[t])
  BY <1>1, <1>4 DEF Local, Pcs, Same
<1>6. Well(l)
  BY <1>2, <1>4, <1>5 DEF Well, Stays, Same
<1>7. Follows(l)'
  BY <1>2, <1>3, <1>4, <1>5 DEF Follows, Same
<1>8. Data'
  BY <1>2, <1>3 DEF KInv, Data, NoKeyOrphaned
<1> QED
  BY <1>2, <1>3, <1>5, <1>6, <1>7, <1>8, Working, QuietSpares, StepHolds DEF Steps

LEMMA AbandonHolds ==
    ASSUME KInv, NEW t \in Threads, Abandon(t)
    PROVE  KInv' /\ Ends(t)
<1>1. thread[t].pc # "idle" /\ Become(t, Idle)
  BY DEF Abandon
<1>2. UNCHANGED <<allowed, keyGroup, snapshot, assign, pool, run, routed, crossed, load>>
  BY DEF Abandon, upstream, store, history, notes
<1> QED
  BY <1>1, <1>2, EndsIdle DEF Ends

LEMMA CrashHolds ==
    ASSUME KInv, Crash
    PROVE  KInv'
<1>1. UNCHANGED <<allowed, keyGroup, snapshot, assign, pool, run, routed, crossed, load>>
  BY DEF Crash, upstream, store, history, notes
<1>2. thread' = [t \in Threads |-> Idle]
  BY DEF Crash
<1>3. Data'
  BY <1>1, DataKept DEF KInv
<1>4. ASSUME NEW t \in Threads PROVE thread'[t] = Idle /\ Follows(Idle)'
  BY <1>2, IdleTyped DEF Follows
<1> QED
  BY <1>2, <1>3, <1>4, IdleTyped DEF KInv

-----------------------------------------------------------------------------
(* Upstream calls that change a user's groups.                             *)

\* A user's keys follow when one of its groups is replaced.
LEMMA ReplaceGroupKeepsKeys ==
    ASSUME Data, NEW u \in Users, NEW old \in Spots, NEW new \in Groups,
           ReplaceGroup(u, old, new), crossed' \in Crossings, crossed.grants \subseteq crossed'.grants,
           UNCHANGED <<snapshot, assign, pool, run, routed, load>>
    PROVE  Data'
<1>1. allowed' \in [Users -> SUBSET Groups]
  BY DEF Data, ReplaceGroup, Spots
<1>2. keyGroup' \in [Keys -> Spots]
  BY DEF Data, ReplaceGroup, Spots
<1>3. NoKeyOrphaned'
  <2> SUFFICES ASSUME NEW k \in Keys, routed[k] = "never", Owner(k) \notin crossed'.grants
               PROVE  keyGroup'[k] \in allowed'[Owner(k)] \cup {NoGroup}
    BY DEF NoKeyOrphaned
  <2>1. keyGroup[k] \in allowed[Owner(k)] \cup {NoGroup} /\ Owner(k) \in Users
    BY DEF Data, NoKeyOrphaned, Keys, Owner, Crossings
  <2>2. allowed'[u] = (allowed[u] \ {old}) \cup {new}
    BY DEF Data, ReplaceGroup
  <2>3. \A v \in Users : v # u => allowed'[v] = allowed[v]
    BY DEF Data, ReplaceGroup
  <2>4. keyGroup'[k] = IF Owner(k) = u /\ keyGroup[k] = old THEN new ELSE keyGroup[k]
    BY DEF ReplaceGroup
  <2>5. CASE Owner(k) = u
    BY <2>1, <2>2, <2>4, <2>5
  <2>6. CASE Owner(k) # u
    BY <2>1, <2>3, <2>4, <2>6
  <2> QED
    BY <2>5, <2>6
<1> QED
  BY <1>1, <1>2, <1>3 DEF Data

LEMMA ReplaceHolds ==
    ASSUME KInv, NEW t \in Threads, Replace(t)
    PROVE  /\ KInv'
           /\ Steps(t, IF thread[t].op \in Granting THEN "list" ELSE "store")
           /\ thread'[t].was = OnPlatform(allowed[thread[t].user], Platform[thread[t].to])
<1>1. PICK l : l = Replaced(thread[t])
  OBVIOUS
<1>2. /\ thread[t].pc = "replace" /\ Become(t, l) /\ Cross(t)
      /\ ReplaceGroup(thread[t].user, thread[t].from, thread[t].to)
  BY <1>1 DEF Replace
<1>3. UNCHANGED <<snapshot, assign, pool, run, routed, load>>
  BY DEF Replace, store, history, notes
<1>4. thread[t] \in Local /\ Well(thread[t]) /\ thread[t].op \in load
  BY <1>2, Working
<1>5. thread[t].user \in Users /\ thread[t].to \in Groups /\ thread[t].from \in Spots
  BY <1>2, <1>4 DEF Well, Stays, Same, Local
<1>6. Data'
  BY <1>2, <1>3, <1>5, CrossNotes, ReplaceGroupKeepsKeys DEF KInv
<1>7. thread[t].to \in allowed'[thread[t].user]
  BY <1>2, <1>5 DEF ReplaceGroup, KInv, Data
<1>8. /\ l \in Local /\ l.pc = (IF thread[t].op \in Granting THEN "list" ELSE "store")
      /\ Same(l, thread[t])
      /\ l.was = OnPlatform(allowed[thread[t].user], Platform[thread[t].to])
  <2>1. OnPlatform(allowed[thread[t].user], Platform[thread[t].to]) \in SUBSET Groups
    BY <1>5 DEF KInv, Data, OnPlatform
  <2>2. PICK pc : pc = IF thread[t].op \in Granting THEN "list" ELSE "store"
    OBVIOUS
  <2>3. PICK was : was = OnPlatform(allowed[thread[t].user], Platform[thread[t].to])
    OBVIOUS
  <2>4. l = [thread[t] EXCEPT !.pc = pc, !.was = was]
    BY <1>1, <2>2, <2>3 DEF Replaced, Granting
  <2>5. pc \in Pcs /\ was \in SUBSET Groups
    BY <2>1, <2>2, <2>3 DEF Pcs
  <2>6. l \in Local
    BY <1>4, <2>4, <2>5 DEF Local
  <2> QED
    BY <1>4, <2>2, <2>3, <2>4, <2>6 DEF Local, Same
<1>9. Well(l)
  BY <1>2, <1>4, <1>5, <1>8 DEF Well, Stays, Same
<1>10. Follows(l)'
  BY <1>3, <1>4, <1>7, <1>8 DEF Follows, Same
<1> QED
  BY <1>2, <1>3, <1>6, <1>8, <1>9, <1>10, CrossSpares, StepHolds DEF Steps

\* The call may have been carried out though it failed.
LEMMA ReplaceFailsHolds ==
    ASSUME KInv, NEW t \in Threads, ReplaceFails(t)
    PROVE  KInv' /\ Retreats(t)
<1>1. PICK l : l = AfterFailure(thread[t])
  OBVIOUS
<1>2. thread[t].pc = "replace" /\ Become(t, l) /\ Cross(t)
  BY <1>1 DEF ReplaceFails
<1>3. UNCHANGED <<snapshot, assign, pool, run, routed, load>>
  BY DEF ReplaceFails, store, history, notes
<1>4. thread[t] \in Local /\ Well(thread[t]) /\ thread[t].op \in load
  BY <1>2, Working
<1>5. thread[t].user \in Users /\ thread[t].to \in Groups /\ thread[t].from \in Spots
  BY <1>2, <1>4 DEF Well, Stays, Local
<1>6. UNCHANGED upstream \/ ReplaceGroup(thread[t].user, thread[t].from, thread[t].to)
  BY DEF ReplaceFails
<1>7. Data'
  <2>1. CASE UNCHANGED upstream
    BY <1>2, <1>3, <2>1, CrossNotes DEF upstream, KInv, Data, NoKeyOrphaned
  <2>2. CASE ReplaceGroup(thread[t].user, thread[t].from, thread[t].to)
    BY <1>2, <1>3, <1>5, <2>2, CrossNotes, ReplaceGroupKeepsKeys DEF KInv
  <2> QED
    BY <1>6, <2>1, <2>2
<1>8. /\ l \in Local /\ Well(l) /\ l.pc \in {"rows", "idle"}
      /\ l.pc # "idle" => l.op \in load
      /\ l = Idle \/ (l.pc = "rows" /\ Same(l, thread[t]))
  BY <1>1, <1>4, AfterFailureTyped
<1>9. Follows(l)'
  BY <1>3, <1>8 DEF Follows
<1> QED
  BY <1>2, <1>3, <1>7, <1>8, <1>9, CrossSpares, StepHolds DEF Retreats, Ends, Steps

LEMMA ReadGrantsHolds ==
    ASSUME KInv, NEW t \in Threads, ReadGrants(t)
    PROVE  KInv' /\ Steps(t, "grant") /\ thread'[t].read = allowed[thread[t].user]
<1>1. PICK l : l = [thread[t] EXCEPT !.read = allowed[thread[t].user], !.pc = "grant"]
  OBVIOUS
<1>2. thread[t].pc = "read" /\ Become(t, l)
  BY <1>1 DEF ReadGrants
<1>3. UNCHANGED <<allowed, keyGroup, snapshot, assign, pool, run, routed, crossed, load>>
  BY DEF ReadGrants, upstream, store, history, notes
<1>4. thread[t] \in Local /\ Well(thread[t]) /\ Follows(thread[t]) /\ thread[t].op \in load
  BY <1>2, Working
<1>5. thread[t].user \in Users /\ thread[t].to \in Groups /\ thread[t].op \in Granting
  BY <1>2, <1>4 DEF Well, Stays, Same, Follows
<1>6. allowed[thread[t].user] \in SUBSET Groups
  BY <1>5 DEF KInv, Data
<1>7. /\ l \in Local /\ l.pc = "grant" /\ Same(l, thread[t])
      /\ l.read = allowed[l.user]
  BY <1>1, <1>4, <1>6 DEF Local, Pcs, Same
<1>8. Well(l)
  BY <1>4, <1>5, <1>7 DEF Well, Stays, Same, Granting
<1>9. Follows(l)
  BY <1>4, <1>5, <1>7 DEF Follows, Same
<1> QED
  BY <1>2, <1>3, <1>7, <1>8, <1>9, Working, ThreadOnly DEF Steps, Same

\* Nothing is taken from the user, since its groups are still the ones that were read.
LEMMA GrantHolds ==
    ASSUME KInv, NEW t \in Threads, Grant(t)
    PROVE  KInv' /\ (Steps(t, "list") \/ Retreats(t))
<1>1. thread[t].pc = "grant" /\ Cross(t)
  BY DEF Grant
<1>2. UNCHANGED <<keyGroup, snapshot, assign, pool, run, routed, load>>
  BY DEF Grant, store, history, notes
<1>3. thread[t] \in Local /\ Well(thread[t]) /\ Follows(thread[t]) /\ thread[t].op \in load
  BY <1>1, Working
<1>4. /\ thread[t].user \in Users /\ thread[t].to \in Groups /\ thread[t].op \in Granting
      /\ thread[t].user \notin crossed.grants => allowed[thread[t].user] \subseteq thread[t].read
      /\ thread[t].read \subseteq Groups
  BY <1>1, <1>3 DEF Well, Follows, Local
<1>5. allowed' = [allowed EXCEPT ![thread[t].user] = thread[t].read \cup {thread[t].to}]
  BY DEF Grant, SetGrants
<1>6. /\ allowed' \in [Users -> SUBSET Groups]
      /\ \A u \in Users \ crossed.grants : allowed[u] \subseteq allowed'[u]
      /\ thread[t].to \in allowed'[thread[t].user]
  BY <1>4, <1>5 DEF KInv, Data
<1>7. Data'
  <2>1. crossed' \in Crossings /\ crossed.grants \subseteq crossed'.grants
    BY <1>1, CrossNotes
  <2>2. NoKeyOrphaned'
    BY <1>2, <1>6, <2>1 DEF KInv, Data, NoKeyOrphaned, Keys, Owner
  <2> QED
    BY <1>2, <1>6, <2>1, <2>2 DEF KInv, Data
<1>8. PICK l, m : l = [thread[t] EXCEPT !.pc = "list", !.read = {}] /\ m = AfterFailure(thread[t])
  OBVIOUS
<1>9. Become(t, l) \/ Become(t, m)
  BY <1>8 DEF Grant
<1>10. CASE Become(t, l)
  <2>1. /\ l \in Local /\ l.pc = "list" /\ Same(l, thread[t])
    BY <1>3, <1>8 DEF Local, Pcs, Same
  <2>2. Well(l)
    BY <1>3, <1>4, <2>1 DEF Well, Stays, Same, Granting
  <2>3. Follows(l)'
    BY <1>2, <1>3, <1>4, <1>6, <2>1 DEF Follows, Same
  <2> QED
    BY <1>1, <1>2, <1>7, <1>10, <2>1, <2>2, <2>3, CrossSpares, StepHolds DEF Steps
<1>11. CASE Become(t, m)
  <2>1. /\ m \in Local /\ Well(m) /\ m.pc \in {"rows", "idle"} /\ (m.pc # "idle" => m.op \in load)
        /\ m = Idle \/ (m.pc = "rows" /\ Same(m, thread[t]))
    BY <1>3, <1>8, AfterFailureTyped
  <2>2. Follows(m)'
    BY <1>2, <2>1 DEF Follows, Same
  <2> QED
    BY <1>1, <1>2, <1>7, <1>11, <2>1, <2>2, CrossSpares, StepHolds DEF Retreats, Ends, Steps
<1> QED
  BY <1>9, <1>10, <1>11

LEMMA GrantFailsHolds ==
    ASSUME KInv, NEW t \in Threads, GrantFails(t)
    PROVE  KInv' /\ Retreats(t)
<1>1. thread[t].pc # "idle" /\ Become(t, AfterFailure(thread[t]))
  BY DEF GrantFails
<1>2. UNCHANGED <<allowed, keyGroup, snapshot, assign, pool, run, routed, crossed, load>>
  BY DEF GrantFails, upstream, store, history, notes
<1>3. PICK l : l = thread[t]
  OBVIOUS
<1> QED
  BY <1>1, <1>2, <1>3, Working, Fails DEF Same

-----------------------------------------------------------------------------
(* Keys and accounts follow the user.                                      *)

\* The keys that are listed are the user's own.
LEMMA ListKeysHolds ==
    ASSUME KInv, NEW t \in Threads, ListKeys(t)
    PROVE  /\ KInv'
           /\ Steps(t, "accounts")
           /\ \A item \in thread'[t].keys : item.group = keyGroup[item.key]
<1> DEFINE mine == {k \in Keys : /\ Owner(k) = thread[t].user
                                 /\ thread[t].unassigned => keyGroup[k] = NoGroup}
           items == {[key |-> k, group |-> keyGroup[k]] : k \in mine}
           todo == IF mine = {} THEN {}
                   ELSE {a \in Accounts : /\ AccountPlatform[a] = Platform[thread[t].to]
                                          /\ thread[t].to \notin bound[a]}
<1>1. PICK l : l = [thread[t] EXCEPT !.keys = items, !.accounts = todo, !.pc = "accounts"]
  OBVIOUS
<1>2. thread[t].pc = "list" /\ Become(t, l)
  BY <1>1 DEF ListKeys
<1>3. UNCHANGED <<allowed, keyGroup, snapshot, assign, pool, run, routed, crossed, load>>
  BY DEF ListKeys, upstream, store, history, notes
<1>4. thread[t] \in Local /\ Well(thread[t]) /\ Follows(thread[t]) /\ thread[t].op \in load
  BY <1>2, Working
<1>5. /\ items \in SUBSET KeyItem
      /\ \A item \in items : Owner(item.key) = thread[t].user /\ item.group = keyGroup[item.key]
      /\ todo \in SUBSET Accounts
  BY DEF KInv, Data, KeyItem
<1>6. /\ l \in Local /\ l.pc = "accounts" /\ Same(l, thread[t])
      /\ l.keys = items
  <2> HIDE DEF items, todo
  <2> QED
    BY <1>1, <1>4, <1>5 DEF Local, Pcs, Same
<1>7. Well(l) /\ Follows(l)
  <2> HIDE DEF items, todo
  <2>1. Well(l)
    BY <1>2, <1>4, <1>5, <1>6 DEF Well, Stays, Same, Follows, Granting
  <2>2. Follows(l)
    BY <1>2, <1>4, <1>6 DEF Follows, Same
  <2> QED
    BY <2>1, <2>2
<1> QED
  BY <1>2, <1>3, <1>5, <1>6, <1>7, Working, ThreadOnly DEF Steps

LEMMA ReadAccountHolds ==
    ASSUME KInv, bound \in [Accounts -> SUBSET Groups], NEW t \in Threads,
           NEW a \in Accounts, ReadAccount(t, a)
    PROVE  /\ KInv'
           /\ Steps(t, "bind") /\ thread'[t].keys = thread[t].keys
           /\ thread'[t].account = {a} /\ thread'[t].read = bound[a]
<1>1. PICK l : l = [thread[t] EXCEPT !.accounts = @ \ {a}, !.account = {a}, !.read = bound[a],
                                     !.pc = "bind"]
  OBVIOUS
<1>2. thread[t].pc = "accounts" /\ Become(t, l)
  BY <1>1 DEF ReadAccount
<1>3. UNCHANGED <<allowed, keyGroup, snapshot, assign, pool, run, routed, crossed, load>>
  BY DEF ReadAccount, upstream, store, history, notes
<1>4. thread[t] \in Local /\ Well(thread[t]) /\ Follows(thread[t]) /\ thread[t].op \in load
  BY <1>2, Working
<1>5. /\ l \in Local /\ l.pc = "bind" /\ Same(l, thread[t])
      /\ l.keys = thread[t].keys /\ l.account = {a} /\ l.read = bound[a]
  BY <1>1, <1>4 DEF Local, Pcs, Same
<1>6. Well(l)
  BY <1>2, <1>4, <1>5 DEF Well, Stays, Same, Follows, Granting
<1>7. Follows(l)
  BY <1>2, <1>4, <1>5 DEF Follows, Same
<1> QED
  BY <1>2, <1>3, <1>5, <1>6, <1>7, Working, ThreadOnly DEF Steps

LEMMA BindHolds ==
    ASSUME KInv, NEW t \in Threads, Bind(t)
    PROVE  KInv' /\ Steps(t, "accounts") /\ thread'[t].keys = thread[t].keys
<1>1. PICK l : l = [thread[t] EXCEPT !.account = {}, !.read = {}, !.pc = "accounts"]
  OBVIOUS
<1>2. thread[t].pc = "bind" /\ Become(t, l) /\ Cross(t)
  BY <1>1 DEF Bind
<1>3. UNCHANGED <<allowed, keyGroup, snapshot, assign, pool, run, routed, load>>
  BY DEF Bind, store, history, notes
<1>4. thread[t] \in Local /\ Well(thread[t]) /\ Follows(thread[t]) /\ thread[t].op \in load
  BY <1>2, Working
<1>5. /\ l \in Local /\ l.pc = "accounts" /\ Same(l, thread[t])
      /\ l.keys = thread[t].keys
  BY <1>1, <1>4 DEF Local, Pcs, Same
<1>6. Well(l)
  BY <1>2, <1>4, <1>5 DEF Well, Stays, Same, Follows, Granting
<1>7. crossed' \in Crossings /\ crossed.grants \subseteq crossed'.grants
  BY <1>2, CrossNotes
<1>8. Data'
  BY <1>3, <1>7 DEF KInv, Data, NoKeyOrphaned
<1>9. Follows(l)'
  BY <1>2, <1>3, <1>4, <1>5, <1>7 DEF Follows, Same
<1> QED
  BY <1>2, <1>3, <1>5, <1>6, <1>8, <1>9, CrossSpares, StepHolds DEF Steps

\* A key goes where its owner has been authorised before.
LEMMA MoveKeyHolds ==
    ASSUME KInv, NEW t \in Threads, NEW item, MoveKey(t, item)
    PROVE  /\ KInv'
           /\ Retreats(t) \/ (Steps(t, "accounts") /\ thread'[t].keys = thread[t].keys \ {item})
<1>1. thread[t].pc = "accounts" /\ item \in thread[t].keys /\ Cross(t)
  BY DEF MoveKey
<1>2. UNCHANGED <<allowed, snapshot, assign, pool, run, routed, load>>
  BY DEF MoveKey, store, history, notes
<1>3. thread[t] \in Local /\ Well(thread[t]) /\ Follows(thread[t]) /\ thread[t].op \in load
  BY <1>1, Working
<1>4. /\ thread[t].user \in Users /\ thread[t].to \in Groups /\ thread[t].op \in Granting
      /\ thread[t].user \notin crossed.grants => thread[t].to \in allowed[thread[t].user]
      /\ item \in KeyItem /\ Owner(item.key) = thread[t].user
  BY <1>1, <1>3 DEF Well, Stays, Same, Follows, Local
<1>5. item.key \in Keys
  BY <1>4 DEF KeyItem
<1>6. keyGroup' = keyGroup \/ keyGroup' = [keyGroup EXCEPT ![item.key] = thread[t].to]
  BY DEF MoveKey
<1>7. Data'
  <2>1. keyGroup' \in [Keys -> Spots]
    BY <1>4, <1>6 DEF KInv, Data, Spots
  <2>2. crossed' \in Crossings /\ crossed.grants \subseteq crossed'.grants
    BY <1>1, CrossNotes
  <2>3. NoKeyOrphaned'
    BY <1>2, <1>4, <1>5, <1>6, <2>2 DEF KInv, Data, NoKeyOrphaned
  <2> QED
    BY <1>2, <2>1, <2>2, <2>3 DEF KInv, Data
<1>8. PICK l, m : l = [thread[t] EXCEPT !.keys = @ \ {item}] /\ m = [thread[t] EXCEPT !.keys = {}]
  OBVIOUS
<1>9. PICK n : n = AfterFailure(m)
  OBVIOUS
<1>10. Become(t, l) \/ Become(t, n)
  BY <1>8, <1>9 DEF MoveKey
<1>11. CASE Become(t, l)
  <2>1. /\ l \in Local /\ l.pc = "accounts" /\ Same(l, thread[t])
        /\ l.keys = thread[t].keys \ {item}
    BY <1>1, <1>3, <1>8 DEF Local, Same
  <2>2. Well(l)
    BY <1>1, <1>3, <1>4, <2>1 DEF Well, Stays, Same, Granting
  <2>3. Follows(l)'
    BY <1>2, <1>1, CrossNotes, <1>3, <1>4, <2>1 DEF Follows, Same
  <2> QED
    BY <1>1, <1>2, <1>7, <1>11, <2>1, <2>2, <2>3, CrossSpares, StepHolds DEF Steps
<1>12. CASE Become(t, n)
  <2>1. /\ m \in Local /\ m.pc = "accounts" /\ Same(m, thread[t])
        /\ m.keys = {}
    BY <1>1, <1>3, <1>8 DEF Local, Same
  <2>2. Well(m)
    BY <1>1, <1>3, <1>4, <2>1 DEF Well, Stays, Same, Granting
  <2>3. /\ n \in Local /\ Well(n) /\ n.pc \in {"rows", "idle"} /\ (n.pc # "idle" => n.op \in load)
        /\ n = Idle \/ (n.pc = "rows" /\ Same(n, thread[t]))
    BY <1>3, <1>9, <2>1, <2>2, AfterFailureTyped DEF Same
  <2>4. Follows(n)'
    BY <1>2, <2>3 DEF Follows, Same
  <2> QED
    BY <1>1, <1>2, <1>7, <1>12, <2>3, <2>4, CrossSpares, StepHolds DEF Retreats, Ends, Steps
<1> QED
  BY <1>10, <1>11, <1>12

LEMMA MoveKeyFailsHolds ==
    ASSUME KInv, NEW t \in Threads, MoveKeyFails(t)
    PROVE  KInv' /\ Retreats(t)
<1>1. PICK l : l = [thread[t] EXCEPT !.keys = {}]
  OBVIOUS
<1>2. thread[t].pc \in {"list", "accounts"} /\ Become(t, AfterFailure(l))
  BY <1>1 DEF MoveKeyFails
<1>3. UNCHANGED <<allowed, keyGroup, snapshot, assign, pool, run, routed, crossed, load>>
  BY DEF MoveKeyFails, upstream, store, history, notes
<1>4. thread[t] \in Local /\ Well(thread[t]) /\ Follows(thread[t])
  BY <1>2, Working
<1>5. /\ l \in Local /\ l.pc = thread[t].pc /\ Same(l, thread[t])
      /\ l.keys = {}
  BY <1>1, <1>4 DEF Local, Same
<1>6. Well(l)
  BY <1>2, <1>4, <1>5 DEF Well, Stays, Same, Follows, Granting
<1> QED
  BY <1>2, <1>3, <1>5, <1>6, Fails DEF Same

LEMMA KeysMovedHolds ==
    ASSUME KInv, NEW t \in Threads, KeysMoved(t)
    PROVE  KInv' /\ Steps(t, "store")
<1>1. PICK l : l = [thread[t] EXCEPT !.pc = "store"]
  OBVIOUS
<1>2. thread[t].pc = "accounts" /\ Become(t, l)
  BY <1>1 DEF KeysMoved
<1>3. UNCHANGED <<allowed, keyGroup, snapshot, assign, pool, run, routed, crossed, load>>
  BY DEF KeysMoved, upstream, store, history, notes
<1>4. thread[t] \in Local /\ Well(thread[t]) /\ Follows(thread[t]) /\ thread[t].op \in load
  BY <1>2, Working
<1>5. /\ l \in Local /\ l.pc = "store" /\ Same(l, thread[t])
  BY <1>1, <1>4 DEF Local, Pcs, Same
<1>6. Well(l)
  BY <1>2, <1>4, <1>5 DEF Well, Stays, Same, Follows, Granting
<1>7. Follows(l)
  BY <1>4, <1>5 DEF Follows, Same
<1> QED
  BY <1>2, <1>3, <1>5, <1>6, <1>7, Working, ThreadOnly DEF Steps

-----------------------------------------------------------------------------
(* The automatic run.                                                      *)

\* The rows are users, each with a group of its own that is in the given pool.
LEMMA RowsTyped ==
    ASSUME Data, NEW S \in SUBSET Groups
    PROVE  Rows(S) \in SUBSET [user : Users, from : Groups, to : {NoGroup}]
BY DEF Rows

LEMMA SyncHolds ==
    ASSUME KInv, NEW t \in Threads, Sync(t)
    PROVE  /\ KInv'
           /\ Others(t) /\ thread'[t].op = "auto" /\ thread'[t].pc = "rows"
           /\ thread'[t].todo = Rows(thread[t].read) \cup Newcomers(thread[t])
           /\ thread'[t].moved = thread[t].moved
<1> DEFINE rows == Rows(thread[t].read)
           todo == rows \cup Newcomers(thread[t])
<1>1. PICK l : l = [thread[t] EXCEPT !.todo = todo, !.pc = "rows"]
  OBVIOUS
<1>2. thread[t].pc = "check" /\ thread[t].op = "auto" /\ Become(t, l) /\ SyncAssignments(rows)
  BY <1>1 DEF Sync, At
<1>3. UNCHANGED <<allowed, keyGroup, snapshot, pool, run, routed, crossed, load>>
  BY DEF Sync, upstream, history, notes
<1>4. thread[t] \in Local /\ Well(thread[t]) /\ thread[t].op \in load
  BY <1>2, Working
<1>5. /\ rows \in SUBSET [user : Users, from : Groups, to : {NoGroup}]
      /\ todo \in SUBSET [user : Users, from : Groups, to : {NoGroup}]
  <2>1. thread[t].read \in SUBSET Groups /\ thread[t].landing \ thread[t].read \in SUBSET Groups
    BY <1>4 DEF Local
  <2> QED
    BY <2>1, RowsTyped DEF KInv, Newcomers
<1> HIDE DEF rows, todo
<1>6. /\ l \in Local /\ l.pc = "rows" /\ l.op = "auto" /\ l.todo = todo
      /\ l.moved = thread[t].moved
  <2>1. todo \in SUBSET Row
    BY <1>5 DEF Row, Spots
  <2> QED
    BY <1>1, <1>2, <1>4, <2>1 DEF Local, Pcs
<1>7. Well(l) /\ Follows(l)'
  BY <1>2, <1>3, <1>4, <1>5, <1>6 DEF Well, Stays, Follows
<1>8. /\ assign' \in [Users \X Platforms -> Spots]
      /\ \A up \in Users \X Platforms : assign'[up] # NoGroup => Platform[assign'[up]] = up[2]
  <2> DEFINE mine(up) == {r \in rows : r.user = up[1] /\ Platform[r.from] = up[2]}
             picked(up) == IF mine(up) = {} THEN assign[up] ELSE (CHOOSE r \in mine(up) : TRUE).from
  <2>1. assign' = [up \in Users \X Platforms |-> picked(up)]
    BY <1>2 DEF SyncAssignments, KInv, Data
  <2>2. ASSUME NEW up \in Users \X Platforms
        PROVE  picked(up) \in Spots /\ (picked(up) # NoGroup => Platform[picked(up)] = up[2])
    <3>1. CASE mine(up) = {}
      BY <3>1 DEF KInv, Data
    <3>2. CASE mine(up) # {}
      <4>1. (CHOOSE r \in mine(up) : TRUE) \in mine(up)
        BY <3>2
      <4> QED
        BY <1>5, <3>2, <4>1 DEF Spots
    <3> QED
      BY <3>1, <3>2
  <2> HIDE DEF picked
  <2> QED
    BY <2>1, <2>2
<1>9. Data'
  BY <1>3, <1>8 DEF KInv, Data, NoKeyOrphaned
<1> QED
  BY <1>2, <1>3, <1>6, <1>7, <1>9, Working, QuietSpares, StepHolds DEF todo, rows

LEMMA PickHolds ==
    ASSUME KInv, NEW t \in Threads, NEW row, NEW g \in Groups, Pick(t, row, g)
    PROVE  /\ KInv'
           /\ Others(t) /\ thread'[t].op = "auto" /\ thread'[t].pc = "replace"
           /\ thread'[t].user = row.user /\ thread'[t].from = row.from /\ thread'[t].to = g
           /\ thread'[t].todo = thread[t].todo \ {row} /\ thread'[t].moved = thread[t].moved
<1>1. PICK l : l = [thread[t] EXCEPT !.todo = @ \ {row}, !.user = row.user, !.from = row.from,
                                     !.to = g, !.pc = "replace"]
  OBVIOUS
<1>2. thread[t].pc = "rows" /\ thread[t].op = "auto" /\ row \in thread[t].todo /\ Become(t, l)
  BY <1>1 DEF Pick, At
<1>3. UNCHANGED <<allowed, keyGroup, snapshot, assign, pool, run, routed, crossed, load>>
  BY DEF Pick, upstream, store, history, notes
<1>4. thread[t] \in Local /\ Well(thread[t]) /\ thread[t].op \in load
  BY <1>2, Working
<1>5. row \in Row /\ row.from \in Groups /\ row.user \in Users
  BY <1>2, <1>4 DEF Local, Well, Stays, Row
<1>6. /\ l \in Local /\ l.pc = "replace" /\ l.op = "auto" /\ l.user = row.user /\ Stays(l)
      /\ l.from = row.from /\ l.to = g /\ l.todo = thread[t].todo \ {row}
      /\ l.moved = thread[t].moved
  BY <1>1, <1>2, <1>4, <1>5 DEF Local, Pcs, Spots, Stays, Pick
<1>7. Well(l) /\ Follows(l)
  BY <1>2, <1>4, <1>5, <1>6 DEF Well, Stays, Follows
<1> QED
  BY <1>2, <1>3, <1>6, <1>7, Working, ThreadOnly DEF Others

LEMMA SkipHolds ==
    ASSUME KInv, NEW t \in Threads, NEW row, Skip(t, row)
    PROVE  /\ KInv'
           /\ Others(t) /\ thread'[t].op = "auto" /\ thread'[t].pc = "rows"
           /\ thread'[t].todo = thread[t].todo \ {row} /\ thread'[t].moved = thread[t].moved
<1>1. PICK l : l = [thread[t] EXCEPT !.todo = @ \ {row}]
  OBVIOUS
<1>2. thread[t].pc = "rows" /\ thread[t].op = "auto" /\ Become(t, l)
  BY <1>1 DEF Skip, At
<1>3. UNCHANGED <<allowed, keyGroup, snapshot, assign, pool, run, routed, crossed, load>>
  BY DEF Skip, upstream, store, history, notes
<1>4. thread[t] \in Local /\ Well(thread[t]) /\ thread[t].op \in load
  BY <1>2, Working
<1>5. /\ l \in Local /\ l.pc = "rows" /\ l.op = "auto" /\ l.todo = thread[t].todo \ {row}
      /\ l.moved = thread[t].moved
  BY <1>1, <1>2, <1>4 DEF Local
<1>6. Well(l) /\ Follows(l)
  BY <1>2, <1>4, <1>5 DEF Well, Stays, Follows
<1> QED
  BY <1>2, <1>3, <1>5, <1>6, Working, ThreadOnly DEF Others

\* The group of a user that an operator moves, as collected or as stored; the users that a
\* migration takes up.
Current(l) ==
    LET direct == Direct(snapshot[l.user], Platform[l.to])
    IN  IF direct = NoGroup THEN l.from ELSE direct

Candidates(l) ==
    {[user |-> u, from |-> IF l.from \in allowed[u] THEN l.from ELSE NoGroup, to |-> l.to] :
        u \in {u \in Users : \/ Direct(allowed[u], Platform[l.from]) = l.from
                            \/ \E k \in Keys : Owner(k) = u /\ keyGroup[k] = l.from}}

\* An assignment that is stored, with nothing else.
LEMMA StoredHolds ==
    ASSUME KInv, NEW t \in Threads, thread[t].pc # "idle",
           NEW u \in Users, NEW q \in Platforms, NEW g \in Groups, Platform[g] = q,
           assign' \in {assign, [assign EXCEPT ![<<u, q>>] = g]},
           NEW l \in Local, Become(t, l), Well(l), l.pc \in {"idle", "rows", "replace"},
           l.pc # "idle" => l.op = thread[t].op,
           UNCHANGED <<allowed, keyGroup, snapshot, pool, run, routed, crossed, load>>
    PROVE  KInv' /\ thread'[t] = l /\ Others(t)
<1>1. /\ assign' \in [Users \X Platforms -> Spots]
      /\ \A up \in Users \X Platforms : assign'[up] # NoGroup => Platform[assign'[up]] = up[2]
  <2>1. /\ assign \in [Users \X Platforms -> Spots]
        /\ \A up \in Users \X Platforms : assign[up] # NoGroup => Platform[assign[up]] = up[2]
    BY DEF KInv, Data
  <2>2. CASE assign' = assign
    BY <2>1, <2>2
  <2>3. CASE assign' = [assign EXCEPT ![<<u, q>>] = g]
    <3>1. g \in Spots
      BY DEF Spots
    <3>2. assign' \in [Users \X Platforms -> Spots]
      BY <2>1, <2>3, <3>1
    <3>3. ASSUME NEW up \in Users \X Platforms, assign'[up] # NoGroup
          PROVE  Platform[assign'[up]] = up[2]
      <4>1. CASE up = <<u, q>>
        BY <2>1, <2>3, <4>1
      <4>2. CASE up # <<u, q>>
        BY <2>1, <2>3, <3>3, <4>2
      <4> QED
        BY <4>1, <4>2
    <3> QED
      BY <3>2, <3>3
  <2> QED
    BY <2>2, <2>3
<1>2. Data'
  BY <1>1 DEF KInv, Data, NoKeyOrphaned
<1>3. Follows(l)'
  BY Working DEF Follows
<1> QED
  BY <1>2, <1>3, Working, QuietSpares, StepHolds

LEMMA StoreHolds ==
    ASSUME KInv, NEW t \in Threads, Store(t)
    PROVE  /\ KInv'
           /\ \/ Ends(t)
              \/ thread[t].op = "migrate" /\ Steps(t, "rows")
              \/ /\ Others(t) /\ thread[t].op \in {"auto", "rollback"} /\ thread'[t].pc = "rows"
                 /\ thread'[t].op = thread[t].op /\ thread'[t].todo = thread[t].todo
                 /\ thread'[t].moved = thread[t].moved \cup {MovedItem(thread[t])}
<1>1. thread[t].pc = "store"
  BY DEF Store
<1>2. UNCHANGED <<allowed, keyGroup, snapshot, pool, run, routed, crossed, load>>
  BY DEF Store, upstream, history, notes
<1>3. thread[t] \in Local /\ Well(thread[t])
  BY <1>1, Working
<1>4. thread[t].user \in Users /\ thread[t].to \in Groups /\ Platform[thread[t].to] \in Platforms
  BY <1>1, <1>3 DEF Well, Stays, Platforms
<1>5. assign' = [assign EXCEPT ![<<thread[t].user, Platform[thread[t].to]>>] = thread[t].to]
  BY DEF Store
<1>6. \E l \in Local : /\ Become(t, l) /\ Well(l) /\ l.pc \in {"idle", "rows"}
                       /\ l.pc # "idle" => l.op = thread[t].op
                       /\ \/ l = Idle
                          \/ l.pc = "rows" /\ thread[t].op = "migrate" /\ Same(l, thread[t])
                          \/ /\ l.pc = "rows" /\ thread[t].op \in {"auto", "rollback"}
                             /\ l.todo = thread[t].todo
                             /\ l.moved = thread[t].moved \cup {MovedItem(thread[t])}
  <2>1. CASE thread[t].op \in {"auto", "rollback"}
    <3>1. PICK l : l = [thread[t] EXCEPT !.moved = @ \cup {MovedItem(thread[t])}, !.was = {},
                                         !.pc = "rows"]
      OBVIOUS
    <3>2. MovedItem(thread[t]) \in Move
      BY <1>1, <1>3, <1>4, <2>1 DEF MovedItem, Move, Item, Well, Stays, Local
    <3>3. /\ l \in Local /\ l.pc = "rows" /\ l.op = thread[t].op /\ l.todo = thread[t].todo
          /\ l.moved = thread[t].moved \cup {MovedItem(thread[t])}
      BY <1>3, <3>1, <3>2 DEF Local, Pcs
    <3>4. Well(l)
      BY <1>3, <2>1, <3>3 DEF Well, Stays
    <3>5. Become(t, l)
      BY <2>1, <3>1 DEF Store
    <3> QED
      BY <2>1, <3>3, <3>4, <3>5
  <2>2. CASE thread[t].op = "migrate"
    <3>1. PICK l : l = [thread[t] EXCEPT !.was = {}, !.pc = "rows"]
      OBVIOUS
    <3>2. l \in Local /\ l.pc = "rows" /\ Same(l, thread[t])
      BY <1>3, <2>2, <3>1 DEF Local, Pcs, Same
    <3>3. Well(l)
      BY <1>3, <2>2, <3>2 DEF Well, Stays, Same
    <3>4. Become(t, l)
      BY <2>2, <3>1 DEF Store
    <3> QED
      BY <2>2, <3>2, <3>3, <3>4 DEF Same
  <2>3. CASE thread[t].op \notin {"auto", "rollback", "migrate"}
    <3>1. Become(t, Idle)
      BY <2>3 DEF Store
    <3> QED
      BY <3>1, IdleTyped
  <2> QED
    BY <2>1, <2>2, <2>3
<1>7. PICK l \in Local :
         /\ Become(t, l) /\ Well(l) /\ l.pc \in {"idle", "rows"}
         /\ l.pc # "idle" => l.op = thread[t].op
         /\ \/ l = Idle
            \/ l.pc = "rows" /\ thread[t].op = "migrate" /\ Same(l, thread[t])
            \/ /\ l.pc = "rows" /\ thread[t].op \in {"auto", "rollback"}
               /\ l.todo = thread[t].todo /\ l.moved = thread[t].moved \cup {MovedItem(thread[t])}
  BY <1>6
<1>8. KInv' /\ thread'[t] = l /\ Others(t)
  BY <1>1, <1>2, <1>4, <1>5, <1>7, StoredHolds
<1> QED
  BY <1>7, <1>8 DEF Ends, Steps

\* When a run is recorded, rollbacks of older runs no longer own the record.
LEMMA FinishAutoHolds ==
    ASSUME KInv, NEW t \in Threads, FinishAuto(t)
    PROVE  /\ KInv'
           /\ \/ Ends(t) /\ run' = run
              \/ /\ thread'[t] = Idle /\ run'.moved = thread[t].moved /\ run'.undone = {}
                 /\ \A s \in Threads \ {t} : Alike(thread'[s], thread[s])
<1>1. thread[t].pc = "rows"
  BY DEF FinishAuto, At
<1>2. UNCHANGED <<allowed, keyGroup, snapshot, assign, pool, routed, crossed, load>>
  BY DEF FinishAuto, upstream, history, notes
<1>3. CASE thread[t].moved = {}
  BY <1>1, <1>2, <1>3, EndsIdle DEF FinishAuto
<1>4. CASE thread[t].moved # {}
  <2>1. /\ run' = [moved |-> thread[t].moved, undone |-> {}, status |-> "none"]
        /\ thread' = [s \in Threads |-> IF s = t THEN Idle
                                        ELSE [thread[s] EXCEPT !.owns = FALSE]]
    BY <1>4 DEF FinishAuto
  <2>2. Data'
    <3>1. thread[t].moved \in SUBSET Move
      BY DEF KInv, Local
    <3> QED
      BY <1>2, <2>1, <3>1 DEF KInv, Data, NoKeyOrphaned
  <2>3. ASSUME NEW s \in Threads
        PROVE  /\ thread'[s] \in Local /\ Well(thread'[s]) /\ Follows(thread[s])'
               /\ thread'[s].pc # "idle" => thread[s].pc # "idle"
               /\ s # t => Alike(thread'[s], thread[s])
    <3>1. CASE s = t
      <4>1. thread'[s] = Idle /\ Follows(Idle)'
        BY <2>1, <3>1, IdleTyped DEF Follows, Same
      <4> QED
        BY <3>1, <4>1, IdleTyped
    <3>2. CASE s # t
      <4>1. PICK l : l = [thread[s] EXCEPT !.owns = FALSE]
        OBVIOUS
      <4>2. thread[s] \in Local /\ Well(thread[s]) /\ Follows(thread[s])
        BY DEF KInv
      <4>3. /\ l \in Local /\ l.pc = thread[s].pc /\ Same(l, thread[s])
            /\ l.keys = thread[s].keys /\ l.read = thread[s].read
            /\ l.account = thread[s].account
        BY <4>1, <4>2 DEF Local, Same
      <4>4. Well(l)
        BY <4>2, <4>3 DEF Well, Stays, Same
      <4>5. thread'[s] = l
        BY <2>1, <3>2, <4>1
      <4>6. Follows(thread[s])'
        BY <1>2, <4>2, <4>3, <4>5 DEF Follows, Same
      <4> QED
        BY <3>2, <4>3, <4>4, <4>5, <4>6 DEF Alike
    <3> QED
      BY <3>1, <3>2
  <2>4. thread' \in [Threads -> Local]
    BY <2>1, <2>3
  <2>5. KInv'
    BY <1>2, <2>2, <2>3, <2>4 DEF KInv
  <2> QED
    BY <2>1, <2>3, <2>5
<1> QED
  BY <1>3, <1>4

-----------------------------------------------------------------------------
(* Operators' moves.                                                       *)

LEMMA CheckManualHolds ==
    ASSUME KInv, NEW t \in Threads, CheckManual(t)
    PROVE  /\ KInv'
           /\ \/ Ends(t)
              \/ /\ Others(t) /\ thread'[t].op = "manual" /\ thread'[t].pc = "replace"
                 /\ thread'[t].user = thread[t].user /\ thread'[t].to = thread[t].to
                 /\ thread'[t].from = Current(thread[t])
<1> DEFINE p == Platform[thread[t].to]
           direct == Direct(snapshot[thread[t].user], p)
           current == IF direct = NoGroup THEN thread[t].from ELSE direct
<1>1. thread[t].pc = "check" /\ thread[t].op = "manual"
  BY DEF CheckManual, At
<1>2. UNCHANGED <<allowed, keyGroup, snapshot, pool, run, routed, crossed, load>>
  BY DEF CheckManual, upstream, history, notes
<1>3. thread[t] \in Local /\ Well(thread[t])
  BY <1>1, Working
<1>4. thread[t].user \in Users /\ thread[t].to \in Groups /\ p \in Platforms
  BY <1>1, <1>3 DEF Well, Stays, Platforms
<1>5. current \in Groups /\ Platform[current] = p
  <2>1. snapshot[thread[t].user] \in SUBSET Groups
    BY <1>4 DEF KInv, Data
  <2>2. direct \in Spots /\ (direct # NoGroup => Platform[direct] = p)
    BY <2>1, DirectTyped
  <2> QED
    BY <1>1, <1>3, <2>2 DEF Well, Stays, Spots
<1>6. assign' \in {assign, [assign EXCEPT ![<<thread[t].user, p>>] = current]}
  BY DEF CheckManual
<1>7. PICK l : l = [thread[t] EXCEPT !.from = current, !.pc = "replace"]
  OBVIOUS
<1>8. Become(t, l) \/ Become(t, Idle)
  BY <1>7 DEF CheckManual
<1> HIDE DEF current, direct, p
<1>9. CASE Become(t, l)
  <2>1. /\ l \in Local /\ l.pc = "replace" /\ l.op = "manual" /\ l.user = thread[t].user
        /\ Stays(l) /\ l.to = thread[t].to /\ l.from = current
    BY <1>1, <1>3, <1>4, <1>5, <1>7 DEF Local, Pcs, Spots, Stays, p
  <2>2. Well(l)
    BY <1>4, <2>1 DEF Well, Stays
  <2> QED
    BY <1>1, <1>2, <1>4, <1>5, <1>6, <1>9, <2>1, <2>2, StoredHolds DEF Current, current, direct, p
<1>10. CASE Become(t, Idle)
  <2>1. PICK m : m = Idle
    OBVIOUS
  <2>2. m \in Local /\ m.pc = "idle" /\ Well(m) /\ Become(t, m)
    BY <1>10, <2>1, IdleTyped
  <2> QED
    BY <1>1, <1>2, <1>4, <1>5, <1>6, <2>1, <2>2, StoredHolds DEF Ends
<1> QED
  BY <1>8, <1>9, <1>10 DEF Ends

\* A user whose keys are only sorted out is authorised for the group, as what has just been
\* collected says.
LEMMA CheckAssignHolds ==
    ASSUME KInv, NEW t \in Threads, CheckAssign(t)
    PROVE  /\ KInv'
           /\ \/ Ends(t)
              \/ /\ Others(t) /\ thread'[t].op = "assign"
                 /\ thread'[t].user = thread[t].user /\ thread'[t].to = thread[t].to
                 /\ LET direct == Direct(snapshot[thread[t].user], Platform[thread[t].to])
                    IN  /\ thread'[t].from = direct
                        /\ \/ thread'[t].pc = "list"
                           \/ /\ thread'[t].pc = "read"
                              /\ OnPlatform(snapshot[thread[t].user], Platform[thread[t].to]) = {}
                           \/ thread'[t].pc = "replace" /\ direct # NoGroup
<1> DEFINE direct == Direct(snapshot[thread[t].user], Platform[thread[t].to])
           next == CASE direct = thread[t].to -> "list"
                     [] direct = NoGroup -> "read"
                     [] OTHER -> "replace"
           vacant == OnPlatform(snapshot[thread[t].user], Platform[thread[t].to]) = {}
<1>1. thread[t].pc = "check" /\ thread[t].op = "assign"
  BY DEF CheckAssign, At
<1>2. UNCHANGED <<allowed, keyGroup, snapshot, assign, pool, run, routed, crossed, load>>
  BY DEF CheckAssign, upstream, store, history, notes
<1>3. thread[t] \in Local /\ Well(thread[t]) /\ Follows(thread[t]) /\ thread[t].op \in load
  BY <1>1, Working
<1>4. /\ thread[t].user \in Users /\ thread[t].to \in Groups
      /\ thread[t].user \notin crossed.grants =>
            snapshot[thread[t].user] = allowed[thread[t].user]
  BY <1>1, <1>3 DEF Well, Follows
<1>5. /\ direct \in Spots
      /\ direct # NoGroup => /\ direct \in snapshot[thread[t].user]
                            /\ Platform[direct] = Platform[thread[t].to]
  BY <1>4, DirectTyped DEF KInv, Data
<1>6. /\ next \in {"list", "read", "replace"} /\ (next = "list" => direct = thread[t].to)
      /\ next = "replace" => direct # NoGroup
      /\ next = "read" => direct = NoGroup
  OBVIOUS
<1>7. PICK l : l = [thread[t] EXCEPT !.from = direct,
                                     !.unassigned = direct \notin {NoGroup, thread[t].to},
                                     !.pc = next]
  OBVIOUS
<1>8. Become(t, Idle) \/ (Become(t, l) /\ (direct = NoGroup => vacant))
  <2> DEFINE may == MayAssign(thread[t], OnPlatform(snapshot[thread[t].user],
                                                    Platform[thread[t].to]), direct)
  <2>1. Become(t, IF ~may THEN Idle ELSE l)
    BY <1>7 DEF CheckAssign
  <2>2. may /\ direct = NoGroup => vacant
    BY DEF MayAssign
  <2> QED
    BY <2>1, <2>2
<1> HIDE DEF direct, next, vacant
<1>9. CASE Become(t, l) /\ (direct = NoGroup => vacant)
  <2>1. (direct \notin {NoGroup, thread[t].to}) \in BOOLEAN
    OBVIOUS
  <2>2. /\ l \in Local /\ l.pc = next /\ l.op = "assign" /\ l.user = thread[t].user
        /\ l.to = thread[t].to /\ l.from = direct
    <3>1. next \in Pcs /\ thread[t].op = "assign"
      BY <1>1, <1>6 DEF Pcs
    <3> QED
      BY <1>3, <1>5, <1>7, <2>1, <3>1 DEF Local
  <2>3. Well(l)
    BY <1>4, <1>5, <1>6, <2>2 DEF Well, Stays, Spots
  <2>4. l.user \notin crossed.grants /\ next = "list" => l.to \in allowed[l.user]
    BY <1>4, <1>5, <1>6, <2>2, GroupRotationAssumption DEF GroupRotationAssumption
  <2>5. Follows(l)
    BY <1>1, <1>3, <1>6, <2>2, <2>4 DEF Follows, Granting
  <2> QED
    <3>1. KInv' /\ thread'[t] = l /\ Others(t)
      BY <1>1, <1>2, <1>9, <2>2, <2>3, <2>5, Working, ThreadOnly
    <3> QED
      BY <1>6, <1>9, <2>2, <3>1 DEF direct, vacant
<1>10. CASE Become(t, Idle)
  BY <1>1, <1>2, <1>10, EndsIdle
<1> QED
  BY <1>8, <1>9, <1>10 DEF Ends

LEMMA ListCandidatesHolds ==
    ASSUME KInv, NEW t \in Threads, ListCandidates(t)
    PROVE  /\ KInv'
           /\ Others(t) /\ thread'[t].op = "migrate" /\ thread'[t].pc = "rows"
           /\ thread'[t].from = thread[t].from /\ thread'[t].to = thread[t].to
           /\ thread'[t].todo = Candidates(thread[t])
<1> DEFINE candidates == {u \in Users :
               \/ Direct(allowed[u], Platform[thread[t].from]) = thread[t].from
               \/ \E k \in Keys : Owner(k) = u /\ keyGroup[k] = thread[t].from}
           rows == {[user |-> u,
                     from |-> IF thread[t].from \in allowed[u] THEN thread[t].from ELSE NoGroup,
                     to |-> thread[t].to] : u \in candidates}
<1>1. PICK l : l = [thread[t] EXCEPT !.pc = "rows", !.todo = rows]
  OBVIOUS
<1>2. thread[t].pc = "check" /\ thread[t].op = "migrate" /\ Become(t, l)
  BY <1>1 DEF ListCandidates, At
<1>3. UNCHANGED <<allowed, keyGroup, snapshot, assign, pool, run, routed, crossed, load>>
  BY DEF ListCandidates, upstream, store, history, notes
<1>4. thread[t] \in Local /\ Well(thread[t]) /\ thread[t].op \in load
  BY <1>2, Working
<1>5. thread[t].to \in Groups /\ thread[t].from \in Spots
  BY <1>2, <1>4 DEF Well, Stays, Local
<1>6. rows \in SUBSET Row
  BY <1>5 DEF Row, Spots
<1> HIDE DEF rows, candidates
<1>7. /\ l \in Local /\ l.pc = "rows" /\ l.op = "migrate" /\ l.to = thread[t].to
      /\ l.from = thread[t].from /\ l.todo = rows
  BY <1>1, <1>2, <1>4, <1>6 DEF Local, Pcs
<1>8. Well(l) /\ Follows(l)
  BY <1>2, <1>4, <1>5, <1>7 DEF Well, Stays, Follows
<1> QED
  BY <1>2, <1>3, <1>7, <1>8, Working, ThreadOnly DEF rows, candidates, Candidates

LEMMA NextCandidateHolds ==
    ASSUME KInv, NEW t \in Threads, NEW row, NextCandidate(t, row)
    PROVE  /\ KInv'
           /\ Others(t) /\ thread'[t].op = "migrate"
           /\ thread'[t].pc = (IF row.from = NoGroup THEN "read" ELSE "replace")
           /\ thread'[t].from = thread[t].from /\ thread'[t].to = thread[t].to
           /\ thread'[t].user = row.user /\ thread'[t].todo = thread[t].todo \ {row}
<1>1. PICK l : l = [thread[t] EXCEPT !.todo = @ \ {row}, !.user = row.user,
                                     !.pc = IF row.from = NoGroup THEN "read" ELSE "replace"]
  OBVIOUS
<1>2. thread[t].pc = "rows" /\ thread[t].op = "migrate" /\ row \in thread[t].todo /\ Become(t, l)
  BY <1>1 DEF NextCandidate, At
<1>3. UNCHANGED <<allowed, keyGroup, snapshot, assign, pool, run, routed, crossed, load>>
  BY DEF NextCandidate, upstream, store, history, notes
<1>4. thread[t] \in Local /\ Well(thread[t]) /\ thread[t].op \in load
  BY <1>2, Working
<1>5. row.user \in Users /\ Stays(thread[t])
  BY <1>2, <1>4 DEF Local, Well, Row
<1>6. /\ l \in Local /\ l.pc = (IF row.from = NoGroup THEN "read" ELSE "replace")
      /\ l.op = "migrate" /\ l.user = row.user /\ Stays(l) /\ l.from = thread[t].from
      /\ l.to = thread[t].to /\ l.todo = thread[t].todo \ {row}
  BY <1>1, <1>2, <1>4, <1>5 DEF Local, Pcs, Stays
<1>7. Well(l) /\ Follows(l)
  BY <1>2, <1>4, <1>5, <1>6 DEF Well, Stays, Follows, Granting
<1> QED
  BY <1>2, <1>3, <1>6, <1>7, Working, ThreadOnly DEF Others

LEMMA FinishMigrateHolds ==
    ASSUME KInv, NEW t \in Threads, FinishMigrate(t)
    PROVE  KInv' /\ Ends(t)
<1>1. thread[t].pc # "idle" /\ Become(t, Idle)
  BY DEF FinishMigrate, At
<1>2. UNCHANGED <<allowed, keyGroup, snapshot, assign, pool, run, routed, crossed, load>>
  BY DEF FinishMigrate, upstream, store, history, notes
<1> QED
  BY <1>1, <1>2, EndsIdle DEF Ends

LEMMA CheckKeyHolds ==
    ASSUME KInv, NEW t \in Threads, CheckKey(t)
    PROVE  /\ KInv'
           /\ \/ Ends(t) \/ Steps(t, "unseen")
              \/ /\ Steps(t, "seen")
                 /\ keyGroup[thread[t].key] = NoGroup
                    \/ Platform[keyGroup[thread[t].key]] = Platform[thread[t].to]
<1> DEFINE fits == \/ keyGroup[thread[t].key] = NoGroup
                  \/ Platform[keyGroup[thread[t].key]] = Platform[thread[t].to]
<1>1. PICK l, m : l = [thread[t] EXCEPT !.pc = "seen"] /\ m = [thread[t] EXCEPT !.pc = "unseen"]
  OBVIOUS
<1>2. /\ thread[t].pc = "check" /\ thread[t].op = "key"
      /\ (Become(t, l) /\ fits) \/ Become(t, m) \/ Become(t, Idle)
  BY <1>1 DEF CheckKey, At
<1>3. UNCHANGED <<allowed, keyGroup, snapshot, assign, pool, run, routed, crossed, load>>
  BY DEF CheckKey, upstream, store, history, notes
<1>4. thread[t] \in Local /\ Well(thread[t]) /\ thread[t].op \in load
  BY <1>2, Working
<1>5. ASSUME NEW n \in {l, m}
      PROVE  n \in Local /\ Well(n) /\ Follows(n) /\ Same(n, thread[t])
  <2>1. /\ n \in Local /\ n.pc \in {"seen", "unseen"} /\ n.op = "key" /\ Same(n, thread[t])
    BY <1>1, <1>2, <1>4 DEF Local, Pcs, Same
  <2> QED
    BY <1>2, <1>4, <2>1 DEF Well, Stays, Same, Follows
<1>6. CASE Become(t, l) /\ fits
  BY <1>1, <1>2, <1>3, <1>4, <1>5, <1>6, Working, ThreadOnly DEF Steps, Local
<1>7. CASE Become(t, m)
  BY <1>1, <1>2, <1>3, <1>4, <1>5, <1>7, Working, ThreadOnly DEF Steps, Local
<1>8. CASE Become(t, Idle)
  BY <1>2, <1>3, <1>8, EndsIdle
<1> QED
  BY <1>2, <1>6, <1>7, <1>8

\* A key that an operator routes is remembered as one.
LEMMA RouteKeyHolds ==
    ASSUME KInv, NEW t \in Threads, RouteKey(t)
    PROVE  KInv' /\ Ends(t)
<1>1. thread[t].pc \in {"seen", "unseen"} /\ Become(t, Idle) /\ Cross(t)
  BY DEF RouteKey
<1>2. UNCHANGED <<allowed, snapshot, assign, pool, run, load>>
  BY DEF RouteKey, store
<1>3. thread[t].key \in Keys /\ thread[t].to \in Groups
  BY <1>1, Working DEF Well, Stays
<1>4. \/ /\ keyGroup' = [keyGroup EXCEPT ![thread[t].key] = thread[t].to]
         /\ routed' = [routed EXCEPT ![thread[t].key] = IF @ = "unseen" THEN @ ELSE thread[t].pc]
      \/ UNCHANGED <<keyGroup, routed>>
  BY DEF RouteKey
<1>5. /\ keyGroup' \in [Keys -> Spots]
      /\ routed' \in [Keys -> {"never", "seen", "unseen"}]
      /\ \A k \in Keys : routed'[k] = "never" => routed[k] = "never" /\ keyGroup'[k] = keyGroup[k]
  BY <1>1, <1>3, <1>4 DEF KInv, Data, Spots
<1>6. Data'
  <2>1. crossed' \in Crossings /\ crossed.grants \subseteq crossed'.grants
    BY <1>1, CrossNotes
  <2>2. NoKeyOrphaned'
    BY <1>2, <1>5, <2>1 DEF KInv, Data, NoKeyOrphaned
  <2> QED
    BY <1>2, <1>5, <2>1, <2>2 DEF KInv, Data
<1>7. PICK l : l = Idle
  OBVIOUS
<1>8. l \in Local /\ Well(l) /\ Follows(l)' /\ Become(t, l)
  BY <1>1, <1>7, IdleTyped DEF Follows
<1> QED
  BY <1>1, <1>2, <1>6, <1>7, <1>8, CrossSpares, StepHolds DEF Ends

LEMMA CheckRollbackHolds ==
    ASSUME KInv, NEW t \in Threads, CheckRollback(t)
    PROVE  KInv' /\ Steps(t, "rows")
<1>1. PICK l : l = [thread[t] EXCEPT !.pc = "rows"]
  OBVIOUS
<1>2. thread[t].pc = "check" /\ thread[t].op = "rollback" /\ Become(t, l)
  BY <1>1 DEF CheckRollback, At
<1>3. UNCHANGED <<allowed, keyGroup, snapshot, assign, pool, run, routed, crossed, load>>
  BY DEF CheckRollback, upstream, store, history, notes
<1>4. thread[t] \in Local /\ Well(thread[t]) /\ thread[t].op \in load
  BY <1>2, Working
<1>5. l \in Local /\ l.pc = "rows" /\ Same(l, thread[t])
  BY <1>1, <1>4 DEF Local, Pcs, Same
<1>6. Well(l) /\ Follows(l)
  BY <1>2, <1>4, <1>5 DEF Well, Stays, Follows, Same
<1> QED
  BY <1>2, <1>3, <1>5, <1>6, Working, ThreadOnly DEF Steps

LEMMA NextItemHolds ==
    ASSUME KInv, NEW t \in Threads, NEW row, NextItem(t, row)
    PROVE  /\ KInv'
           /\ Others(t) /\ thread'[t].op = "rollback" /\ thread'[t].pc = "replace"
           /\ thread'[t].user = row.user /\ thread'[t].from = row.from /\ thread'[t].to = row.to
           /\ thread'[t].todo = thread[t].todo \ {row} /\ thread'[t].moved = thread[t].moved
<1>1. PICK l : l = [thread[t] EXCEPT !.todo = @ \ {row}, !.user = row.user, !.from = row.from,
                                     !.to = row.to, !.pc = "replace"]
  OBVIOUS
<1>2. thread[t].pc = "rows" /\ thread[t].op = "rollback" /\ row \in thread[t].todo /\ Become(t, l)
  BY <1>1 DEF NextItem, At
<1>3. UNCHANGED <<allowed, keyGroup, snapshot, assign, pool, run, routed, crossed, load>>
  BY DEF NextItem, upstream, store, history, notes
<1>4. thread[t] \in Local /\ Well(thread[t]) /\ thread[t].op \in load
  BY <1>2, Working
<1>5. row.user \in Users /\ Stays(row)
  BY <1>2, <1>4 DEF Local, Well, Row
<1>6. /\ l \in Local /\ l.pc = "replace" /\ l.op = "rollback" /\ l.user = row.user
      /\ Stays(l) /\ l.from = row.from /\ l.to = row.to /\ l.todo = thread[t].todo \ {row}
      /\ l.moved = thread[t].moved
  BY <1>1, <1>2, <1>4, <1>5 DEF Local, Pcs, Spots, Stays
<1>7. Well(l) /\ Follows(l)
  BY <1>2, <1>4, <1>5, <1>6 DEF Well, Stays, Follows
<1> QED
  BY <1>2, <1>3, <1>6, <1>7, Working, ThreadOnly DEF Others

LEMMA FinishRollbackHolds ==
    ASSUME KInv, NEW t \in Threads, FinishRollback(t)
    PROVE  KInv' /\ Ends(t)
<1> DEFINE undone == {m \in run.moved : \E n \in thread[t].moved : /\ n.user = m.user
                                                                   /\ n.from = m.to /\ n.to = m.from}
           status == IF thread[t].moved = {} THEN "failed" ELSE "completed"
<1>1. thread[t].pc = "rows" /\ Become(t, Idle)
  BY DEF FinishRollback, At
<1>2. UNCHANGED <<allowed, keyGroup, snapshot, assign, pool, routed, crossed, load>>
  BY DEF FinishRollback, upstream, history, notes
<1>3. run' \in {run, [run EXCEPT !.undone = undone, !.status = status]}
  BY DEF FinishRollback
<1>4. undone \in SUBSET Move /\ status \in {"none", "completed", "failed"}
  BY DEF KInv, Data
<1> HIDE DEF undone, status
<1>5. Data'
  BY <1>2, <1>3, <1>4 DEF KInv, Data, NoKeyOrphaned
<1>6. PICK l : l = Idle
  OBVIOUS
<1>7. l \in Local /\ Well(l) /\ Follows(l)' /\ Become(t, l)
  BY <1>1, <1>6, IdleTyped DEF Follows
<1> QED
  BY <1>1, <1>2, <1>5, <1>6, <1>7, Working, QuietSpares, StepHolds DEF Ends

-----------------------------------------------------------------------------
(* The rest of the system, and the invariant.                              *)

\* The pools, the switch and the flows change none of what the keys depend on.
LEMMA AsideHolds ==
    ASSUME KInv, pool' \in [PoolKinds -> SUBSET Groups],
           UNCHANGED <<allowed, keyGroup, snapshot, assign, run, routed, thread, crossed, load>>
    PROVE  KInv'
<1>1. Data'
  BY DEF KInv, Data, NoKeyOrphaned
<1>2. ASSUME NEW t \in Threads PROVE Follows(thread[t])'
  BY DEF KInv, Follows
<1> QED
  BY <1>1, <1>2 DEF KInv

LEMMA PoolHolds ==
    ASSUME KInv, NEW kind \in PoolKinds, NEW g \in Groups,
           AddToPool(kind, g) \/ RemoveFromPool(kind, g)
    PROVE  KInv'
<1>1. pool' \in [PoolKinds -> SUBSET Groups]
  BY DEF AddToPool, RemoveFromPool, KInv, Data
<1>2. UNCHANGED <<allowed, keyGroup, snapshot, assign, run, routed, thread, crossed, load>>
  BY DEF AddToPool, RemoveFromPool, upstream, history, notes
<1> QED
  BY <1>1, <1>2, AsideHolds

LEMMA SwitchHolds ==
    ASSUME KInv, SetEnabled \/ (\E u \in Users : FlowEnds(u)) \/ UNCHANGED vars
    PROVE  KInv'
<1>1. UNCHANGED <<allowed, keyGroup, snapshot, assign, pool, run, routed, thread, crossed, load>>
  BY DEF SetEnabled, FlowEnds, vars, upstream, store, history, notes
<1>2. pool' \in [PoolKinds -> SUBSET Groups]
  BY <1>1 DEF KInv, Data
<1> QED
  BY <1>1, <1>2, AsideHolds

LEMMA StartsHold ==
    ASSUME KInv, NEW t \in Threads, Starts(t)
    PROVE  KInv'
<1>1. CASE \E u \in Users, g \in Groups : StartManual(t, u, g)
  BY <1>1, StartManualHolds
<1>2. CASE \E u \in Users, g \in Groups, source \in Groups \cup {NoGroup} :
              StartAssign(t, u, source, g)
  BY <1>2, StartAssignHolds
<1>3. CASE \E s, g \in Groups : StartMigrate(t, s, g)
  BY <1>3, StartMigrateHolds
<1>4. CASE \E k \in Keys, hint \in Groups \cup {NoGroup}, g \in Groups : StartKey(t, k, hint, g)
  BY <1>4, StartKeyHolds
<1>5. CASE StartRollback(t)
  BY <1>5, StartRollbackHolds
<1> QED
  BY <1>1, <1>2, <1>3, <1>4, <1>5 DEF Starts

BoundTyped == bound \in [Accounts -> SUBSET Groups]

LEMMA AnsweredHolds ==
    ASSUME KInv, BoundTyped, NEW t \in Threads, Answered(t)
    PROVE  KInv'
<1>1. CASE Refresh(t) \/ Sync(t) \/ CheckManual(t) \/ CheckAssign(t) \/ ListCandidates(t)
  BY <1>1, RefreshHolds, SyncHolds, CheckManualHolds, CheckAssignHolds, ListCandidatesHolds
<1>2. CASE CheckKey(t) \/ CheckRollback(t) \/ Replace(t) \/ ReadGrants(t) \/ Grant(t)
  BY <1>2, CheckKeyHolds, CheckRollbackHolds, ReplaceHolds, ReadGrantsHolds, GrantHolds
<1>3. CASE ListKeys(t) \/ Bind(t) \/ \E a \in Accounts : ReadAccount(t, a)
  BY <1>3, ListKeysHolds, BindHolds, ReadAccountHolds DEF BoundTyped
<1>4. CASE (\E item \in thread[t].keys : MoveKey(t, item)) \/ KeysMoved(t) \/ RouteKey(t)
           \/ Store(t)
  BY <1>4, MoveKeyHolds, KeysMovedHolds, RouteKeyHolds, StoreHolds
<1>5. CASE \E row \in thread[t].todo :
              \/ \E g \in Groups : Pick(t, row, g)
              \/ Skip(t, row) \/ NextCandidate(t, row) \/ NextItem(t, row)
  BY <1>5, PickHolds, SkipHolds, NextCandidateHolds, NextItemHolds
<1>6. CASE FinishAuto(t) \/ FinishMigrate(t) \/ FinishRollback(t)
  BY <1>6, FinishAutoHolds, FinishMigrateHolds, FinishRollbackHolds
<1> QED
  BY <1>1, <1>2, <1>3, <1>4, <1>5, <1>6 DEF Answered

LEMMA FailedHolds ==
    ASSUME KInv, NEW t \in Threads, Failed(t)
    PROVE  KInv'
BY AbandonHolds, ReplaceFailsHolds, GrantFailsHolds, MoveKeyFailsHolds DEF Failed

LEMMA NextHolds ==
    ASSUME KInv, BoundTyped, [Next]_vars
    PROVE  KInv'
<1>1. CASE \E t \in Threads, p \in Platforms : StartAuto(t, Platforms) \/ StartAuto(t, {p})
  BY <1>1, StartAutoHolds
<1>2. CASE \E t \in Threads : Starts(t) \/ Answered(t) \/ Failed(t)
  BY <1>2, StartsHold, AnsweredHolds, FailedHolds
<1>3. CASE \E kind \in PoolKinds, g \in Groups : AddToPool(kind, g) \/ RemoveFromPool(kind, g)
  BY <1>3, PoolHolds
<1>4. CASE SetEnabled \/ (\E u \in Users : FlowEnds(u)) \/ UNCHANGED vars
  BY <1>4, SwitchHolds
<1>5. CASE Crash
  BY <1>5, CrashHolds
<1> QED
  BY <1>1, <1>2, <1>3, <1>4, <1>5 DEF Next

\* Whatever a thread changes upstream, it is noted whose reading that crosses.
LEMMA StepCrosses ==
    ASSUME NEW t \in Threads,
           Starts(t) \/ Answered(t) \/ Failed(t) \/ \E scope : StartAuto(t, scope)
    PROVE  Cross(t) \/ UNCHANGED <<upstream, crossed>>
<1> USE DEF history, notes
<1>1. CASE Answered(t)
  <2>1. CASE \/ Refresh(t) \/ Sync(t) \/ CheckManual(t) \/ CheckAssign(t) \/ ListCandidates(t)
             \/ CheckKey(t) \/ CheckRollback(t) \/ ReadGrants(t)
    BY <2>1 DEF Refresh, Sync, CheckManual, CheckAssign, ListCandidates, CheckKey, CheckRollback,
                ReadGrants
  <2>2. CASE ListKeys(t) \/ KeysMoved(t) \/ Store(t) \/ \E a \in Accounts : ReadAccount(t, a)
    BY <2>2 DEF ListKeys, KeysMoved, Store, ReadAccount
  <2>3. CASE \E row \in thread[t].todo :
                \/ \E g \in Groups : Pick(t, row, g)
                \/ Skip(t, row) \/ NextCandidate(t, row) \/ NextItem(t, row)
    BY <2>3 DEF Pick, Skip, NextCandidate, NextItem
  <2>4. CASE FinishAuto(t) \/ FinishMigrate(t) \/ FinishRollback(t)
    BY <2>4 DEF FinishAuto, FinishMigrate, FinishRollback
  <2>5. CASE \/ Replace(t) \/ Grant(t) \/ Bind(t) \/ RouteKey(t)
             \/ \E item \in thread[t].keys : MoveKey(t, item)
    BY <2>5 DEF Replace, Grant, Bind, RouteKey, MoveKey
  <2> QED
    BY <1>1, <2>1, <2>2, <2>3, <2>4, <2>5 DEF Answered
<1>2. CASE Starts(t) \/ \E scope : StartAuto(t, scope)
  BY <1>2 DEF Starts, StartManual, StartAssign, StartMigrate, StartKey, StartRollback, StartAuto
<1>3. CASE Failed(t)
  BY <1>3 DEF Failed, Abandon, GrantFails, MoveKeyFails, ReplaceFails
<1> QED
  BY <1>1, <1>2, <1>3

\* Keys are moved, and accounts bound, by five steps only.
LEMMA OnlyFiveMove ==
    ASSUME [Next]_vars
    PROVE  \/ UNCHANGED <<keyGroup, bound>>
           \/ \E t \in Threads : /\ thread[t].pc # "idle"
                                 /\ \/ Replace(t) \/ ReplaceFails(t) \/ Bind(t) \/ RouteKey(t)
                                    \/ \E item \in thread[t].keys : MoveKey(t, item)
<1> SUFFICES ASSUME ~\E t \in Threads : \/ Replace(t) \/ ReplaceFails(t) \/ Bind(t) \/ RouteKey(t)
                                        \/ \E item \in thread[t].keys : MoveKey(t, item)
             PROVE  UNCHANGED <<keyGroup, bound>>
  BY DEF Replace, ReplaceFails, Bind, RouteKey, MoveKey
<1>1. ASSUME NEW t \in Threads, Answered(t) PROVE UNCHANGED <<keyGroup, bound>>
  <2>1. CASE \/ Refresh(t) \/ Sync(t) \/ CheckManual(t) \/ CheckAssign(t) \/ ListCandidates(t)
             \/ CheckKey(t) \/ CheckRollback(t) \/ ReadGrants(t) \/ Grant(t)
    BY <2>1 DEF Refresh, Sync, CheckManual, CheckAssign, ListCandidates, CheckKey, CheckRollback,
                ReadGrants, Grant, upstream
  <2>2. CASE ListKeys(t) \/ KeysMoved(t) \/ Store(t) \/ \E a \in Accounts : ReadAccount(t, a)
    BY <2>2 DEF ListKeys, KeysMoved, Store, ReadAccount, upstream
  <2>3. CASE \E row \in thread[t].todo :
                \/ \E g \in Groups : Pick(t, row, g)
                \/ Skip(t, row) \/ NextCandidate(t, row) \/ NextItem(t, row)
    BY <2>3 DEF Pick, Skip, NextCandidate, NextItem, upstream
  <2>4. CASE FinishAuto(t) \/ FinishMigrate(t) \/ FinishRollback(t)
    BY <2>4 DEF FinishAuto, FinishMigrate, FinishRollback, upstream
  <2> QED
    BY <1>1, <2>1, <2>2, <2>3, <2>4 DEF Answered
<1>2. ASSUME NEW t \in Threads, Starts(t) \/ Failed(t) PROVE UNCHANGED <<keyGroup, bound>>
  <2>1. CASE Starts(t)
    BY <2>1 DEF Starts, StartManual, StartAssign, StartMigrate, StartKey, StartRollback, upstream
  <2>2. CASE Failed(t)
    BY <2>2 DEF Failed, Abandon, GrantFails, MoveKeyFails, upstream
  <2> QED
    BY <1>2, <2>1, <2>2
<1>3. ASSUME ~\E t \in Threads : Starts(t) \/ Answered(t) \/ Failed(t)
      PROVE  UNCHANGED <<keyGroup, bound>>
  BY <1>3 DEF Next, StartAuto, AddToPool, RemoveFromPool, SetEnabled, FlowEnds, Crash, upstream,
              vars
<1> QED
  BY <1>1, <1>2, <1>3

\* An account is only ever bound to groups.
LEMMA BoundStaysTyped ==
    ASSUME KInv, BoundTyped, [Next]_vars
    PROVE  BoundTyped'
<1>1. ASSUME NEW t \in Threads, Bind(t) PROVE BoundTyped'
  <2>1. thread[t].read \in SUBSET Groups /\ thread[t].to \in Groups
    BY <1>1, Working DEF Bind, Well, Stays, Local
  <2>2. UNCHANGED bound \/ bound' = [a \in Accounts |->
            IF a \in thread[t].account THEN thread[t].read \cup {thread[t].to} ELSE bound[a]]
    BY <1>1 DEF Bind, SetBindings
  <2> QED
    BY <2>1, <2>2 DEF BoundTyped
<1>2. ASSUME NEW t \in Threads,
             \/ Replace(t) \/ ReplaceFails(t) \/ RouteKey(t)
             \/ \E item \in thread[t].keys : MoveKey(t, item)
      PROVE  UNCHANGED bound
  BY <1>2 DEF Replace, ReplaceFails, ReplaceGroup, RouteKey, MoveKey, upstream
<1> QED
  BY <1>1, <1>2, OnlyFiveMove DEF BoundTyped

LEMMA InitHolds ==
    ASSUME Init
    PROVE  KInv /\ BoundTyped
<1>1. /\ allowed \in [Users -> SUBSET Groups] /\ keyGroup \in [Keys -> Spots]
      /\ snapshot \in [Users -> SUBSET Groups] /\ load \in Loads
      /\ bound \in [Accounts -> SUBSET Groups]
  BY DEF Init, Spots
<1>2. /\ assign \in [Users \X Platforms -> Spots]
      /\ \A up \in Users \X Platforms : assign[up] # NoGroup => Platform[assign[up]] = up[2]
  <2>1. assign = [up \in Users \X Platforms |->
                     IF Direct(allowed[up[1]], up[2]) \in Rotatable
                     THEN Direct(allowed[up[1]], up[2]) ELSE NoGroup]
    BY DEF Init
  <2>2. ASSUME NEW up \in Users \X Platforms
        PROVE  assign[up] \in Spots /\ (assign[up] # NoGroup => Platform[assign[up]] = up[2])
    <3>1. allowed[up[1]] \in SUBSET Groups
      BY <1>1
    <3> QED
      BY <2>1, <3>1, DirectTyped DEF Spots
  <2> QED
    BY <2>1, <2>2
<1>3. pool \in [PoolKinds -> SUBSET Groups]
  BY GroupRotationAssumption DEF Init, GroupRotationAssumption, PoolKinds
<1>4. run \in [moved : SUBSET Move, undone : SUBSET Move, status : {"none", "completed", "failed"}]
  BY DEF Init, NoRun
<1>5. /\ routed \in [Keys -> {"never", "seen", "unseen"}] /\ NoKeyOrphaned
      /\ crossed \in Crossings
  BY DEF Init, NoKeyOrphaned, Crossings
<1>6. ASSUME NEW t \in Threads
      PROVE  thread[t] = Idle /\ Follows(thread[t])
  BY IdleFollows DEF Init
<1>7. thread \in [Threads -> Local]
  BY <1>6, IdleTyped DEF Init
<1> QED
  BY <1>1, <1>2, <1>3, <1>4, <1>5, <1>6, <1>7, IdleTyped DEF KInv, Data, BoundTyped

(***************************************************************************)
(* No key is ever left in a group that its owner is not authorised for,    *)
(* unless an operator routed it there by hand: not by the automatic run,   *)
(* an operator's move, an assignment, a migration or a rollback, whatever  *)
(* fails, is lost or crashes in between (rotation.py, its move and         *)
(* _sync_user_resources_to_group).  Any of them may run side by side: only *)
(* the users are excepted whose grants changed under an operation that had *)
(* read them and puts them back, or moves keys to where they were.         *)
(***************************************************************************)
THEOREM KeysStayAuthorised == Spec => []NoKeyOrphaned
<1>1. Init => KInv /\ BoundTyped
  BY InitHolds
<1>2. KInv /\ BoundTyped /\ [Next]_vars => (KInv /\ BoundTyped)'
  BY NextHolds, BoundStaysTyped
<1>3. KInv => NoKeyOrphaned
  BY DEF KInv, Data
<1> QED
  BY <1>1, <1>2, <1>3, PTL DEF Spec
-----------------------------------------------------------------------------
(* Routes and bindings.                                                    *)

Informed == {"seen", "accounts", "bind"}

\* What has been read of keys and accounts is still so, unless it is noted that they changed.
Known(l) ==
    /\ l.pc = "seen" /\ l.key \notin crossed.routes =>
          keyGroup[l.key] = NoGroup \/ Platform[keyGroup[l.key]] = Platform[l.to]
    /\ l.pc \in {"accounts", "bind"} =>
          \A item \in l.keys : item.key \notin crossed.routes => item.group = keyGroup[item.key]
    /\ l.pc = "bind" =>
          \A a \in l.account : a \notin crossed.bindings => bound[a] \subseteq l.read

AllKnown == \A t \in Threads : Known(thread[t])

\* What one thread's step leaves of the keys and accounts that others have read.
Heeds(t) ==
    /\ crossed.routes \subseteq crossed'.routes /\ crossed.bindings \subseteq crossed'.bindings
    /\ \A s \in Threads \ {t} :
          /\ \A k \in Keys : keyGroup'[k] # keyGroup[k] /\ Routes(thread[s], k) =>
                k \in crossed'.routes
          /\ \A a \in Accounts : bound'[a] # bound[a] /\ Binds(thread[s], a) =>
                a \in crossed'.bindings

LEMMA StepHeeds ==
    ASSUME KInv, NEW t \in Threads,
           Starts(t) \/ Answered(t) \/ Failed(t) \/ \E scope : StartAuto(t, scope)
    PROVE  Heeds(t)
<1>1. CASE Cross(t)
  BY <1>1, CrossNotes DEF Heeds
<1>2. CASE UNCHANGED <<upstream, crossed>>
  BY <1>2 DEF Heeds, upstream
<1> QED
  BY <1>1, <1>2, StepCrosses

LEMMA OthersKnow ==
    ASSUME KInv, AllKnown, NEW t \in Threads, NEW s \in Threads \ {t}, Heeds(t),
           Alike(thread'[s], thread[s])
    PROVE  Known(thread[s])'
<1> DEFINE l == thread[s]
<1>1. l \in Local /\ Well(l) /\ Known(l)
  BY DEF KInv, AllKnown
<1>2. ASSUME l.pc = "seen", l.key \notin crossed'.routes
      PROVE  keyGroup'[l.key] = NoGroup \/ Platform[keyGroup'[l.key]] = Platform[l.to]
  <2>1. l.key \in Keys /\ Routes(l, l.key)
    BY <1>1, <1>2 DEF Well, Routes
  <2> QED
    BY <1>1, <1>2, <2>1 DEF Heeds, Known
<1>3. ASSUME l.pc \in {"accounts", "bind"}, NEW item \in l.keys, item.key \notin crossed'.routes
      PROVE  item.group = keyGroup'[item.key]
  <2>1. item.key \in Keys /\ Routes(l, item.key)
    BY <1>1, <1>3 DEF Local, KeyItem, Routes
  <2> QED
    BY <1>1, <1>3, <2>1 DEF Heeds, Known
<1>4. ASSUME l.pc = "bind", NEW a \in l.account, a \notin crossed'.bindings
      PROVE  bound'[a] \subseteq l.read
  <2>1. a \in Accounts /\ Binds(l, a)
    BY <1>1, <1>4 DEF Local, Binds
  <2> QED
    BY <1>1, <1>4, <2>1 DEF Heeds, Known
<1> HIDE DEF l
<1>5. Alike(thread'[s], l)
  BY DEF l
<1> QED
  BY <1>2, <1>3, <1>4, <1>5 DEF Alike, Same, Known

\* A step after which the thread goes by nothing, or by what is so.
LEMMA KnownHolds ==
    ASSUME KInv, AllKnown, NEW t \in Threads, Heeds(t),
           \A s \in Threads \ {t} : thread'[s] = thread[s] \/ Alike(thread'[s], thread[s]),
           thread'[t].pc \notin Informed \/ Known(thread[t])'
    PROVE  AllKnown'
<1> SUFFICES ASSUME NEW s \in Threads PROVE Known(thread[s])'
  BY DEF AllKnown
<1>1. CASE s = t
  BY <1>1 DEF Known, Informed
<1>2. CASE s # t
  <2>1. Alike(thread'[s], thread[s])
    BY <1>2 DEF Alike, Same
  <2> QED
    BY <1>2, <2>1, OthersKnow
<1> QED
  BY <1>1, <1>2

LEMMA UninformedHolds ==
    ASSUME KInv, AllKnown, NEW t \in Threads, Heeds(t), thread[t].pc # "idle",
           Ends(t) \/ (Others(t) /\ thread'[t].pc \notin Informed)
    PROVE  AllKnown'
<1>1. \A s \in Threads \ {t} : thread'[s] = thread[s]
  BY DEF Ends, Others
<1>2. thread'[t].pc \notin Informed
  BY IdleTyped DEF Ends, Informed
<1> QED
  BY <1>1, <1>2, KnownHolds

LEMMA BeginsKnown ==
    ASSUME KInv, AllKnown, NEW t \in Threads, Heeds(t), NEW op, Begins(t, op), Free(t, op)
    PROVE  AllKnown'
<1>1. thread'[t].pc \notin Informed /\ \A s \in Threads \ {t} : thread'[s] = thread[s]
  BY DEF Begins, Others, Informed
<1> QED
  BY <1>1, KnownHolds DEF Free

LEMMA StartsKnown ==
    ASSUME KInv, AllKnown, NEW t \in Threads, Heeds(t), Starts(t) \/ (\E scope : StartAuto(t, scope))
    PROVE  AllKnown'
<1>1. CASE \E u \in Users, g \in Groups : StartManual(t, u, g)
  BY <1>1, StartManualHolds, BeginsKnown DEF StartManual
<1>2. CASE \E u \in Users, g \in Groups, source \in Groups \cup {NoGroup} :
              StartAssign(t, u, source, g)
  BY <1>2, StartAssignHolds, BeginsKnown DEF StartAssign
<1>3. CASE \E s, g \in Groups : StartMigrate(t, s, g)
  BY <1>3, StartMigrateHolds, BeginsKnown DEF StartMigrate
<1>4. CASE \E k \in Keys, hint \in Groups \cup {NoGroup}, g \in Groups : StartKey(t, k, hint, g)
  BY <1>4, StartKeyHolds, BeginsKnown DEF StartKey
<1>5. CASE StartRollback(t)
  BY <1>5, StartRollbackHolds, BeginsKnown DEF StartRollback
<1>6. CASE \E scope : StartAuto(t, scope)
  BY <1>6, StartAutoHolds, BeginsKnown DEF StartAuto
<1> QED
  BY <1>1, <1>2, <1>3, <1>4, <1>5, <1>6 DEF Starts

LEMMA ListKeysKnown ==
    ASSUME KInv, AllKnown, NEW t \in Threads, Heeds(t), ListKeys(t)
    PROVE  AllKnown'
<1>1. /\ Steps(t, "accounts") /\ UNCHANGED keyGroup
      /\ \A item \in thread'[t].keys : item.group = keyGroup[item.key]
  BY ListKeysHolds DEF ListKeys, upstream
<1>2. Known(thread[t])'
  BY <1>1 DEF Known, Steps
<1> QED
  BY <1>1, <1>2, KnownHolds DEF Steps, Others, ListKeys

\* A binding that is put back holds what has been read of it.
LEMMA ReadAccountKnown ==
    ASSUME KInv, AllKnown, BoundTyped, NEW t \in Threads, Heeds(t), NEW a \in Accounts,
           ReadAccount(t, a)
    PROVE  AllKnown'
<1>1. /\ Steps(t, "bind") /\ UNCHANGED <<keyGroup, bound>> /\ thread'[t].keys = thread[t].keys
      /\ thread'[t].account = {a} /\ thread'[t].read = bound[a] /\ thread[t].pc = "accounts"
  BY ReadAccountHolds DEF ReadAccount, upstream, BoundTyped
<1>2. Known(thread[t])'
  BY <1>1 DEF AllKnown, Known, Steps, Heeds
<1> QED
  BY <1>1, <1>2, KnownHolds DEF Steps, Others

LEMMA BindKnown ==
    ASSUME KInv, AllKnown, NEW t \in Threads, Heeds(t), Bind(t)
    PROVE  AllKnown'
<1>1. /\ Steps(t, "accounts") /\ UNCHANGED keyGroup /\ thread'[t].keys = thread[t].keys
      /\ thread[t].pc = "bind"
  BY BindHolds DEF Bind
<1>2. Known(thread[t])'
  BY <1>1 DEF AllKnown, Known, Steps, Heeds
<1> QED
  BY <1>1, <1>2, KnownHolds DEF Steps, Others

\* The keys that are still listed are others than the one that has moved.
LEMMA MoveKeyKnown ==
    ASSUME KInv, AllKnown, NEW t \in Threads, Heeds(t), NEW item \in thread[t].keys,
           MoveKey(t, item)
    PROVE  AllKnown'
<1>1. thread[t].pc = "accounts" /\ thread[t] \in Local
  BY DEF MoveKey, KInv
<1>2. CASE Retreats(t)
  BY <1>1, <1>2, UninformedHolds DEF Retreats, Steps, Informed
<1>3. CASE Steps(t, "accounts") /\ thread'[t].keys = thread[t].keys \ {item}
  <2> crossed.routes \subseteq crossed'.routes
    BY DEF Heeds
  <2>1. \A other \in thread[t].keys \ {item} :
           other.key \notin crossed.routes => other.key # item.key
    BY <1>1 DEF AllKnown, Known, Local, KeyItem
  <2>2. keyGroup' = keyGroup \/ keyGroup' = [keyGroup EXCEPT ![item.key] = thread[t].to]
    BY DEF MoveKey
  <2>3. \A other \in thread[t].keys \ {item} :
           other.key \notin crossed'.routes => other.group = keyGroup'[other.key]
    <3> SUFFICES ASSUME NEW other \in thread[t].keys \ {item}, other.key \notin crossed'.routes
                 PROVE  other.group = keyGroup'[other.key]
      OBVIOUS
    <3>1. other.group = keyGroup[other.key] /\ other.key \in Keys
      BY <1>1 DEF AllKnown, Known, Local, KeyItem
    <3> QED
      BY <2>1, <2>2, <3>1 DEF KInv, Data
  <2>4. Known(thread[t])'
    BY <1>3, <2>3 DEF Known, Steps
  <2> QED
    BY <1>1, <1>3, <2>4, KnownHolds DEF Steps, Others
<1> QED
  BY <1>2, <1>3, MoveKeyHolds

LEMMA CheckKeyKnown ==
    ASSUME KInv, AllKnown, NEW t \in Threads, Heeds(t), CheckKey(t)
    PROVE  AllKnown'
<1>1. thread[t].pc = "check" /\ UNCHANGED keyGroup
  BY DEF CheckKey, At, upstream
<1>2. CASE Ends(t) \/ Steps(t, "unseen")
  BY <1>1, <1>2, UninformedHolds DEF Steps, Informed
<1>3. CASE /\ Steps(t, "seen")
           /\ \/ keyGroup[thread[t].key] = NoGroup
              \/ Platform[keyGroup[thread[t].key]] = Platform[thread[t].to]
  <2>1. Known(thread[t])'
    BY <1>1, <1>3 DEF Known, Steps, Same
  <2> QED
    BY <1>1, <1>3, <2>1, KnownHolds DEF Steps, Others
<1> QED
  BY <1>2, <1>3, CheckKeyHolds

\* The other steps leave the thread with nothing to go by.
LEMMA AnsweredKnown ==
    ASSUME KInv, AllKnown, BoundTyped, NEW t \in Threads, Heeds(t), Answered(t)
    PROVE  AllKnown'
<1> USE DEF Informed
<1>1. CASE Refresh(t) \/ Sync(t)
  BY <1>1, RefreshHolds, SyncHolds, UninformedHolds DEF Refresh, Sync, At, Steps
<1>2. CASE CheckManual(t) \/ CheckAssign(t) \/ ListCandidates(t) \/ CheckRollback(t)
  BY <1>2, CheckManualHolds, CheckAssignHolds, ListCandidatesHolds, CheckRollbackHolds,
     UninformedHolds DEF CheckManual, CheckAssign, ListCandidates, CheckRollback, At, Steps
<1>3. CASE Replace(t) \/ ReadGrants(t) \/ KeysMoved(t)
  BY <1>3, ReplaceHolds, ReadGrantsHolds, KeysMovedHolds, UninformedHolds
     DEF Replace, ReadGrants, KeysMoved, Steps
<1>4. CASE Grant(t) \/ RouteKey(t)
  BY <1>4, GrantHolds, RouteKeyHolds, UninformedHolds DEF Grant, RouteKey, Retreats, Steps
<1>5. CASE Store(t)
  BY <1>5, StoreHolds, UninformedHolds DEF Store, Steps
<1>6. ASSUME NEW row \in thread[t].todo,
             \/ \E g \in Groups : Pick(t, row, g)
             \/ Skip(t, row) \/ NextCandidate(t, row) \/ NextItem(t, row)
      PROVE  AllKnown'
  <2>1. CASE \E g \in Groups : Pick(t, row, g)
    BY <2>1, PickHolds, UninformedHolds DEF Pick, At
  <2>2. CASE Skip(t, row)
    BY <2>2, SkipHolds, UninformedHolds DEF Skip, At
  <2>3. CASE NextCandidate(t, row)
    BY <1>6, <2>3, NextCandidateHolds, UninformedHolds DEF NextCandidate, At
  <2>4. CASE NextItem(t, row)
    BY <1>6, <2>4, NextItemHolds, UninformedHolds DEF NextItem, At
  <2> QED
    BY <1>6, <2>1, <2>2, <2>3, <2>4
<1>7. CASE FinishMigrate(t) \/ FinishRollback(t)
  BY <1>7, FinishMigrateHolds, FinishRollbackHolds, UninformedHolds
     DEF FinishMigrate, FinishRollback, At
<1>8. CASE FinishAuto(t)
  <2>1. thread[t].pc # "idle"
    BY <1>8 DEF FinishAuto, At
  <2>2. CASE Ends(t)
    BY <2>1, <2>2, UninformedHolds
  <2>3. CASE thread'[t] = Idle /\ \A s \in Threads \ {t} : Alike(thread'[s], thread[s])
    BY <2>1, <2>3, IdleTyped, KnownHolds
  <2> QED
    BY <1>8, <2>2, <2>3, FinishAutoHolds
<1> QED
  BY <1>1, <1>2, <1>3, <1>4, <1>5, <1>6, <1>7, <1>8, ListKeysKnown, ReadAccountKnown, BindKnown,
     MoveKeyKnown, CheckKeyKnown DEF Answered

LEMMA FailedKnown ==
    ASSUME KInv, AllKnown, NEW t \in Threads, Heeds(t), Failed(t)
    PROVE  AllKnown'
BY AbandonHolds, ReplaceFailsHolds, GrantFailsHolds, MoveKeyFailsHolds, UninformedHolds
   DEF Failed, Abandon, ReplaceFails, GrantFails, MoveKeyFails, Retreats, Steps, Informed

LEMMA NextKnown ==
    ASSUME KInv, AllKnown, BoundTyped, [Next]_vars
    PROVE  AllKnown'
<1>1. CASE \E t \in Threads, p \in Platforms : StartAuto(t, Platforms) \/ StartAuto(t, {p})
  BY <1>1, StartsKnown, StepHeeds
<1>2. CASE \E t \in Threads : Starts(t) \/ Answered(t) \/ Failed(t)
  BY <1>2, StartsKnown, AnsweredKnown, FailedKnown, StepHeeds
<1>3. CASE UNCHANGED <<upstream, thread, crossed>>
  BY <1>3 DEF AllKnown, Known, upstream
<1>4. CASE Crash
  BY <1>4, IdleTyped DEF Crash, AllKnown, Known
<1> QED
  BY <1>1, <1>2, <1>3, <1>4
     DEF Next, AddToPool, RemoveFromPool, SetEnabled, FlowEnds, vars, history, notes

\* A key that serves a platform is moved within it, unless an operator moves it unseen.
KeyKept(k) ==
    k \notin crossed'.routes /\ keyGroup[k] # NoGroup /\ routed'[k] # "unseen" =>
        keyGroup'[k] # NoGroup /\ Platform[keyGroup'[k]] = Platform[keyGroup[k]]

LEMMA StepKeepsRoutes ==
    ASSUME KInv, AllKnown, BoundTyped, [Next]_vars
    PROVE  /\ \A k \in Keys : KeyKept(k)
           /\ \A a \in Accounts \ crossed'.bindings : bound[a] \subseteq bound'[a]
<1>1. CASE UNCHANGED <<keyGroup, bound>>
  BY <1>1 DEF KeyKept
<1>2. ASSUME NEW t \in Threads, thread[t].pc # "idle", Replace(t) \/ ReplaceFails(t)
      PROVE  UNCHANGED bound /\ \A k \in Keys : KeyKept(k)
  <2>1. thread[t].pc = "replace" /\ Stays(thread[t])
    BY <1>2, Working DEF Replace, ReplaceFails, Well
  <2>2. UNCHANGED upstream \/ ReplaceGroup(thread[t].user, thread[t].from, thread[t].to)
    BY <1>2 DEF Replace, ReplaceFails
  <2>3. thread[t].to # NoGroup
    BY <2>1, GroupRotationAssumption DEF Stays, GroupRotationAssumption
  <2> QED
    BY <2>1, <2>2, <2>3 DEF upstream, ReplaceGroup, KeyKept, Stays
<1>3. ASSUME NEW t \in Threads, thread[t].pc # "idle", Bind(t)
      PROVE  /\ UNCHANGED keyGroup
             /\ \A a \in Accounts \ crossed'.bindings : bound[a] \subseteq bound'[a]
  <2>1. crossed.bindings \subseteq crossed'.bindings
    BY <1>3, CrossNotes DEF Bind
  <2> QED
    BY <1>3, <2>1 DEF Bind, SetBindings, AllKnown, Known, BoundTyped
<1>4. ASSUME NEW t \in Threads, thread[t].pc # "idle", RouteKey(t)
      PROVE  UNCHANGED bound /\ \A k \in Keys : KeyKept(k)
  <2>1. thread[t].key \in Keys /\ thread[t].to \in Groups /\ thread[t].to # NoGroup
    BY <1>4, Working, GroupRotationAssumption DEF RouteKey, Well, GroupRotationAssumption
  <2>2. CASE UNCHANGED keyGroup
    BY <1>4, <2>2 DEF KeyKept, RouteKey
  <2>3. CASE /\ keyGroup' = [keyGroup EXCEPT ![thread[t].key] = thread[t].to]
             /\ routed' = [routed EXCEPT ![thread[t].key] =
                              IF @ = "unseen" THEN @ ELSE thread[t].pc]
    <3>1. thread[t].pc = "seen" \/ routed'[thread[t].key] = "unseen"
      BY <1>4, <2>1, <2>3 DEF RouteKey, KInv, Data
    <3>2. ASSUME NEW k \in Keys PROVE KeyKept(k)
      <4> crossed.routes \subseteq crossed'.routes
        BY <1>4, CrossNotes DEF RouteKey
      <4>1. CASE k # thread[t].key
        BY <2>3, <4>1 DEF KInv, Data, KeyKept
      <4>2. CASE k = thread[t].key
        BY <2>1, <2>3, <3>1, <4>2 DEF KInv, Data, KeyKept, AllKnown, Known
      <4> QED
        BY <4>1, <4>2
    <3> QED
      BY <1>4, <3>2 DEF RouteKey
  <2> QED
    BY <1>4, <2>2, <2>3 DEF RouteKey
<1>5. ASSUME NEW t \in Threads, thread[t].pc # "idle", NEW item \in thread[t].keys,
             MoveKey(t, item)
      PROVE  UNCHANGED bound /\ \A k \in Keys : KeyKept(k)
  <2>1. /\ thread[t].pc = "accounts" /\ thread[t].to \in Groups /\ thread[t].to # NoGroup
        /\ item.key \in Keys
        /\ item.key \notin crossed'.routes => item.group = keyGroup[item.key]
    BY <1>5, Working, CrossNotes, GroupRotationAssumption
       DEF MoveKey, Well, GroupRotationAssumption, AllKnown, Known, Local, KeyItem
  <2>2. \/ UNCHANGED keyGroup
        \/ /\ MayFollow(item.group, thread[t].to)
           /\ keyGroup' = [keyGroup EXCEPT ![item.key] = thread[t].to]
    BY <1>5 DEF MoveKey
  <2> QED
    BY <1>5, <2>1, <2>2 DEF MoveKey, MayFollow, KeyKept, KInv, Data
<1> QED
  BY <1>1, <1>2, <1>3, <1>4, <1>5, OnlyFiveMove DEF KeyKept

(***************************************************************************)
(* A key that serves a platform never serves another one, and never none,  *)
(* unless an operator routes a key whose group could not be read; and an   *)
(* account never loses a group it was bound to (rotation.py, its move,     *)
(* _sync_user_resources_to_group and the key's own route).  Operations may *)
(* run side by side: only the keys and accounts are excepted that changed  *)
(* while one of them held what it had read of them.                        *)
(***************************************************************************)
THEOREM RoutesStayOnPlatform == Spec => RoutesAreKept
<1>1. Init => KInv /\ BoundTyped /\ AllKnown
  BY InitHolds, IdleTyped DEF Init, AllKnown, Known
<1>2. KInv /\ BoundTyped /\ AllKnown /\ [Next]_vars => (KInv /\ BoundTyped /\ AllKnown)'
  BY NextHolds, BoundStaysTyped, NextKnown
<1>3. KInv /\ BoundTyped /\ AllKnown /\ [Next]_vars =>
         [/\ \A k \in Keys \ crossed'.routes :
               keyGroup[k] # NoGroup /\ routed'[k] # "unseen" =>
                   /\ keyGroup'[k] # NoGroup
                   /\ Platform[keyGroup'[k]] = Platform[keyGroup[k]]
          /\ \A a \in Accounts \ crossed'.bindings : bound[a] \subseteq bound'[a]]_vars
  BY StepKeepsRoutes DEF KeyKept
<1> QED
  BY <1>1, <1>2, <1>3, PTL DEF Spec, RoutesAreKept

-----------------------------------------------------------------------------
(* What one operation is to move does not overlap.                         *)

\* Moves of different users, or on different platforms.
Apart(x, y) == x.user # y.user \/ Platform[x.from] # Platform[y.from]
Scattered(S) == \A x, y \in S : x = y \/ Apart(x, y)

Neat(l) ==
    /\ l.op = "migrate" =>
          /\ \A x, y \in l.todo : x.user = y.user => x = y
          /\ \A x \in l.todo : x.from \in {l.from, NoGroup}
          /\ l.pc = "replace" => \A x \in l.todo : x.user # l.user
    /\ l.op \in {"auto", "rollback"} =>
          /\ Scattered(l.todo)
          /\ l.pc \in {"replace", "store"} => \A x \in l.todo : Apart(x, l)
    /\ l.op = "auto" =>
          /\ l.pc \in {"refresh", "check"} => l.todo = {} /\ l.moved = {}
          /\ Scattered(l.moved)
          /\ \A x \in l.moved, y \in l.todo : Apart(x, y)
          /\ l.pc \in {"replace", "store"} => \A x \in l.moved : Apart(x, l)

DInv == Scattered(run.moved) /\ \A t \in Threads : Neat(thread[t])

\* The others are where they were.
Rests(t) == \A s \in Threads \ {t} : thread'[s] = thread[s] \/ Alike(thread'[s], thread[s])

LEMMA NeatHolds ==
    ASSUME DInv, NEW t \in Threads, Rests(t), Neat(thread'[t]), Scattered(run'.moved)
    PROVE  DInv'
<1>1. ASSUME NEW s \in Threads PROVE Neat(thread'[s])
  <2>1. CASE s # t /\ Alike(thread'[s], thread[s])
    <3>1. Neat(thread[s])
      BY DEF DInv
    <3> QED
      BY <2>1, <3>1 DEF Alike, Same, Neat, Scattered, Apart
  <2>2. CASE s = t \/ thread'[s] = thread[s]
    BY <2>2 DEF DInv
  <2> QED
    BY <2>1, <2>2 DEF Rests
<1>2. \A s \in Threads : Neat(thread[s])'
  BY <1>1 DEF Neat, Scattered, Apart
<1> QED
  BY <1>2 DEF DInv, Scattered, Apart

LEMMA EndsNeat ==
    ASSUME DInv, NEW t \in Threads, Ends(t), run'.moved = run.moved
    PROVE  DInv'
<1>1. Neat(thread'[t])
  BY IdleTyped DEF Ends, Neat
<1> QED
  BY <1>1, NeatHolds DEF Ends, Others, Rests, DInv

\* An operation goes on with the same piece of work.
LEMMA StepsNeat ==
    ASSUME DInv, NEW t \in Threads, NEW pc, Steps(t, pc), run'.moved = run.moved,
           pc # "replace", pc \in {"refresh", "check"} => thread[t].pc \in {"refresh", "check"},
           pc = "store" /\ thread[t].op \in {"auto", "rollback"} => thread[t].pc = "replace"
    PROVE  DInv'
<1>1. Neat(thread[t]) /\ thread'[t].pc = pc /\ Same(thread'[t], thread[t])
  BY DEF DInv, Steps
<1>2. Neat(thread'[t])
  BY <1>1 DEF Same, Neat, Scattered, Apart
<1> QED
  BY <1>2, NeatHolds DEF Steps, Others, Rests, DInv

LEMMA BeginsNeat ==
    ASSUME DInv, NEW t \in Threads, NEW op, op # "rollback", Begins(t, op), run'.moved = run.moved
    PROVE  DInv'
<1>1. Neat(thread'[t])
  BY DEF Begins, Neat, Scattered
<1> QED
  BY <1>1, NeatHolds DEF Begins, Others, Rests, DInv

\* A rollback has one row for each move of the run.
LEMMA StartsNeat ==
    ASSUME KInv, DInv, NEW t \in Threads, Starts(t) \/ \E scope : StartAuto(t, scope)
    PROVE  DInv'
<1>1. CASE \E u \in Users, g \in Groups : StartManual(t, u, g)
  BY <1>1, StartManualHolds, BeginsNeat DEF StartManual, store
<1>2. CASE \E u \in Users, g \in Groups, source \in Groups \cup {NoGroup} :
              StartAssign(t, u, source, g)
  BY <1>2, StartAssignHolds, BeginsNeat DEF StartAssign, store
<1>3. CASE \E s, g \in Groups : StartMigrate(t, s, g)
  BY <1>3, StartMigrateHolds, BeginsNeat DEF StartMigrate, store
<1>4. CASE \E k \in Keys, hint \in Groups \cup {NoGroup}, g \in Groups : StartKey(t, k, hint, g)
  BY <1>4, StartKeyHolds, BeginsNeat DEF StartKey, store
<1>5. CASE StartRollback(t)
  <2>1. /\ Begins(t, "rollback") /\ run' = run
        /\ thread'[t].todo = {[user |-> m.user, from |-> m.to, to |-> m.from] : m \in run.moved}
    BY <1>5, StartRollbackHolds DEF StartRollback, store
  <2>2. ASSUME NEW x \in thread'[t].todo, NEW y \in thread'[t].todo PROVE x = y \/ Apart(x, y)
    <3>1. PICK m \in run.moved : x = [user |-> m.user, from |-> m.to, to |-> m.from]
      BY <2>1
    <3>2. PICK n \in run.moved : y = [user |-> n.user, from |-> n.to, to |-> n.from]
      BY <2>1
    <3>3. Stays(m) /\ Stays(n) /\ (m = n \/ Apart(m, n))
      BY DEF KInv, Data, Move, DInv, Scattered
    <3> QED
      BY <3>1, <3>2, <3>3 DEF Stays, Apart
  <2>3. Neat(thread'[t])
    BY <2>1, <2>2 DEF Begins, Neat, Scattered
  <2> QED
    BY <2>1, <2>3, NeatHolds DEF Begins, Others, Rests, DInv
<1>6. CASE \E scope : StartAuto(t, scope)
  BY <1>6, StartAutoHolds, BeginsNeat DEF StartAuto, store
<1> QED
  BY <1>1, <1>2, <1>3, <1>4, <1>5, <1>6 DEF Starts

\* A run has one row for each platform on which a user is dedicated to a group.
LEMMA SyncNeat ==
    ASSUME KInv, DInv, NEW t \in Threads, Sync(t)
    PROVE  DInv'
<1>1. /\ Others(t) /\ thread'[t].op = "auto" /\ thread'[t].pc = "rows"
      /\ thread'[t].todo = Rows(thread[t].read) \cup Newcomers(thread[t])
      /\ thread'[t].moved = thread[t].moved
  BY SyncHolds
<1>2. thread[t].pc = "check" /\ thread[t].op = "auto" /\ run' = run
  BY DEF Sync, At
<1>3. thread[t].moved = {} /\ thread[t].read \in SUBSET Groups
      /\ thread[t].landing \ thread[t].read \in SUBSET Groups
  BY <1>2 DEF DInv, Neat, KInv, Local
<1>4. ASSUME NEW S \in SUBSET Groups, NEW row \in Rows(S)
      PROVE  \E u \in Users, p \in Platforms :
                /\ row = [user |-> u, from |-> Direct(snapshot[u], p), to |-> NoGroup]
                /\ Platform[Direct(snapshot[u], p)] = p
  <2>1. PICK u \in Users, p \in Platforms :
           row = [user |-> u, from |-> Direct(snapshot[u], p), to |-> NoGroup]
    BY DEF Rows
  <2>2. row.from \in Groups /\ snapshot[u] \in SUBSET Groups
    BY RowsTyped DEF KInv, Data
  <2>3. Direct(snapshot[u], p) # NoGroup
    BY <2>1, <2>2, GroupRotationAssumption DEF GroupRotationAssumption
  <2> QED
    BY <2>1, <2>2, <2>3, DirectTyped
<1>5. \A row \in thread'[t].todo : \E u \in Users, p \in Platforms :
         /\ row = [user |-> u, from |-> Direct(snapshot[u], p), to |-> NoGroup]
         /\ Platform[Direct(snapshot[u], p)] = p
  BY <1>1, <1>3, <1>4 DEF Newcomers
<1>6. Scattered(thread'[t].todo)
  BY <1>5 DEF Scattered, Apart
<1>7. Neat(thread'[t])
  BY <1>1, <1>3, <1>6 DEF Neat, Scattered
<1> QED
  BY <1>1, <1>2, <1>7, NeatHolds DEF Others, Rests, DInv

\* The row that is taken is apart from those that are left.
LEMMA TakesNeat ==
    ASSUME KInv, DInv, NEW t \in Threads, NEW row,
           \/ \E g \in Groups : Pick(t, row, g)
           \/ Skip(t, row) \/ NextCandidate(t, row) \/ NextItem(t, row)
    PROVE  DInv'
<1>0. row \in thread[t].todo /\ Neat(thread[t]) /\ run' = run /\ thread[t].pc = "rows"
  BY DEF Pick, Skip, NextCandidate, NextItem, At, DInv, store
<1>1. ASSUME NEW g \in Groups, Pick(t, row, g) PROVE DInv'
  <2>0. thread[t].op = "auto"
    BY <1>1 DEF Pick, At
  <2>1. /\ Others(t) /\ thread'[t].op = "auto" /\ thread'[t].pc = "replace"
        /\ thread'[t].user = row.user /\ thread'[t].from = row.from
        /\ thread'[t].todo = thread[t].todo \ {row} /\ thread'[t].moved = thread[t].moved
    BY <1>1, PickHolds
  <2>2. Neat(thread'[t])
    BY <1>0, <2>0, <2>1 DEF Neat, Scattered, Apart
  <2> QED
    BY <1>0, <2>1, <2>2, NeatHolds DEF Others, Rests, DInv
<1>2. CASE Skip(t, row)
  <2>1. /\ Others(t) /\ thread[t].op = "auto" /\ thread'[t].op = "auto" /\ thread'[t].pc = "rows"
        /\ thread'[t].todo = thread[t].todo \ {row} /\ thread'[t].moved = thread[t].moved
    BY <1>2, SkipHolds DEF Skip, At
  <2>2. Neat(thread'[t])
    BY <1>0, <2>1 DEF Neat, Scattered, Apart
  <2> QED
    BY <1>0, <2>1, <2>2, NeatHolds DEF Others, Rests, DInv
<1>3. CASE NextCandidate(t, row)
  <2>1. /\ Others(t) /\ thread[t].op = "migrate" /\ thread'[t].op = "migrate"
        /\ thread'[t].user = row.user /\ thread'[t].from = thread[t].from
        /\ thread'[t].todo = thread[t].todo \ {row}
    BY <1>3, NextCandidateHolds DEF NextCandidate, At
  <2>2. Neat(thread'[t])
    BY <1>0, <2>1 DEF Neat
  <2> QED
    BY <1>0, <2>1, <2>2, NeatHolds DEF Others, Rests, DInv
<1>4. CASE NextItem(t, row)
  <2>1. /\ Others(t) /\ thread[t].op = "rollback" /\ thread'[t].op = "rollback"
        /\ thread'[t].user = row.user /\ thread'[t].from = row.from
        /\ thread'[t].todo = thread[t].todo \ {row}
    BY <1>4, NextItemHolds DEF NextItem, At
  <2>2. Neat(thread'[t])
    BY <1>0, <2>1 DEF Neat, Scattered, Apart
  <2> QED
    BY <1>0, <2>1, <2>2, NeatHolds DEF Others, Rests, DInv
<1> QED
  BY <1>1, <1>2, <1>3, <1>4

\* A migration has one row for each user.
LEMMA ListCandidatesNeat ==
    ASSUME KInv, DInv, NEW t \in Threads, ListCandidates(t)
    PROVE  DInv'
<1>1. /\ Others(t) /\ thread'[t].op = "migrate" /\ thread'[t].pc = "rows" /\ run' = run
      /\ thread'[t].from = thread[t].from /\ thread'[t].todo = Candidates(thread[t])
  BY ListCandidatesHolds DEF ListCandidates, store
<1>2. /\ \A x, y \in Candidates(thread[t]) : x.user = y.user => x = y
      /\ \A x \in Candidates(thread[t]) : x.from \in {thread[t].from, NoGroup}
  BY DEF Candidates
<1>3. Neat(thread'[t])
  BY <1>1, <1>2 DEF Neat
<1> QED
  BY <1>1, <1>3, NeatHolds DEF Others, Rests, DInv

LEMMA StoreNeat ==
    ASSUME KInv, DInv, NEW t \in Threads, Store(t)
    PROVE  DInv'
<1>1. run' = run /\ thread[t].pc = "store"
  BY DEF Store
<1>2. CASE Ends(t) \/ Steps(t, "rows")
  BY <1>1, <1>2, EndsNeat, StepsNeat
<1>3. CASE /\ Others(t) /\ thread[t].op \in {"auto", "rollback"} /\ thread'[t].pc = "rows"
           /\ thread'[t].op = thread[t].op /\ thread'[t].todo = thread[t].todo
           /\ thread'[t].moved = thread[t].moved \cup {MovedItem(thread[t])}
  <2> DEFINE item == MovedItem(thread[t])
  <2>1. item.user = thread[t].user /\ item.from = thread[t].from
    BY DEF MovedItem
  <2> HIDE DEF item
  <2>2. Neat(thread[t])
    BY DEF DInv
  <2>3. thread[t].op = "auto" =>
           \A x \in thread[t].todo \cup thread[t].moved : Apart(x, item) /\ Apart(item, x)
    BY <1>1, <2>1, <2>2 DEF Neat, Apart
  <2>4. Neat(thread'[t])
    BY <1>3, <2>2, <2>3 DEF Neat, Scattered, item
  <2> QED
    BY <1>1, <1>3, <2>4, NeatHolds DEF Others, Rests, DInv
<1> QED
  BY <1>2, <1>3, StoreHolds

LEMMA FinishNeat ==
    ASSUME KInv, DInv, NEW t \in Threads, FinishAuto(t) \/ FinishMigrate(t) \/ FinishRollback(t)
    PROVE  DInv'
<1>1. CASE FinishAuto(t)
  <2>1. thread[t].op = "auto" /\ Neat(thread[t])
    BY <1>1 DEF FinishAuto, At, DInv
  <2>2. CASE Ends(t) /\ run' = run
    BY <2>2, EndsNeat
  <2>3. CASE /\ thread'[t] = Idle /\ run'.moved = thread[t].moved
             /\ \A s \in Threads \ {t} : Alike(thread'[s], thread[s])
    <3>1. Neat(thread'[t]) /\ Scattered(run'.moved)
      BY <2>1, <2>3, IdleTyped DEF Neat
    <3> QED
      BY <2>3, <3>1, NeatHolds DEF Rests
  <2> QED
    BY <1>1, <2>2, <2>3, FinishAutoHolds
<1>2. CASE FinishMigrate(t)
  BY <1>2, FinishMigrateHolds, EndsNeat DEF FinishMigrate, store
<1>3. CASE FinishRollback(t)
  <2>1. run'.moved = run.moved
    BY <1>3 DEF FinishRollback, KInv, Data
  <2> QED
    BY <1>3, <2>1, FinishRollbackHolds, EndsNeat
<1> QED
  BY <1>1, <1>2, <1>3

LEMMA AnsweredNeat ==
    ASSUME KInv, BoundTyped, DInv, NEW t \in Threads, Answered(t)
    PROVE  DInv'
<1>1. CASE Refresh(t)
  BY <1>1, RefreshHolds, StepsNeat DEF Refresh
<1>2. CASE Sync(t) \/ ListCandidates(t)
  BY <1>2, SyncNeat, ListCandidatesNeat
<1>3. CASE CheckManual(t) \/ CheckAssign(t)
  <2>1. run' = run
    BY <1>3 DEF CheckManual, CheckAssign, store
  <2>2. CASE Ends(t)
    BY <2>1, <2>2, EndsNeat
  <2>3. CASE Others(t) /\ thread'[t].op \in {"manual", "assign"}
    <3>1. Neat(thread'[t])
      BY <2>3 DEF Neat
    <3> QED
      BY <2>1, <2>3, <3>1, NeatHolds DEF Others, Rests, DInv
  <2> QED
    BY <1>3, <2>2, <2>3, CheckManualHolds, CheckAssignHolds
<1>4. CASE CheckKey(t) \/ CheckRollback(t)
  BY <1>4, CheckKeyHolds, CheckRollbackHolds, EndsNeat, StepsNeat DEF CheckKey, CheckRollback, store
<1>5. CASE Replace(t)
  <2>1. run' = run /\ thread[t].pc = "replace"
    BY <1>5 DEF Replace, store
  <2> QED
    BY <1>5, <2>1, ReplaceHolds, StepsNeat
<1>6. CASE ReadGrants(t) \/ Grant(t) \/ ListKeys(t) \/ Bind(t) \/ \E a \in Accounts : ReadAccount(t, a)
  <2>1. run' = run
    BY <1>6 DEF ReadGrants, Grant, ListKeys, Bind, ReadAccount, store
  <2>2. Ends(t) \/ \E pc \in {"grant", "list", "rows", "accounts", "bind"} : Steps(t, pc)
    BY <1>6, ReadGrantsHolds, GrantHolds, ListKeysHolds, BindHolds, ReadAccountHolds
       DEF Retreats, BoundTyped
  <2> QED
    BY <2>1, <2>2, EndsNeat, StepsNeat
<1>7. CASE KeysMoved(t) \/ RouteKey(t) \/ \E item \in thread[t].keys : MoveKey(t, item)
  <2>1. run' = run
    BY <1>7 DEF KeysMoved, RouteKey, MoveKey, store
  <2>2. \/ Ends(t) \/ \E pc \in {"rows", "accounts"} : Steps(t, pc)
        \/ KeysMoved(t) /\ Steps(t, "store")
    BY <1>7, KeysMovedHolds, RouteKeyHolds, MoveKeyHolds DEF Retreats
  <2>3. KeysMoved(t) => thread[t].op \notin {"auto", "rollback"}
    BY Working DEF KeysMoved, Follows, Granting
  <2> QED
    BY <2>1, <2>2, <2>3, EndsNeat, StepsNeat
<1>8. CASE Store(t)
  BY <1>8, StoreNeat
<1>9. CASE \E row \in thread[t].todo :
              \/ \E g \in Groups : Pick(t, row, g)
              \/ Skip(t, row) \/ NextCandidate(t, row) \/ NextItem(t, row)
  BY <1>9, TakesNeat
<1>10. CASE FinishAuto(t) \/ FinishMigrate(t) \/ FinishRollback(t)
  BY <1>10, FinishNeat
<1> QED
  BY <1>1, <1>2, <1>3, <1>4, <1>5, <1>6, <1>7, <1>8, <1>9, <1>10 DEF Answered

LEMMA FailedNeat ==
    ASSUME KInv, DInv, NEW t \in Threads, Failed(t)
    PROVE  DInv'
<1>1. run' = run
  BY DEF Failed, Abandon, ReplaceFails, GrantFails, MoveKeyFails, store
<1> QED
  BY <1>1, AbandonHolds, ReplaceFailsHolds, GrantFailsHolds, MoveKeyFailsHolds, EndsNeat, StepsNeat
     DEF Failed, Retreats

LEMMA NextNeat ==
    ASSUME KInv, BoundTyped, DInv, [Next]_vars
    PROVE  DInv'
<1>1. CASE \E t \in Threads, p \in Platforms : StartAuto(t, Platforms) \/ StartAuto(t, {p})
  BY <1>1, StartsNeat
<1>2. CASE \E t \in Threads : Starts(t) \/ Answered(t) \/ Failed(t)
  BY <1>2, StartsNeat, AnsweredNeat, FailedNeat
<1>3. CASE run' = run /\ thread' = thread
  BY <1>3 DEF DInv, Neat, Scattered, Apart
<1>4. CASE Crash
  <2>1. run' = run /\ \A t \in Threads : thread'[t] = Idle
    BY <1>4 DEF Crash, store
  <2> QED
    BY <2>1, IdleTyped DEF DInv, Neat, Scattered, Apart
<1>5. CASE \/ \E kind \in PoolKinds, g \in Groups : AddToPool(kind, g) \/ RemoveFromPool(kind, g)
           \/ SetEnabled \/ (\E u \in Users : FlowEnds(u)) \/ UNCHANGED vars
  BY <1>3, <1>5 DEF AddToPool, RemoveFromPool, SetEnabled, FlowEnds, vars, store
<1> QED
  BY <1>1, <1>2, <1>4, <1>5 DEF Next

-----------------------------------------------------------------------------
(* One group per platform.                                                 *)

One(S) == \A g, h \in S : Platform[g] = Platform[h] => g = h

\* To replace a group that is there leaves one, as does to replace one where there is none
\* or the new one already.
Fits(S, old, new) == old \in S \/ OnPlatform(S, Platform[new]) \subseteq {new}

\* What a thread has seen of the groups of a user that it is to move is still so.
Sees(l, u) ==
    /\ l.op = "auto" /\ l.pc = "check" => snapshot[u] = allowed[u]
    /\ l.user = u =>
          /\ l.op \in {"manual", "assign"} /\ l.pc = "check" => snapshot[u] = allowed[u]
          /\ l.pc = "replace" => Fits(allowed[u], l.from, l.to)
          /\ l.pc \in {"read", "grant"} => OnPlatform(allowed[u], Platform[l.to]) = {}
          /\ l.pc = "grant" => l.read = allowed[u]
    /\ \A row \in l.todo : row.user = u =>
          /\ l.op \in {"auto", "migrate"} => row.from \in allowed[u]
          /\ l.op = "rollback" => Fits(allowed[u], row.from, row.to)

SInv == \A u \in Users : Clean(u) =>
            One(allowed[u]) /\ \A t \in Threads : Sees(thread[t], u)

\* What one thread's step leaves of the users that others are to move.
Leaves(t) ==
    /\ snapshot' = snapshot \/ snapshot' = allowed'
    /\ \A u \in Users : Clean(u)' => Clean(u)
    /\ \A u \in Users, s \in Threads \ {t} :
          Clean(u)' /\ Moves(thread[s], u) => allowed'[u] = allowed[u]

\* A user without a group of its own on a platform has none there.
LEMMA NoDirect ==
    ASSUME NEW S \in SUBSET Groups, One(S), NEW p, Direct(S, p) = NoGroup
    PROVE  OnPlatform(S, p) = {}
<1> SUFFICES ASSUME OnPlatform(S, p) # {} PROVE FALSE
  OBVIOUS
<1>1. PICK g \in S : Platform[g] = p
  BY DEF OnPlatform
<1>2. OnPlatform(S, p) = {g}
  BY <1>1 DEF OnPlatform, One
<1>3. Cardinality(OnPlatform(S, p)) = 1
  BY <1>2, FS_Singleton
<1>4. (CHOOSE h \in S : Platform[h] = p) \in S
  BY <1>1
<1> QED
  BY <1>3, <1>4, GroupRotationAssumption DEF Direct, GroupRotationAssumption

LEMMA OneIsSingle ==
    ASSUME NEW S \in SUBSET Groups
    PROVE  One(S) <=> \A p \in Platforms : Cardinality(OnPlatform(S, p)) <= 1
<1>1. ASSUME One(S), NEW p PROVE Cardinality(OnPlatform(S, p)) <= 1
  <2>1. CASE OnPlatform(S, p) = {}
    BY <2>1, FS_EmptySet
  <2>2. CASE OnPlatform(S, p) # {}
    <3>1. PICK g : OnPlatform(S, p) = {g}
      BY <1>1, <2>2 DEF OnPlatform, One
    <3>2. Cardinality({g}) = 1
      BY FS_Singleton
    <3> QED
      BY <3>1, <3>2
  <2> QED
    BY <2>1, <2>2
<1>2. ASSUME \A p \in Platforms : Cardinality(OnPlatform(S, p)) <= 1,
             NEW g \in S, NEW h \in S, Platform[g] = Platform[h]
      PROVE  g = h
  <2> DEFINE here == OnPlatform(S, Platform[g])
  <2>1. g \in here /\ h \in here
    BY <1>2 DEF OnPlatform
  <2>2. IsFiniteSet(here) /\ Cardinality(here) <= 1
    BY <1>2, FS_Subset, GroupRotationAssumption
       DEF GroupRotationAssumption, OnPlatform, Platforms
  <2> HIDE DEF here
  <2>3. Cardinality(here) \in Nat /\ Cardinality(here) # 0
    BY <2>1, <2>2, FS_CardinalityType, FS_EmptySet
  <2>4. Cardinality(here) = 1
    BY <2>2, <2>3
  <2> QED
    BY <2>1, <2>2, <2>4, FS_Singleton
<1> QED
  BY <1>1, <1>2 DEF One

\* Nothing that is noted is forgotten, and only the collection changes what was collected.
LEMMA StepNotes ==
    ASSUME KInv, NEW t \in Threads,
           Starts(t) \/ Answered(t) \/ Failed(t) \/ \E scope : StartAuto(t, scope)
    PROVE  /\ snapshot' = snapshot \/ snapshot' = allowed'
           /\ strayed \subseteq strayed'
           /\ \A k \in Keys : routed'[k] = "never" => routed[k] = "never"
<1> USE DEF upstream, store, history, notes
<1>1. CASE Answered(t)
  <2>1. CASE \/ Refresh(t) \/ Sync(t) \/ CheckManual(t) \/ CheckAssign(t) \/ ListCandidates(t)
             \/ CheckKey(t) \/ CheckRollback(t) \/ ReadGrants(t)
    BY <2>1 DEF Refresh, Sync, CheckManual, CheckAssign, ListCandidates, CheckKey, CheckRollback,
                ReadGrants
  <2>2. CASE ListKeys(t) \/ KeysMoved(t) \/ Store(t) \/ \E a \in Accounts : ReadAccount(t, a)
    BY <2>2 DEF ListKeys, KeysMoved, Store, ReadAccount
  <2>3. CASE \E row \in thread[t].todo :
                \/ \E g \in Groups : Pick(t, row, g)
                \/ Skip(t, row) \/ NextCandidate(t, row) \/ NextItem(t, row)
    BY <2>3 DEF Pick, Skip, NextCandidate, NextItem
  <2>4. CASE FinishAuto(t) \/ FinishMigrate(t) \/ FinishRollback(t)
    BY <2>4 DEF FinishAuto, FinishMigrate, FinishRollback
  <2>5. CASE Replace(t) \/ Grant(t) \/ Bind(t) \/ \E item \in thread[t].keys : MoveKey(t, item)
    BY <2>5 DEF Replace, Grant, Bind, MoveKey
  <2>6. CASE RouteKey(t)
    <3>1. /\ snapshot' = snapshot /\ strayed' = strayed /\ thread[t].pc \in {"seen", "unseen"}
          /\ \/ routed' = routed
             \/ routed' = [routed EXCEPT ![thread[t].key] =
                              IF @ = "unseen" THEN @ ELSE thread[t].pc]
      BY <2>6 DEF RouteKey
    <3> QED
      BY <3>1 DEF KInv, Data
  <2> QED
    BY <1>1, <2>1, <2>2, <2>3, <2>4, <2>5, <2>6 DEF Answered
<1>2. CASE Starts(t) \/ \E scope : StartAuto(t, scope)
  BY <1>2 DEF Starts, StartManual, StartAssign, StartMigrate, StartKey, StartRollback, StartAuto
<1>3. CASE Failed(t)
  BY <1>3 DEF Failed, Abandon, GrantFails, MoveKeyFails, ReplaceFails
<1> QED
  BY <1>1, <1>2, <1>3

LEMMA StepLeaves ==
    ASSUME KInv, NEW t \in Threads,
           Starts(t) \/ Answered(t) \/ Failed(t) \/ \E scope : StartAuto(t, scope)
    PROVE  Leaves(t)
<1>1. /\ crossed.groups \subseteq crossed'.groups /\ crossed.grants \subseteq crossed'.grants
      /\ \A u \in Users, s \in Threads \ {t} :
            u \notin crossed'.groups /\ Moves(thread[s], u) => allowed'[u] = allowed[u]
  <2>1. CASE Cross(t)
    BY <2>1, CrossNotes
  <2>2. CASE UNCHANGED <<upstream, crossed>>
    BY <2>2 DEF upstream
  <2> QED
    BY <2>1, <2>2, StepCrosses
<1>2. ASSUME NEW u \in Users, Clean(u)'
      PROVE  Clean(u) /\ u \notin crossed'.groups
  BY <1>1, <1>2, StepNotes DEF Clean
<1> QED
  BY <1>1, <1>2, StepNotes DEF Leaves

\* A user that nobody but this thread is to move may be moved by it.
LEMMA SeesHolds ==
    ASSUME KInv, SInv, NEW t \in Threads, Leaves(t), Rests(t),
           \A u \in Users : Clean(u)' /\ Clean(u) /\ One(allowed[u]) /\ Sees(thread[t], u) =>
               One(allowed'[u]) /\ Sees(thread[t], u)'
    PROVE  SInv'
<1> SUFFICES ASSUME NEW u \in Users, Clean(u)'
             PROVE  One(allowed'[u]) /\ \A s \in Threads : Sees(thread[s], u)'
  BY DEF SInv, One
<1>1. Clean(u) /\ One(allowed[u]) /\ \A s \in Threads : Sees(thread[s], u)
  BY DEF Leaves, SInv
<1>2. One(allowed'[u]) /\ Sees(thread[t], u)'
  BY <1>1
<1>3. ASSUME NEW s \in Threads \ {t} PROVE Sees(thread[s], u)'
  <2>1. Alike(thread'[s], thread[s])
    BY DEF Rests, Alike, Same
  <2>2. CASE Moves(thread[s], u)
    <3>1. /\ allowed'[u] = allowed[u]
          /\ snapshot'[u] = snapshot[u] \/ snapshot'[u] = allowed'[u]
      BY <2>2 DEF Leaves
    <3> QED
      BY <1>1, <2>1, <3>1 DEF Sees, Alike, Same
  <2>3. CASE ~Moves(thread[s], u)
    BY <2>1, <2>3 DEF Moves, Sees, Alike, Same
  <2> QED
    BY <2>2, <2>3
<1> QED
  BY <1>2, <1>3

\* Steps that move nobody, and do not set out to.
LEMMA QuietSees ==
    ASSUME KInv, SInv, NEW t \in Threads, Leaves(t), Rests(t), allowed' = allowed,
           thread'[t].pc \notin {"check", "replace", "read", "grant"},
           \/ thread'[t].todo = {}
           \/ thread'[t].op = thread[t].op /\ thread'[t].todo \subseteq thread[t].todo
    PROVE  SInv'
<1>1. ASSUME NEW u \in Users, Sees(thread[t], u) PROVE Sees(thread[t], u)'
  BY <1>1 DEF Sees
<1> QED
  BY <1>1, SeesHolds

LEMMA EndsSees ==
    ASSUME KInv, SInv, NEW t \in Threads, Leaves(t), allowed' = allowed, Ends(t)
    PROVE  SInv'
BY QuietSees, IdleTyped, IdleEmpty DEF Ends, Others, Rests

LEMMA StepsSee ==
    ASSUME KInv, SInv, NEW t \in Threads, Leaves(t), allowed' = allowed,
           NEW pc, pc \notin {"check", "replace", "read", "grant"}, Steps(t, pc)
    PROVE  SInv'
BY QuietSees DEF Steps, Same, Others, Rests

LEMMA BeginsSees ==
    ASSUME KInv, SInv, NEW t \in Threads, Leaves(t), allowed' = allowed,
           NEW op, op # "rollback", Begins(t, op)
    PROVE  SInv'
BY QuietSees DEF Begins, Others, Rests

\* A user that has not strayed is where the run has left it, or back.
LEMMA StartsSee ==
    ASSUME KInv, SInv, NEW t \in Threads, Leaves(t),
           Starts(t) \/ (\E scope : StartAuto(t, scope))
    PROVE  SInv'
<1> USE DEF upstream
<1>1. CASE \E u \in Users, g \in Groups : StartManual(t, u, g)
  BY <1>1, StartManualHolds, BeginsSees DEF StartManual
<1>2. CASE \E u \in Users, g \in Groups, source \in Groups \cup {NoGroup} :
              StartAssign(t, u, source, g)
  BY <1>2, StartAssignHolds, BeginsSees DEF StartAssign
<1>3. CASE \E s, g \in Groups : StartMigrate(t, s, g)
  BY <1>3, StartMigrateHolds, BeginsSees DEF StartMigrate
<1>4. CASE \E k \in Keys, hint \in Groups \cup {NoGroup}, g \in Groups : StartKey(t, k, hint, g)
  BY <1>4, StartKeyHolds, BeginsSees DEF StartKey
<1>5. CASE StartRollback(t)
  <2>1. /\ Begins(t, "rollback") /\ allowed' = allowed
        /\ thread'[t].todo = {[user |-> m.user, from |-> m.to, to |-> m.from] : m \in run.moved}
        /\ strayed' = strayed \cup {m.user : m \in {m \in run.moved : Strays(m)}}
    BY <1>5, StartRollbackHolds DEF StartRollback
  <2>2. ASSUME NEW u \in Users, Clean(u)', NEW row \in thread'[t].todo, row.user = u
        PROVE  Fits(allowed[u], row.from, row.to)
    <3>1. PICK m \in run.moved : row = [user |-> m.user, from |-> m.to, to |-> m.from]
      BY <2>1
    <3>2. ~Strays(m)
      BY <2>1, <2>2, <3>1 DEF Clean
    <3> QED
      BY <2>2, <3>1, <3>2 DEF Strays, Fits
  <2>3. ASSUME NEW u \in Users, Clean(u)' PROVE Sees(thread[t], u)'
    BY <2>1, <2>2, <2>3 DEF Sees, Begins
  <2>4. Rests(t)
    BY <2>1 DEF Begins, Others, Rests
  <2> QED
    BY <2>1, <2>3, <2>4, SeesHolds
<1>6. CASE \E scope : StartAuto(t, scope)
  BY <1>6, StartAutoHolds, BeginsSees DEF StartAuto
<1> QED
  BY <1>1, <1>2, <1>3, <1>4, <1>5, <1>6 DEF Starts

\* Where the groups are collected, read or checked.
LEMMA RefreshSees ==
    ASSUME KInv, SInv, NEW t \in Threads, Leaves(t), Refresh(t)
    PROVE  SInv'
<1>1. Steps(t, "check") /\ snapshot' = allowed /\ allowed' = allowed
  BY RefreshHolds DEF Refresh, upstream
<1>2. ASSUME NEW u \in Users, Sees(thread[t], u) PROVE Sees(thread[t], u)'
  BY <1>1, <1>2 DEF Sees, Steps, Same
<1> QED
  BY <1>1, <1>2, SeesHolds DEF Steps, Others, Rests

LEMMA ReadGrantsSees ==
    ASSUME KInv, SInv, NEW t \in Threads, Leaves(t), ReadGrants(t)
    PROVE  SInv'
<1>1. /\ Steps(t, "grant") /\ thread'[t].read = allowed[thread[t].user]
      /\ allowed' = allowed /\ thread[t].pc = "read"
  BY ReadGrantsHolds DEF ReadGrants, upstream
<1>2. ASSUME NEW u \in Users, Sees(thread[t], u) PROVE Sees(thread[t], u)'
  BY <1>1, <1>2 DEF Sees, Steps, Same
<1> QED
  BY <1>1, <1>2, SeesHolds DEF Steps, Others, Rests

LEMMA CheckManualSees ==
    ASSUME KInv, SInv, NEW t \in Threads, Leaves(t), CheckManual(t)
    PROVE  SInv'
<1> DEFINE u == thread[t].user
           direct == Direct(snapshot[u], Platform[thread[t].to])
<1>1. /\ allowed' = allowed /\ thread[t].pc = "check" /\ thread[t].op = "manual" /\ u \in Users
  BY Working DEF CheckManual, At, upstream, Well
<1>2. CASE Ends(t)
  BY <1>1, <1>2, EndsSees
<1>3. CASE /\ Others(t) /\ thread'[t].op = "manual" /\ thread'[t].pc = "replace"
           /\ thread'[t].user = thread[t].user /\ thread'[t].to = thread[t].to
           /\ thread'[t].from = Current(thread[t])
  <2>1. ASSUME One(allowed[u]), Sees(thread[t], u)
        PROVE  Fits(allowed[u], Current(thread[t]), thread[t].to)
    <3>1. snapshot[u] = allowed[u] /\ allowed[u] \in SUBSET Groups
      BY <1>1, <2>1 DEF Sees, KInv, Data
    <3>2. direct = NoGroup => OnPlatform(allowed[u], Platform[thread[t].to]) = {}
      BY <2>1, <3>1, NoDirect
    <3>3. direct # NoGroup => Current(thread[t]) \in allowed[u]
      BY <3>1, DirectTyped DEF Current
    <3> QED
      BY <3>2, <3>3 DEF Fits
  <2>2. ASSUME NEW v \in Users, One(allowed[v]), Sees(thread[t], v) PROVE Sees(thread[t], v)'
    <3>1. \A row \in thread'[t].todo : TRUE
      OBVIOUS
    <3>2. v = u => Fits(allowed[v], Current(thread[t]), thread[t].to)
      BY <2>1, <2>2
    <3> HIDE DEF u, direct
    <3> QED
      BY <1>1, <1>3, <2>2, <3>2 DEF Sees, u
  <2> QED
    BY <1>1, <1>3, <2>2, SeesHolds DEF Others, Rests
<1> QED
  BY <1>2, <1>3, CheckManualHolds

LEMMA CheckAssignSees ==
    ASSUME KInv, SInv, NEW t \in Threads, Leaves(t), CheckAssign(t)
    PROVE  SInv'
<1> DEFINE u == thread[t].user
           direct == Direct(snapshot[u], Platform[thread[t].to])
           vacant == OnPlatform(snapshot[u], Platform[thread[t].to]) = {}
<1>1. /\ allowed' = allowed /\ thread[t].pc = "check" /\ thread[t].op = "assign" /\ u \in Users
  BY Working DEF CheckAssign, At, upstream, store, Well
<1>2. CASE Ends(t)
  BY <1>1, <1>2, EndsSees
<1>3. CASE /\ Others(t) /\ thread'[t].op = "assign"
           /\ thread'[t].user = thread[t].user /\ thread'[t].to = thread[t].to
           /\ thread'[t].from = direct
           /\ \/ thread'[t].pc = "list"
              \/ thread'[t].pc = "read" /\ vacant
              \/ thread'[t].pc = "replace" /\ direct # NoGroup
  <2>1. ASSUME Sees(thread[t], u)
        PROVE  snapshot[u] = allowed[u] /\ (direct # NoGroup => direct \in allowed[u])
    <3>1. snapshot[u] = allowed[u] /\ allowed[u] \in SUBSET Groups
      BY <1>1, <2>1 DEF Sees, KInv, Data
    <3> QED
      BY <3>1, DirectTyped
  <2> HIDE DEF direct
  <2>2. ASSUME NEW v \in Users, Sees(thread[t], v) PROVE Sees(thread[t], v)'
    BY <1>1, <1>3, <2>1, <2>2 DEF Sees, Fits
  <2> QED
    BY <1>1, <1>3, <2>2, SeesHolds DEF Others, Rests
<1> QED
  BY <1>2, <1>3, CheckAssignHolds

\* A group is only replaced by one of its platform, where the user has no other; and what is
\* left to do concerns other users or platforms.
LEMMA ReplaceGroupFits ==
    ASSUME KInv, DInv, NEW t \in Threads, thread[t].pc = "replace",
           ReplaceGroup(thread[t].user, thread[t].from, thread[t].to),
           NEW u \in Users, One(allowed[u]), Sees(thread[t], u)
    PROVE  /\ One(allowed'[u])
           /\ \A row \in thread[t].todo : row.user = u =>
                 /\ thread[t].op \in {"auto", "migrate"} => row.from \in allowed'[u]
                 /\ thread[t].op = "rollback" => Fits(allowed'[u], row.from, row.to)
<1>1. PICK l : l = thread[t]
  OBVIOUS
<1>2. /\ l.user \in Users /\ Stays(l) /\ Neat(l) /\ l.pc = "replace" /\ Sees(l, u)
      /\ l.op = "rollback" => \A row \in l.todo : Stays(row)
  BY <1>1, Working DEF Well, DInv
<1>3. /\ allowed'[l.user] = (allowed[l.user] \ {l.from}) \cup {l.to}
      /\ l.user # u => allowed'[u] = allowed[u]
  BY <1>1, <1>2 DEF ReplaceGroup, KInv, Data
<1>4. CASE l.user # u
  BY <1>1, <1>2, <1>3, <1>4 DEF Sees
<1>5. CASE l.user = u
  <2>1. Fits(allowed[u], l.from, l.to) /\ Platform[l.from] = Platform[l.to]
    BY <1>2, <1>5 DEF Sees, Stays
  <2>2. ASSUME NEW g \in allowed[u] \ {l.from}, g # l.to PROVE Platform[g] # Platform[l.to]
    BY <2>1, <2>2 DEF Fits, One, OnPlatform, KInv, Data
  <2>3. One(allowed'[u])
    BY <1>3, <1>5, <2>2 DEF One
  <2>4. ASSUME NEW row \in l.todo, row.user = u, l.op \in {"auto", "migrate"}
        PROVE  row.from \in allowed'[u]
    <3>1. l.op = "auto" /\ Apart(row, l)
      BY <1>2, <1>5, <2>4 DEF Neat
    <3> QED
      BY <1>2, <1>3, <1>5, <2>4, <3>1 DEF Sees, Apart
  <2>5. ASSUME NEW row \in l.todo, row.user = u, l.op = "rollback"
        PROVE  Fits(allowed'[u], row.from, row.to)
    <3>1. Apart(row, l) /\ Platform[row.from] = Platform[row.to] /\ Fits(allowed[u], row.from, row.to)
      BY <1>2, <1>5, <2>5 DEF Neat, Stays, Sees
    <3>2. Platform[row.from] # Platform[l.from]
      BY <1>5, <2>5, <3>1 DEF Apart
    <3>3. OnPlatform(allowed'[u], Platform[row.to]) = OnPlatform(allowed[u], Platform[row.to])
      BY <1>3, <1>5, <2>1, <3>1, <3>2 DEF OnPlatform
    <3>4. row.from \in allowed[u] => row.from \in allowed'[u]
      BY <1>3, <1>5, <3>2
    <3> QED
      BY <3>1, <3>3, <3>4 DEF Fits
  <2> QED
    BY <1>1, <2>3, <2>4, <2>5
<1> QED
  BY <1>4, <1>5

LEMMA ReplaceSees ==
    ASSUME KInv, DInv, SInv, NEW t \in Threads, Leaves(t), Replace(t) \/ ReplaceFails(t)
    PROVE  SInv'
<1>1. /\ thread[t].pc = "replace"
      /\ UNCHANGED allowed \/ ReplaceGroup(thread[t].user, thread[t].from, thread[t].to)
  BY DEF Replace, ReplaceFails, upstream
<1>2. Ends(t) \/ \E pc \in {"rows", "list", "store"} : Steps(t, pc)
  BY ReplaceHolds, ReplaceFailsHolds DEF Retreats
<1>3. CASE UNCHANGED allowed
  BY <1>2, <1>3, EndsSees, StepsSee
<1>4. CASE ReplaceGroup(thread[t].user, thread[t].from, thread[t].to)
  <2>1. ASSUME NEW u \in Users, One(allowed[u]), Sees(thread[t], u)
        PROVE  One(allowed'[u]) /\ Sees(thread[t], u)'
    <3>1. One(allowed'[u])
      BY <1>1, <1>4, <2>1, ReplaceGroupFits
    <3>2. CASE Ends(t)
      BY <3>1, <3>2, IdleTyped, IdleEmpty DEF Ends, Sees
    <3>3. CASE \E pc \in {"rows", "list", "store"} : Steps(t, pc)
      <4>1. thread'[t].pc \in {"rows", "list", "store"} /\ Same(thread'[t], thread[t])
        BY <3>3 DEF Steps
      <4>2. \A row \in thread[t].todo : row.user = u =>
               /\ thread[t].op \in {"auto", "migrate"} => row.from \in allowed'[u]
               /\ thread[t].op = "rollback" => Fits(allowed'[u], row.from, row.to)
        BY <1>1, <1>4, <2>1, ReplaceGroupFits
      <4> QED
        BY <3>1, <4>1, <4>2 DEF Sees, Same
    <3> QED
      BY <1>2, <3>2, <3>3
  <2> QED
    BY <1>2, <2>1, SeesHolds DEF Ends, Steps, Others, Rests
<1> QED
  BY <1>1, <1>3, <1>4

\* A further group is granted where the user has none.
LEMMA GrantSees ==
    ASSUME KInv, SInv, NEW t \in Threads, Leaves(t), Grant(t)
    PROVE  SInv'
<1>1. PICK l : l = thread[t]
  OBVIOUS
<1>2. /\ l.pc = "grant" /\ l.user \in Users /\ l.to \in Groups /\ l.op \in Granting
      /\ allowed' = [allowed EXCEPT ![l.user] = l.read \cup {l.to}]
  BY <1>1, Working DEF Grant, SetGrants, Well, Follows
<1>3. /\ Ends(t) \/ \E pc \in {"rows", "list"} : Steps(t, pc)
  BY GrantHolds DEF Retreats
<1>4. ASSUME NEW u \in Users, One(allowed[u]), Sees(l, u)
      PROVE  One(allowed'[u]) /\ allowed[u] \subseteq allowed'[u]
  <2>1. CASE u # l.user
    BY <1>2, <1>4, <2>1 DEF KInv, Data
  <2>2. CASE u = l.user
    <3>1. allowed'[u] = allowed[u] \cup {l.to} /\ OnPlatform(allowed[u], Platform[l.to]) = {}
      BY <1>2, <1>4, <2>2 DEF Sees, KInv, Data
    <3> QED
      BY <1>4, <3>1 DEF One, OnPlatform
  <2> QED
    BY <2>1, <2>2
<1>5. ASSUME NEW u \in Users, One(allowed[u]), Sees(l, u)
      PROVE  Sees(thread[t], u)'
  <2>1. CASE Ends(t)
    BY <2>1, IdleTyped, IdleEmpty DEF Ends, Sees
  <2>2. CASE \E pc \in {"rows", "list"} : Steps(t, pc)
    <3>1. thread'[t].pc \in {"rows", "list"} /\ Same(thread'[t], l)
      BY <1>1, <2>2 DEF Steps
    <3> QED
      BY <1>2, <1>4, <1>5, <3>1 DEF Sees, Same, Granting
  <2> QED
    BY <1>3, <2>1, <2>2
<1> QED
  BY <1>1, <1>3, <1>4, <1>5, SeesHolds DEF Ends, Steps, Others, Rests

\* The rows of an automatic run are users with the groups that they have.
LEMMA SyncSees ==
    ASSUME KInv, SInv, NEW t \in Threads, Leaves(t), Sync(t)
    PROVE  SInv'
<1>1. /\ Others(t) /\ thread'[t].op = "auto" /\ thread'[t].pc = "rows"
      /\ thread'[t].todo = Rows(thread[t].read) \cup Newcomers(thread[t])
  BY SyncHolds
<1>2. thread[t].pc = "check" /\ thread[t].op = "auto" /\ allowed' = allowed
  BY DEF Sync, At, upstream
<1>3. ASSUME NEW v \in Users, snapshot[v] = allowed[v],
             NEW S \in SUBSET Groups, NEW row \in Rows(S), row.user = v
      PROVE  row.from \in allowed[v]
  <2>1. PICK u \in Users, p \in Platforms :
           row = [user |-> u, from |-> Direct(snapshot[u], p), to |-> NoGroup]
    BY DEF Rows
  <2>2. row.from \in Groups /\ allowed[v] \in SUBSET Groups
    BY RowsTyped DEF KInv, Data
  <2>3. row.from = Direct(allowed[v], p) /\ row.from # NoGroup
    BY <1>3, <2>1, <2>2, GroupRotationAssumption DEF GroupRotationAssumption
  <2> QED
    BY <2>2, <2>3, DirectTyped
<1>4. thread[t].read \in SUBSET Groups /\ thread[t].landing \ thread[t].read \in SUBSET Groups
  BY DEF KInv, Local
<1>5. ASSUME NEW u \in Users, Sees(thread[t], u) PROVE Sees(thread[t], u)'
  <2>1. snapshot[u] = allowed[u]
    BY <1>2, <1>5 DEF Sees
  <2>2. \A row \in thread'[t].todo : row.user = u => row.from \in allowed'[u]
    BY <1>1, <1>2, <1>3, <1>4, <2>1 DEF Newcomers
  <2> QED
    BY <1>1, <2>2 DEF Sees
<1> QED
  BY <1>1, <1>2, <1>5, SeesHolds DEF Others, Rests

\* The next row is taken up as it was found; a user that is to be granted a further group, because
\* it only has keys in the source group of a migration, has had them routed there.
LEMMA TakesSees ==
    ASSUME KInv, DInv, SInv, NEW t \in Threads, Leaves(t), NEW row,
           \/ \E g \in Groups : Pick(t, row, g)
           \/ Skip(t, row) \/ NextCandidate(t, row) \/ NextItem(t, row)
    PROVE  SInv'
<1>0. row \in thread[t].todo /\ allowed' = allowed /\ thread[t].todo \subseteq Row
  BY DEF Pick, Skip, NextCandidate, NextItem, At, upstream, KInv, Local
<1>1. ASSUME NEW g \in Groups, Pick(t, row, g) PROVE SInv'
  <2>0. thread[t].op = "auto"
    BY <1>1 DEF Pick, At
  <2>1. /\ Others(t) /\ thread'[t].op = "auto"
        /\ thread'[t].pc = "replace" /\ thread'[t].user = row.user /\ thread'[t].from = row.from
        /\ thread'[t].todo = thread[t].todo \ {row}
    BY <1>1, PickHolds
  <2>2. ASSUME NEW u \in Users, Sees(thread[t], u) PROVE Sees(thread[t], u)'
    BY <1>0, <2>0, <2>1, <2>2 DEF Sees, Fits
  <2> QED
    BY <1>0, <2>1, <2>2, SeesHolds DEF Others, Rests
<1>2. CASE Skip(t, row)
  <2>1. /\ Others(t) /\ thread[t].op = "auto" /\ thread'[t].op = "auto" /\ thread'[t].pc = "rows"
        /\ thread'[t].todo = thread[t].todo \ {row}
    BY <1>2, SkipHolds DEF Skip, At
  <2> QED
    BY <1>0, <2>1, QuietSees DEF Others, Rests
<1>3. CASE NextCandidate(t, row)
  <2>1. /\ Others(t) /\ thread[t].op = "migrate" /\ thread'[t].op = "migrate"
        /\ thread'[t].pc = (IF row.from = NoGroup THEN "read" ELSE "replace")
        /\ thread'[t].user = row.user /\ thread'[t].from = thread[t].from
        /\ thread'[t].todo = thread[t].todo \ {row}
    BY <1>3, NextCandidateHolds DEF NextCandidate, At
  <2>2. row.from \in {thread[t].from, NoGroup}
    BY <1>0, <2>1 DEF DInv, Neat
  <2>3. ASSUME NEW u \in Users, Sees(thread[t], u) PROVE Sees(thread[t], u)'
    <3>1. row.user = u => row.from \in allowed[u] /\ row.from = thread[t].from /\ row.from # NoGroup
      BY <1>0, <2>1, <2>2, <2>3, GroupRotationAssumption
         DEF Sees, KInv, Data, GroupRotationAssumption
    <3> QED
      BY <1>0, <2>1, <2>3, <3>1 DEF Sees, Fits
  <2> QED
    BY <1>0, <2>1, <2>3, SeesHolds DEF Others, Rests
<1>4. CASE NextItem(t, row)
  <2>1. /\ Others(t) /\ thread[t].op = "rollback" /\ thread'[t].op = "rollback"
        /\ thread'[t].pc = "replace" /\ thread'[t].user = row.user
        /\ thread'[t].from = row.from /\ thread'[t].to = row.to
        /\ thread'[t].todo = thread[t].todo \ {row}
    BY <1>4, NextItemHolds DEF NextItem, At
  <2>2. ASSUME NEW u \in Users, Sees(thread[t], u) PROVE Sees(thread[t], u)'
    BY <1>0, <2>1, <2>2 DEF Sees
  <2> QED
    BY <1>0, <2>1, <2>2, SeesHolds DEF Others, Rests
<1> QED
  BY <1>1, <1>2, <1>3, <1>4

\* Those whose keys nobody has routed are authorised for the group that their keys are in.
LEMMA ListCandidatesSees ==
    ASSUME KInv, SInv, NEW t \in Threads, Leaves(t), ListCandidates(t)
    PROVE  SInv'
<1>1. /\ Others(t) /\ thread'[t].op = "migrate" /\ thread'[t].pc = "rows" /\ allowed' = allowed
      /\ thread'[t].todo = Candidates(thread[t])
  BY ListCandidatesHolds DEF ListCandidates, upstream
<1>2. thread[t].from \in Groups
  BY Working DEF ListCandidates, At, Well, Stays
<1>3. ASSUME NEW u \in Users, Clean(u), NEW row \in Candidates(thread[t]), row.user = u
      PROVE  row.from \in allowed[u]
  <2>1. /\ row.from = IF thread[t].from \in allowed[u] THEN thread[t].from ELSE NoGroup
        /\ \/ Direct(allowed[u], Platform[thread[t].from]) = thread[t].from
           \/ \E k \in Keys : Owner(k) = u /\ keyGroup[k] = thread[t].from
    BY <1>3 DEF Candidates
  <2>2. allowed[u] \in SUBSET Groups /\ thread[t].from # NoGroup
    BY <1>2, GroupRotationAssumption DEF KInv, Data, GroupRotationAssumption
  <2>3. CASE Direct(allowed[u], Platform[thread[t].from]) = thread[t].from
    BY <2>1, <2>2, <2>3, DirectTyped
  <2>4. CASE \E k \in Keys : Owner(k) = u /\ keyGroup[k] = thread[t].from
    BY <1>3, <2>1, <2>2, <2>4 DEF Clean, NoKeyOrphaned, KInv, Data
  <2> QED
    BY <2>1, <2>3, <2>4
<1>4. ASSUME NEW u \in Users, Clean(u) PROVE Sees(thread[t], u)'
  BY <1>1, <1>3, <1>4 DEF Sees
<1> QED
  BY <1>1, <1>4, SeesHolds DEF Others, Rests

LEMMA AnsweredSees ==
    ASSUME KInv, BoundTyped, DInv, SInv, NEW t \in Threads, Leaves(t), Answered(t)
    PROVE  SInv'
<1>1. CASE Refresh(t) \/ Sync(t) \/ CheckManual(t) \/ CheckAssign(t) \/ ListCandidates(t)
  BY <1>1, RefreshSees, SyncSees, CheckManualSees, CheckAssignSees, ListCandidatesSees
<1>2. CASE Replace(t) \/ ReadGrants(t) \/ Grant(t)
  BY <1>2, ReplaceSees, ReadGrantsSees, GrantSees
<1>3. CASE ListKeys(t) \/ Bind(t) \/ \E a \in Accounts : ReadAccount(t, a)
  <2>1. allowed' = allowed
    BY <1>3 DEF ListKeys, Bind, ReadAccount, upstream
  <2>2. \E pc \in {"accounts", "bind"} : Steps(t, pc)
    BY <1>3, ListKeysHolds, BindHolds, ReadAccountHolds DEF BoundTyped
  <2> QED
    BY <2>1, <2>2, StepsSee
<1>4. CASE \/ KeysMoved(t) \/ CheckKey(t) \/ CheckRollback(t) \/ RouteKey(t)
           \/ \E item \in thread[t].keys : MoveKey(t, item)
  <2>1. allowed' = allowed
    BY <1>4 DEF KeysMoved, CheckKey, CheckRollback, RouteKey, MoveKey, upstream
  <2>2. Ends(t) \/ \E pc \in {"rows", "store", "accounts", "seen", "unseen"} : Steps(t, pc)
    BY <1>4, KeysMovedHolds, MoveKeyHolds, CheckKeyHolds, CheckRollbackHolds, RouteKeyHolds
       DEF Retreats
  <2> QED
    BY <2>1, <2>2, EndsSees, StepsSee
<1>5. CASE Store(t)
  <2>1. allowed' = allowed
    BY <1>5 DEF Store, upstream
  <2>2. CASE Ends(t) \/ Steps(t, "rows")
    BY <2>1, <2>2, EndsSees, StepsSee
  <2>3. CASE /\ Others(t) /\ thread'[t].op = thread[t].op
             /\ thread'[t].pc = "rows" /\ thread'[t].todo = thread[t].todo
    BY <2>1, <2>3, QuietSees DEF Others, Rests
  <2> QED
    BY <1>5, <2>2, <2>3, StoreHolds
<1>6. CASE \E row \in thread[t].todo :
              \/ \E g \in Groups : Pick(t, row, g)
              \/ Skip(t, row) \/ NextCandidate(t, row) \/ NextItem(t, row)
  BY <1>6, TakesSees
<1>7. CASE FinishAuto(t) \/ FinishMigrate(t) \/ FinishRollback(t)
  <2>1. allowed' = allowed
    BY <1>7 DEF FinishAuto, FinishMigrate, FinishRollback, upstream
  <2>2. CASE Ends(t)
    BY <2>1, <2>2, EndsSees
  <2>3. CASE thread'[t] = Idle /\ \A s \in Threads \ {t} : Alike(thread'[s], thread[s])
    BY <2>1, <2>3, QuietSees, IdleTyped, IdleEmpty DEF Rests
  <2> QED
    BY <1>7, <2>2, <2>3, FinishAutoHolds, FinishMigrateHolds, FinishRollbackHolds
<1> QED
  BY <1>1, <1>2, <1>3, <1>4, <1>5, <1>6, <1>7 DEF Answered

LEMMA FailedSees ==
    ASSUME KInv, DInv, SInv, NEW t \in Threads, Leaves(t), Failed(t)
    PROVE  SInv'
<1>1. CASE Abandon(t) \/ GrantFails(t) \/ MoveKeyFails(t)
  <2>1. allowed' = allowed
    BY <1>1 DEF Abandon, GrantFails, MoveKeyFails, upstream
  <2> QED
    BY <1>1, <2>1, AbandonHolds, GrantFailsHolds, MoveKeyFailsHolds, EndsSees, StepsSee DEF Retreats
<1> QED
  BY <1>1, ReplaceSees DEF Failed

LEMMA NextSees ==
    ASSUME KInv, BoundTyped, DInv, SInv, [Next]_vars
    PROVE  SInv'
<1>1. CASE \E t \in Threads, p \in Platforms : StartAuto(t, Platforms) \/ StartAuto(t, {p})
  BY <1>1, StepLeaves, StartsSee
<1>2. CASE \E t \in Threads : Starts(t) \/ Answered(t) \/ Failed(t)
  BY <1>2, StepLeaves, StartsSee, AnsweredSees, FailedSees
<1>3. ASSUME UNCHANGED <<allowed, snapshot, crossed, strayed, routed>>,
             \A t \in Threads : thread'[t] \in {thread[t], Idle}
      PROVE  SInv'
  <2> SUFFICES ASSUME NEW u \in Users, Clean(u)'
               PROVE  One(allowed'[u]) /\ \A t \in Threads : Sees(thread[t], u)'
    BY DEF SInv, One
  <2>1. One(allowed[u]) /\ \A t \in Threads : Sees(thread[t], u)
    BY <1>3 DEF SInv, Clean
  <2> QED
    BY <1>3, <2>1, IdleTyped, IdleEmpty DEF Sees
<1>4. CASE Crash
  BY <1>3, <1>4 DEF Crash, upstream, store
<1>5. CASE \/ \E kind \in PoolKinds, g \in Groups : AddToPool(kind, g) \/ RemoveFromPool(kind, g)
           \/ SetEnabled \/ (\E u \in Users : FlowEnds(u)) \/ UNCHANGED vars
  BY <1>3, <1>5
     DEF AddToPool, RemoveFromPool, SetEnabled, FlowEnds, vars, upstream, store, history, notes
<1> QED
  BY <1>1, <1>2, <1>4, <1>5 DEF Next

(***************************************************************************)
(* A user that has at most one group per platform keeps it that way, for   *)
(* every number of users, groups and platforms, and with any operations    *)
(* side by side: through automatic runs, moves, first assignments,         *)
(* migrations, routed keys and rollbacks, their failures, lost answers and *)
(* crashes (rotation.py, its checks after the refresh, and the upstream's  *)
(* replace-group).  Excepted are the users that were moved under an        *)
(* operation that was to move them, whose keys operators have routed, or   *)
(* whom a rollback finds neither where the run left them nor back.         *)
(***************************************************************************)
THEOREM UsersStayDedicated == Spec => []OneGroupPerPlatform
<1>1. Init => KInv /\ BoundTyped /\ DInv /\ SInv
  <2> SUFFICES ASSUME Init PROVE KInv /\ BoundTyped /\ DInv /\ SInv
    OBVIOUS
  <2>1. KInv /\ BoundTyped
    BY InitHolds
  <2>2. \A u \in Users : One(allowed[u])
    BY <2>1, OneIsSingle DEF Init, KInv, Data
  <2>3. \A t \in Threads : thread[t] = Idle
    BY DEF Init
  <2>4. DInv
    BY <2>3, IdleTyped DEF Init, DInv, Neat, Scattered, NoRun
  <2>5. SInv
    BY <2>2, <2>3, IdleTyped, IdleEmpty DEF SInv, Sees
  <2> QED
    BY <2>1, <2>4, <2>5
<1>2. KInv /\ BoundTyped /\ DInv /\ SInv /\ [Next]_vars => (KInv /\ BoundTyped /\ DInv /\ SInv)'
  BY NextHolds, BoundStaysTyped, NextNeat, NextSees
<1>3. KInv /\ BoundTyped /\ DInv /\ SInv => OneGroupPerPlatform
  BY OneIsSingle DEF KInv, Data, SInv, OneGroupPerPlatform
<1> QED
  BY <1>1, <1>2, <1>3, PTL DEF Spec

-----------------------------------------------------------------------------
(* A run, and its rollbacks, while nothing else moves anybody.             *)

\* A user has just the group g on the platform of x.
In(x, g) == OnPlatform(allowed[x.user], Platform[x.from]) = {g}

\* The run works on users that have one group on the platform, each of them once.
AutoKnows(l) ==
    /\ l.pc \in {"refresh", "check"} => l.todo = {} /\ l.moved = {}
    /\ l.pc = "check" => snapshot = allowed
    /\ l.pc = "replace" => In(l, l.from)
    /\ l.pc = "store" => l.was = {l.from} /\ In(l, l.to)
    /\ l.pc \in {"replace", "store"} => \A x \in l.todo \cup l.moved : Apart(x, l)
    /\ \A row \in l.todo : In(row, row.from) /\ row.to = NoGroup
    /\ \A m \in l.moved : /\ m.was = {m.from} /\ In(m, m.to)
                          /\ \A row \in l.todo : Apart(m, row)
                          /\ \A n \in l.moved : m = n \/ Apart(m, n)

\* A rollback works on moves of the run, from behind; those it has carried out are undone.
Undoes(x, m) == x.user = m.user /\ x.from = m.to /\ x.to = m.from
Undoing(x) == \E m \in run.moved : Undoes(x, m)
Undone(x) == \E m \in run.moved : Undoes(x, m) /\ In(m, m.from)

UndoKnows(l) ==
    /\ \A row \in l.todo : Undoing(row)
    /\ l.pc = "replace" => Undoing(l)
    /\ l.pc = "store" => Undone(l)
    /\ \A n \in l.moved : Undone(n)

\* Until a run has been recorded nothing else is at work.
Alone(t) == \A s \in Threads \ {t} : thread[s].pc = "idle"

AtWork(t) ==
    thread[t].pc # "idle" =>
        /\ run.moved = {} => thread[t].op = "auto" /\ AutoKnows(thread[t]) /\ Alone(t)
        /\ run.moved # {} => thread[t].op = "rollback" /\ UndoKnows(thread[t])

RunData ==
    /\ \A m \in run.moved : /\ m.was = {m.from} /\ (In(m, m.from) \/ In(m, m.to))
                            /\ \A n \in run.moved : m = n \/ Apart(m, n)
    /\ \A m \in run.undone : m \in run.moved /\ In(m, m.from)

RInv == untouched => RunData /\ \A t \in Threads : AtWork(t)

\* Steps that leave the users and the record of the run alone.
LEMMA QuietWork ==
    ASSUME RInv, NEW t \in Threads, Others(t), untouched' => untouched,
           thread[t].pc # "idle" \/ run.moved # {},
           UNCHANGED <<allowed, run>>, snapshot' \in {snapshot, allowed},
           untouched => AtWork(t)'
    PROVE  RInv'
<1> SUFFICES ASSUME untouched, NEW s \in Threads PROVE RunData' /\ AtWork(s)'
  BY DEF RInv
<1>1. RunData'
  BY DEF RInv, RunData, In
<1>2. CASE s # t
  <2>1. AtWork(s) /\ AtWork(t) /\ thread'[s] = thread[s]
    BY <1>2 DEF RInv, Others
  <2>2. thread[s].pc # "idle" => run.moved # {}
    BY <1>2, <2>1 DEF AtWork, Alone
  <2>3. UndoKnows(thread[s]) => UndoKnows(thread[s])'
    BY <2>1 DEF UndoKnows, Undoing, Undone, In
  <2> QED
    BY <1>1, <2>1, <2>2, <2>3 DEF AtWork
<1> QED
  BY <1>1, <1>2

LEMMA EndsWork ==
    ASSUME RInv, NEW t \in Threads, thread[t].pc # "idle", Ends(t), untouched' => untouched,
           UNCHANGED <<allowed, run, snapshot>>
    PROVE  RInv'
BY QuietWork, IdleTyped DEF Ends, AtWork

\* An operation that goes on with what it has to do.
LEMMA StepsWork ==
    ASSUME RInv, NEW t \in Threads, thread[t].pc # "idle",
           NEW pc \in {"rows", "seen", "unseen", "list", "grant", "accounts", "bind"},
           Steps(t, pc), untouched' => untouched, UNCHANGED <<allowed, run, snapshot>>
    PROVE  RInv'
<1>1. ASSUME untouched PROVE AtWork(t)'
  <2>1. AtWork(t) /\ thread'[t].pc = pc /\ Same(thread'[t], thread[t])
    BY <1>1 DEF RInv, Steps
  <2>2. Alone(t) => Alone(t)'
    BY DEF Steps, Others, Alone
  <2> QED
    BY <2>1, <2>2 DEF AtWork, AutoKnows, UndoKnows, Undoing, Undone, In, Same
<1> QED
  BY <1>1, QuietWork DEF Steps

\* Others move nobody while nothing is touched.
LEMMA OnlyRuns ==
    ASSUME RInv, untouched, NEW t \in Threads, thread[t].pc # "idle"
    PROVE  thread[t].op \in {"auto", "rollback"}
BY DEF RInv, AtWork

LEMMA RefreshWork ==
    ASSUME KInv, RInv, NEW t \in Threads, Refresh(t)
    PROVE  RInv'
<1>1. /\ Steps(t, "check") /\ snapshot' = allowed /\ thread[t].pc = "refresh"
      /\ UNCHANGED <<allowed, run, untouched>>
  BY RefreshHolds DEF Refresh, upstream, history, notes
<1>2. ASSUME untouched PROVE AtWork(t)'
  <2>1. AtWork(t) /\ thread'[t].pc = "check" /\ Same(thread'[t], thread[t])
    BY <1>1, <1>2 DEF RInv, Steps
  <2>2. Alone(t) => Alone(t)'
    BY <1>1 DEF Steps, Others, Alone
  <2> QED
    BY <1>1, <2>1, <2>2 DEF AtWork, AutoKnows, UndoKnows, Undoing, Undone, In, Same
<1> QED
  BY <1>1, <1>2, QuietWork DEF Steps

LEMMA SyncWork ==
    ASSUME KInv, RInv, NEW t \in Threads, Sync(t)
    PROVE  RInv'
<1>1. /\ Others(t) /\ thread'[t].op = "auto" /\ thread'[t].pc = "rows"
      /\ thread'[t].todo = Rows(thread[t].read) \cup Newcomers(thread[t])
      /\ thread'[t].moved = thread[t].moved
  BY SyncHolds
<1>2. /\ thread[t].pc = "check" /\ thread[t].op = "auto"
      /\ UNCHANGED <<allowed, snapshot, run, untouched>>
  BY DEF Sync, At, upstream, history, notes
<1>3. thread[t].read \in SUBSET Groups /\ thread[t].landing \ thread[t].read \in SUBSET Groups
  BY DEF KInv, Local
<1>4. ASSUME untouched PROVE AtWork(t)'
  <2>1. run.moved = {} /\ Alone(t) /\ snapshot = allowed /\ thread[t].moved = {}
    BY <1>2, <1>4 DEF RInv, AtWork, AutoKnows
  <2>2. ASSUME NEW S \in SUBSET Groups, NEW row \in Rows(S)
        PROVE  In(row, row.from) /\ row.to = NoGroup
    <3>1. PICK u \in Users, p \in Platforms :
             row = [user |-> u, from |-> Direct(snapshot[u], p), to |-> NoGroup]
      BY DEF Rows
    <3>2. row.from \in Groups
      BY RowsTyped DEF KInv
    <3>3. row.from = Direct(allowed[u], p) /\ row.user = u /\ row.to = NoGroup
      BY <2>1, <3>1
    <3>4. allowed[u] \in SUBSET Groups /\ row.from # NoGroup
      BY <3>2, GroupRotationAssumption DEF KInv, Data, GroupRotationAssumption
    <3> QED
      BY <3>3, <3>4, DirectTyped DEF In
  <2>3. \A row \in thread'[t].todo : In(row, row.from)' /\ row.to = NoGroup
    BY <1>1, <1>2, <1>3, <2>2 DEF Newcomers, In
  <2>4. Alone(t)'
    BY <1>1, <2>1 DEF Others, Alone
  <2> QED
    BY <1>1, <1>2, <2>1, <2>3, <2>4 DEF AtWork, AutoKnows
<1> QED
  BY <1>1, <1>2, <1>4, QuietWork

\* Two rows of one user on one platform are the same.
LEMMA PickWork ==
    ASSUME KInv, RInv, NEW t \in Threads, NEW row, NEW g \in Groups, Pick(t, row, g)
    PROVE  RInv'
<1>1. /\ Others(t) /\ thread'[t].op = "auto" /\ thread'[t].pc = "replace"
      /\ thread'[t].user = row.user /\ thread'[t].from = row.from /\ thread'[t].to = g
      /\ thread'[t].todo = thread[t].todo \ {row} /\ thread'[t].moved = thread[t].moved
  BY PickHolds
<1>2. /\ thread[t].pc = "rows" /\ thread[t].op = "auto" /\ row \in thread[t].todo
      /\ UNCHANGED <<allowed, snapshot, run, untouched>>
  BY DEF Pick, At, upstream, store, history, notes
<1>3. ASSUME untouched PROVE AtWork(t)'
  <2>1. run.moved = {} /\ Alone(t) /\ AutoKnows(thread[t])
    BY <1>2, <1>3 DEF RInv, AtWork
  <2>2. thread[t].todo \subseteq Row
    BY DEF KInv, Local
  <2>3. ASSUME NEW other \in thread[t].todo \ {row} PROVE Apart(other, row)
    <3>1. SUFFICES ASSUME other.user = row.user, Platform[other.from] = Platform[row.from]
                   PROVE  other = row
      BY DEF Apart
    <3>2. In(other, other.from) /\ In(row, row.from) /\ other.to = NoGroup /\ row.to = NoGroup
      BY <1>2, <2>1 DEF AutoKnows
    <3>3. other.from = row.from
      BY <3>1, <3>2 DEF In
    <3> QED
      BY <1>2, <2>2, <3>1, <3>2, <3>3 DEF Row
  <2>4. \A m \in thread[t].moved : Apart(m, row)
    BY <1>2, <2>1 DEF AutoKnows
  <2>5. AutoKnows(thread[t])'
    BY <1>1, <1>2, <2>1, <2>3, <2>4 DEF AutoKnows, In, Apart
  <2>6. Alone(t)'
    BY <1>1, <2>1 DEF Others, Alone
  <2> QED
    BY <1>1, <1>2, <2>1, <2>5, <2>6 DEF AtWork
<1> QED
  BY <1>1, <1>2, <1>3, QuietWork

LEMMA SkipWork ==
    ASSUME KInv, RInv, NEW t \in Threads, NEW row, Skip(t, row)
    PROVE  RInv'
<1>1. /\ Others(t) /\ thread'[t].op = "auto" /\ thread'[t].pc = "rows"
      /\ thread'[t].todo = thread[t].todo \ {row} /\ thread'[t].moved = thread[t].moved
  BY SkipHolds
<1>2. /\ thread[t].pc = "rows" /\ thread[t].op = "auto"
      /\ UNCHANGED <<allowed, snapshot, run, untouched>>
  BY DEF Skip, At, upstream, store, history, notes
<1>3. ASSUME untouched PROVE AtWork(t)'
  <2>1. run.moved = {} /\ Alone(t) /\ AutoKnows(thread[t])
    BY <1>2, <1>3 DEF RInv, AtWork
  <2>2. AutoKnows(thread[t])'
    BY <1>1, <1>2, <2>1 DEF AutoKnows, In
  <2>3. Alone(t)'
    BY <1>1, <2>1 DEF Others, Alone
  <2> QED
    BY <1>1, <1>2, <2>1, <2>2, <2>3 DEF AtWork
<1> QED
  BY <1>1, <1>2, <1>3, QuietWork

LEMMA NextItemWork ==
    ASSUME KInv, RInv, NEW t \in Threads, NEW row, NextItem(t, row)
    PROVE  RInv'
<1>1. /\ Others(t) /\ thread'[t].op = "rollback" /\ thread'[t].pc = "replace"
      /\ thread'[t].user = row.user /\ thread'[t].from = row.from /\ thread'[t].to = row.to
      /\ thread'[t].todo = thread[t].todo \ {row} /\ thread'[t].moved = thread[t].moved
  BY NextItemHolds
<1>2. /\ thread[t].pc = "rows" /\ thread[t].op = "rollback" /\ row \in thread[t].todo
      /\ UNCHANGED <<allowed, snapshot, run, untouched>>
  BY DEF NextItem, At, upstream, store, history, notes
<1>3. ASSUME untouched PROVE AtWork(t)'
  <2>1. run.moved # {} /\ UndoKnows(thread[t])
    BY <1>2, <1>3 DEF RInv, AtWork
  <2>2. UndoKnows(thread[t])'
    BY <1>1, <1>2, <2>1 DEF UndoKnows, Undoing, Undone, Undoes, In
  <2> QED
    BY <1>1, <1>2, <2>1, <2>2 DEF AtWork
<1> QED
  BY <1>1, <1>2, <1>3, QuietWork

LEMMA StoreWork ==
    ASSUME KInv, RInv, NEW t \in Threads, Store(t)
    PROVE  RInv'
<1>1. thread[t].pc = "store" /\ UNCHANGED <<allowed, snapshot, run, untouched>>
  BY DEF Store, upstream, history, notes
<1>2. CASE Ends(t)
  BY <1>1, <1>2, EndsWork
<1>3. CASE Steps(t, "rows")
  BY <1>1, <1>3, StepsWork
<1>4. CASE /\ Others(t) /\ thread'[t].pc = "rows"
           /\ thread'[t].op = thread[t].op /\ thread'[t].todo = thread[t].todo
           /\ thread'[t].moved = thread[t].moved \cup {MovedItem(thread[t])}
  <2> DEFINE item == MovedItem(thread[t])
  <2>1. /\ item.user = thread[t].user /\ item.from = thread[t].from
        /\ item.to = thread[t].to /\ item.was = thread[t].was
    BY DEF MovedItem
  <2> HIDE DEF item
  <2>2. ASSUME untouched, run.moved = {} PROVE AutoKnows(thread[t])'
    <3>1. AutoKnows(thread[t])
      BY <1>1, <2>2 DEF RInv, AtWork
    <3>2. /\ item.was = {item.from} /\ In(item, item.to)
          /\ \A x \in thread[t].todo \cup thread[t].moved : Apart(x, item) /\ Apart(item, x)
      BY <1>1, <2>1, <3>1 DEF AutoKnows, In, Apart
    <3> QED
      BY <1>1, <1>4, <3>1, <3>2 DEF AutoKnows, In, item
  <2>3. ASSUME untouched, run.moved # {} PROVE UndoKnows(thread[t])'
    <3>1. UndoKnows(thread[t])
      BY <1>1, <2>3 DEF RInv, AtWork
    <3>2. Undone(item)
      BY <1>1, <2>1, <3>1 DEF UndoKnows, Undone, Undoes
    <3> QED
      BY <1>1, <1>4, <3>1, <3>2 DEF UndoKnows, Undone, Undoing, In, item
  <2>4. Alone(t) => Alone(t)'
    BY <1>4 DEF Others, Alone
  <2>5. untouched => AtWork(t)'
    BY <1>1, <1>4, <2>2, <2>3, <2>4 DEF RInv, AtWork
  <2> QED
    BY <1>1, <1>4, <2>5, QuietWork
<1> QED
  BY <1>2, <1>3, <1>4, StoreHolds

\* A user is moved from the one group that it has on the platform, or is moved back.
LEMMA ReplaceGroupMoves ==
    ASSUME KInv, NEW u \in Users, NEW old \in Groups, NEW new \in Groups,
           Platform[old] = Platform[new], ReplaceGroup(u, old, new)
    PROVE  /\ \A x \in Row \cup Move : \A g :
                 (x.user # u \/ Platform[x.from] # Platform[old]) /\ In(x, g) => In(x, g)'
           /\ OnPlatform(allowed[u], Platform[old]) \in {{old}, {new}} =>
                 OnPlatform(allowed'[u], Platform[old]) = {new}
<1>1. /\ allowed'[u] = (allowed[u] \ {old}) \cup {new}
      /\ \A v \in Users : v # u => allowed'[v] = allowed[v]
  BY DEF ReplaceGroup, KInv, Data
<1>2. ASSUME NEW p, p # Platform[old] PROVE OnPlatform(allowed'[u], p) = OnPlatform(allowed[u], p)
  BY <1>1, <1>2 DEF OnPlatform
<1>3. ASSUME OnPlatform(allowed[u], Platform[old]) \in {{old}, {new}}
      PROVE  OnPlatform(allowed'[u], Platform[old]) = {new}
  BY <1>1, <1>3 DEF OnPlatform
<1>4. \A x \in Row \cup Move : x.user \in Users
  BY DEF Row, Move, Item
<1> QED
  BY <1>1, <1>2, <1>3, <1>4 DEF In

\* The run moves a user.
LEMMA AutoReplaceWork ==
    ASSUME KInv, RInv, NEW t \in Threads, thread[t].pc = "replace", untouched, run.moved = {},
           UNCHANGED <<allowed, keyGroup, bound>>
           \/ ReplaceGroup(thread[t].user, thread[t].from, thread[t].to),
           UNCHANGED <<run, snapshot, untouched>>,
           Ends(t) \/ Steps(t, "rows") \/ (/\ Steps(t, "store")
              /\ ReplaceGroup(thread[t].user, thread[t].from, thread[t].to)
              /\ thread'[t].was = OnPlatform(allowed[thread[t].user], Platform[thread[t].to]))
    PROVE  RInv'
<1>1. CASE UNCHANGED allowed /\ (Ends(t) \/ Steps(t, "rows"))
  BY <1>1, EndsWork, StepsWork
<1>2. CASE ReplaceGroup(thread[t].user, thread[t].from, thread[t].to)
  <2>0. PICK l : l = thread[t]
    OBVIOUS
  <2>1. l.op = "auto" /\ AutoKnows(l) /\ Alone(t)
    BY <2>0 DEF RInv, AtWork
  <2>2. /\ l.user \in Users /\ Stays(l) /\ l.pc = "replace"
        /\ l.todo \subseteq Row /\ l.moved \subseteq Move
    BY <2>0, Working DEF Well, Local
  <2>3. ReplaceGroup(l.user, l.from, l.to)
    BY <1>2, <2>0
  <2>4. \A x \in l.todo \cup l.moved : Apart(x, l)
    BY <2>1, <2>2 DEF AutoKnows
  <2>5. /\ \A row \in l.todo : In(row, row.from)'
        /\ \A m \in l.moved : In(m, m.to)'
    BY <2>1, <2>2, <2>3, <2>4, ReplaceGroupMoves DEF AutoKnows, Apart, Stays
  <2>6. OnPlatform(allowed[l.user], Platform[l.from]) = {l.from}
    BY <2>1, <2>2 DEF AutoKnows, In
  <2>7. OnPlatform(allowed'[l.user], Platform[l.from]) = {l.to} /\ Platform[l.from] = Platform[l.to]
    BY <2>2, <2>3, <2>6, ReplaceGroupMoves DEF Stays
  <2>8. thread'[t].pc # "idle" => thread'[t].op = "auto" /\ AutoKnows(thread[t])'
    <3>1. CASE Ends(t)
      BY <3>1, IdleTyped DEF Ends
    <3>2. CASE Steps(t, "rows")
      <4>1. thread'[t].pc = "rows" /\ Same(thread'[t], l)
        BY <2>0, <3>2 DEF Steps
      <4>2. thread'[t].todo = l.todo /\ thread'[t].moved = l.moved /\ thread'[t].op = "auto"
        BY <2>1, <4>1 DEF Same
      <4>3. /\ \A row \in l.todo : In(row, row.from)' /\ row.to = NoGroup
            /\ \A m \in l.moved : /\ m.was = {m.from} /\ In(m, m.to)'
                                  /\ \A row \in l.todo : Apart(m, row)
                                  /\ \A n \in l.moved : m = n \/ Apart(m, n)
        BY <2>1, <2>5 DEF AutoKnows
      <4> QED
        BY <4>1, <4>2, <4>3 DEF AutoKnows, In, Apart
    <3>3. CASE Steps(t, "store") /\ thread'[t].was = OnPlatform(allowed[l.user], Platform[l.to])
      <4>1. thread'[t].pc = "store" /\ Same(thread'[t], l) /\ thread'[t].was = {l.from}
        BY <2>0, <2>6, <2>7, <3>3 DEF Steps
      <4>2. In(thread[t], thread[t].to)'
        BY <2>7, <4>1 DEF Same, In
      <4> QED
        BY <2>1, <2>4, <2>5, <4>1, <4>2 DEF AutoKnows, Same, In, Apart
    <3> QED
      BY <2>0, <3>1, <3>2, <3>3
  <2>9. Others(t)
    BY DEF Ends, Steps
  <2>10. RunData'
    BY DEF RInv, RunData
  <2>11. ASSUME NEW s \in Threads PROVE AtWork(s)'
    BY <2>1, <2>8, <2>9 DEF AtWork, Others, Alone
  <2> QED
    BY <2>10, <2>11 DEF RInv
<1> QED
  BY <1>1, <1>2

\* A rollback moves a user back; what other rollbacks have undone stays.
LEMMA UndoReplaceWork ==
    ASSUME KInv, RInv, NEW t \in Threads, thread[t].pc = "replace", untouched, run.moved # {},
           UNCHANGED <<allowed, keyGroup, bound>>
           \/ ReplaceGroup(thread[t].user, thread[t].from, thread[t].to),
           UNCHANGED <<run, snapshot, untouched>>,
           Ends(t) \/ Steps(t, "rows") \/ (/\ Steps(t, "store")
              /\ ReplaceGroup(thread[t].user, thread[t].from, thread[t].to))
    PROVE  RInv'
<1>1. CASE UNCHANGED allowed /\ (Ends(t) \/ Steps(t, "rows"))
  BY <1>1, EndsWork, StepsWork
<1>2. CASE ReplaceGroup(thread[t].user, thread[t].from, thread[t].to)
  <2>0. PICK l : l = thread[t]
    OBVIOUS
  <2>1. l.pc = "replace" /\ l.op = "rollback" /\ UndoKnows(l) /\ RunData
    BY <2>0 DEF RInv, AtWork
  <2>2. PICK m \in run.moved : Undoes(l, m)
    BY <2>1 DEF UndoKnows, Undoing
  <2>3. /\ run.moved \subseteq Move /\ \A n \in run.moved : Stays(n)
        /\ l.user \in Users /\ Stays(l) /\ ReplaceGroup(l.user, l.from, l.to)
    BY <1>2, <2>0, Working DEF KInv, Data, Move, Well
  <2>4. In(m, m.from)'
    <3>1. In(m, l.from) \/ In(m, l.to)
      BY <2>1, <2>2 DEF RunData, Undoes
    <3>2. m.user = l.user /\ Platform[m.from] = Platform[l.from] /\ m.from = l.to
      BY <2>2, <2>3 DEF Undoes, Stays
    <3>3. OnPlatform(allowed[l.user], Platform[l.from]) \in {{l.from}, {l.to}}
      BY <3>1, <3>2 DEF In
    <3>4. OnPlatform(allowed'[l.user], Platform[l.from]) = {l.to}
      <4>1. l.from \in Groups /\ l.to \in Groups /\ Platform[l.from] = Platform[l.to]
        BY <2>3 DEF Stays
      <4> QED
        BY <2>3, <3>3, <4>1, ReplaceGroupMoves
    <3> QED
      BY <3>2, <3>4 DEF In
  <2>5. ASSUME NEW n \in run.moved, NEW g, n # m, In(n, g) PROVE In(n, g)'
    <3>1. Apart(n, m)
      BY <2>1, <2>5 DEF RunData
    <3>2. n.user # l.user \/ Platform[n.from] # Platform[l.from]
      BY <2>2, <2>3, <3>1 DEF Apart, Undoes, Stays
    <3> QED
      BY <2>3, <2>5, <3>2, ReplaceGroupMoves DEF Stays
  <2>6. ASSUME NEW n \in run.moved, In(n, n.from) PROVE In(n, n.from)'
    BY <2>4, <2>5, <2>6
  <2>7. RunData'
    <3>1. \A n \in run.moved : In(n, n.from)' \/ In(n, n.to)'
      BY <2>1, <2>4, <2>5 DEF RunData
    <3>2. \A n \in run.undone : n \in run.moved /\ In(n, n.from)'
      BY <2>1, <2>6 DEF RunData
    <3> QED
      BY <2>1, <3>1, <3>2 DEF RunData, In, Apart
  <2>8. ASSUME NEW x PROVE (Undoing(x) => Undoing(x)') /\ (Undone(x) => Undone(x)')
    <3>1. Undoing(x) => Undoing(x)'
      BY DEF Undoing
    <3>2. ASSUME Undone(x) PROVE Undone(x)'
      <4>1. PICK n \in run.moved : Undoes(x, n) /\ In(n, n.from)
        BY <3>2 DEF Undone
      <4>2. In(n, n.from)' /\ run' = run
        BY <2>6, <4>1
      <4> QED
        BY <4>1, <4>2 DEF Undone, In
    <3> QED
      BY <3>1, <3>2
  <2>9. ASSUME NEW s \in Threads PROVE AtWork(s)'
    <3>1. CASE s # t
      <4>1. AtWork(s) /\ thread'[s] = thread[s] /\ run' = run
        BY <3>1 DEF RInv, Ends, Steps, Others
      <4>2. UndoKnows(thread[s]) => UndoKnows(thread[s])'
        BY <2>8, <4>1 DEF UndoKnows
      <4> QED
        BY <4>1, <4>2 DEF AtWork
    <3>2. CASE s = t /\ Ends(t)
      BY <3>2, IdleTyped DEF AtWork, Ends
    <3>3. CASE s = t /\ \E pc \in {"rows", "store"} : Steps(t, pc)
      <4>1. /\ thread'[t].pc \in {"rows", "store"} /\ Same(thread'[t], l)
        BY <2>0, <3>3 DEF Steps
      <4>2. Undoes(thread'[t], m) /\ m \in run'.moved
        BY <2>2, <4>1 DEF Undoes, Same
      <4>3. Undone(thread[t])'
        BY <2>4, <4>2 DEF Undone, Undoes
      <4>4. UndoKnows(thread[t])'
        BY <2>1, <2>8, <4>1, <4>3 DEF UndoKnows, Same
      <4> QED
        BY <2>1, <3>3, <4>1, <4>4 DEF AtWork, Same
    <3> QED
      BY <3>1, <3>2, <3>3
  <2> QED
    BY <2>7, <2>9 DEF RInv
<1> QED
  BY <1>1, <1>2

LEMMA ReplaceWork ==
    ASSUME KInv, RInv, NEW t \in Threads, Replace(t) \/ ReplaceFails(t)
    PROVE  RInv'
<1>1. /\ thread[t].pc = "replace" /\ UNCHANGED <<run, snapshot, untouched>>
      /\ \/ UNCHANGED <<allowed, keyGroup, bound>>
         \/ ReplaceGroup(thread[t].user, thread[t].from, thread[t].to)
  BY DEF Replace, ReplaceFails, upstream, store, history, notes
<1>2. SUFFICES ASSUME untouched PROVE RInv'
  BY <1>1 DEF RInv
<1>3. thread[t].op \in {"auto", "rollback"}
  BY <1>1, <1>2, OnlyRuns
<1>4. \/ Ends(t) \/ Steps(t, "rows")
      \/ /\ Steps(t, "store") /\ ReplaceGroup(thread[t].user, thread[t].from, thread[t].to)
         /\ thread'[t].was = OnPlatform(allowed[thread[t].user], Platform[thread[t].to])
  BY <1>3, ReplaceHolds, ReplaceFailsHolds DEF Replace, Retreats, Granting
<1> QED
  BY <1>1, <1>2, <1>4, AutoReplaceWork, UndoReplaceWork

\* The run is recorded, with every user in the group that it was moved to.
LEMMA FinishAutoWork ==
    ASSUME KInv, RInv, NEW t \in Threads, FinishAuto(t)
    PROVE  RInv'
<1>1. /\ thread[t].pc = "rows" /\ thread[t].op = "auto"
      /\ UNCHANGED <<allowed, snapshot, untouched>>
  BY DEF FinishAuto, At, upstream, history, notes
<1>2. CASE Ends(t) /\ run' = run
  BY <1>1, <1>2, EndsWork
<1>3. CASE /\ thread'[t] = Idle /\ run'.moved = thread[t].moved /\ run'.undone = {}
           /\ \A s \in Threads \ {t} : Alike(thread'[s], thread[s])
  <2> SUFFICES ASSUME untouched PROVE RunData' /\ \A s \in Threads : AtWork(s)'
    BY <1>1 DEF RInv
  <2>1. AutoKnows(thread[t]) /\ Alone(t)
    BY <1>1 DEF RInv, AtWork
  <2>2. RunData'
    BY <1>1, <1>3, <2>1 DEF RunData, AutoKnows, In, Apart
  <2>3. ASSUME NEW s \in Threads PROVE AtWork(s)'
    BY <1>3, <2>1, IdleTyped DEF AtWork, Alone, Alike
  <2> QED
    BY <2>2, <2>3
<1> QED
  BY <1>2, <1>3, FinishAutoHolds

\* What a rollback records as undone it has undone.
LEMMA FinishRollbackWork ==
    ASSUME KInv, RInv, NEW t \in Threads, FinishRollback(t)
    PROVE  RInv'
<1>1. /\ thread[t].pc = "rows" /\ thread[t].op = "rollback" /\ Ends(t)
      /\ UNCHANGED <<allowed, snapshot, untouched>>
  BY FinishRollbackHolds DEF FinishRollback, At, upstream, history, notes
<1> SUFFICES ASSUME untouched PROVE RInv'
  BY <1>1 DEF RInv
<1>2. UndoKnows(thread[t]) /\ RunData
  BY <1>1 DEF RInv, AtWork
<1> DEFINE undone == {m \in run.moved : \E n \in thread[t].moved : /\ n.user = m.user
                                                                   /\ n.from = m.to /\ n.to = m.from}
           status == IF thread[t].moved = {} THEN "failed" ELSE "completed"
<1>3. run' = run \/ run' = [run EXCEPT !.undone = undone, !.status = status]
  BY DEF FinishRollback
<1>4. \A m \in undone : m \in run.moved /\ In(m, m.from)
  <2> SUFFICES ASSUME NEW m \in run.moved, NEW n \in thread[t].moved, Undoes(n, m)
               PROVE  In(m, m.from)
    BY DEF Undoes
  <2>1. PICK o \in run.moved : Undoes(n, o) /\ In(o, o.from)
    BY <1>2 DEF UndoKnows, Undone
  <2> QED
    BY <2>1 DEF Undoes, In
<1> HIDE DEF undone, status
<1>5. run'.moved = run.moved /\ (run'.undone = run.undone \/ run'.undone = undone)
  BY <1>3 DEF KInv, Data
<1>6. RunData'
  BY <1>1, <1>2, <1>4, <1>5 DEF RunData, In, Apart
<1>7. ASSUME NEW s \in Threads PROVE AtWork(s)'
  <2>1. CASE s = t
    BY <1>1, <2>1, IdleTyped DEF AtWork, Ends
  <2>2. CASE s # t
    <3>1. AtWork(s) /\ thread'[s] = thread[s]
      BY <1>1, <2>2 DEF RInv, Ends, Others
    <3>2. run.moved # {}
      BY <1>1 DEF RInv, AtWork
    <3>3. UndoKnows(thread[s]) => UndoKnows(thread[s])'
      BY <1>1, <1>5, <3>1 DEF UndoKnows, Undoing, Undone, In
    <3> QED
      BY <1>5, <3>1, <3>2, <3>3 DEF AtWork
  <2> QED
    BY <2>1, <2>2
<1> QED
  BY <1>6, <1>7 DEF RInv

\* Operators who move users touch them; a rollback starts with the moves of the run.
LEMMA StartsWork ==
    ASSUME KInv, RInv, NEW t \in Threads, Starts(t) \/ \E scope : StartAuto(t, scope)
    PROVE  RInv'
<1>1. CASE StartRollback(t)
  <2>1. /\ Begins(t, "rollback") /\ UNCHANGED <<allowed, snapshot, run, untouched>>
        /\ run.moved # {}
        /\ thread'[t].todo = {[user |-> m.user, from |-> m.to, to |-> m.from] : m \in run.moved}
    BY <1>1, StartRollbackHolds DEF StartRollback, upstream, store
  <2>2. AtWork(t)'
    BY <2>1 DEF AtWork, UndoKnows, Undoing, Undoes, Begins
  <2> QED
    BY <2>1, <2>2, QuietWork DEF Begins
<1>2. ASSUME NEW scope, StartAuto(t, scope) PROVE RInv'
  <2>1. /\ Begins(t, "auto") /\ UNCHANGED <<allowed, snapshot, run>>
        /\ untouched' => run = NoRun /\ \A s \in Threads : thread[s].pc = "idle"
    BY <1>2, StartAutoHolds DEF StartAuto, upstream, store, Free
  <2> SUFFICES ASSUME untouched' PROVE RunData' /\ \A s \in Threads : AtWork(s)'
    BY DEF RInv
  <2>2. run'.moved = {} /\ run'.undone = {}
    BY <2>1 DEF NoRun
  <2>3. RunData'
    BY <2>2 DEF RunData
  <2>4. ASSUME NEW s \in Threads PROVE AtWork(s)'
    BY <2>1, <2>2 DEF AtWork, AutoKnows, Begins, Others, Alone
  <2> QED
    BY <2>3, <2>4
<1> QED
  BY <1>1, <1>2 DEF Starts, StartManual, StartAssign, StartMigrate, StartKey, Touch, RInv

LEMMA AnsweredWorks ==
    ASSUME KInv, BoundTyped, RInv, NEW t \in Threads, Answered(t)
    PROVE  RInv'
<1>1. CASE Refresh(t) \/ Sync(t) \/ Replace(t) \/ Store(t)
  BY <1>1, RefreshWork, SyncWork, ReplaceWork, StoreWork
<1>2. CASE CheckManual(t) \/ CheckAssign(t) \/ ListCandidates(t) \/ CheckKey(t) \/ RouteKey(t)
  <2>1. /\ thread[t].pc # "idle" /\ thread[t].op \notin {"auto", "rollback"}
        /\ UNCHANGED untouched
    BY <1>2, Working
       DEF CheckManual, CheckAssign, ListCandidates, CheckKey, RouteKey, At, history, notes, Well
  <2> QED
    BY <2>1, OnlyRuns DEF RInv
<1>3. CASE CheckRollback(t)
  BY <1>3, CheckRollbackHolds, StepsWork DEF CheckRollback, At, upstream, store, history, notes
<1>4. CASE \/ ReadGrants(t) \/ Grant(t) \/ ListKeys(t) \/ Bind(t) \/ KeysMoved(t)
           \/ \E a \in Accounts : ReadAccount(t, a)
           \/ \E item \in thread[t].keys : MoveKey(t, item)
  <2>1. thread[t].pc # "idle" /\ thread[t].op \in Granting /\ UNCHANGED untouched
    BY <1>4, Working
       DEF ReadGrants, Grant, ListKeys, Bind, KeysMoved, ReadAccount, MoveKey, Follows, history, notes
  <2> QED
    BY <2>1, OnlyRuns DEF RInv, Granting
<1>5. ASSUME NEW row \in thread[t].todo,
             \/ \E g \in Groups : Pick(t, row, g)
             \/ Skip(t, row) \/ NextCandidate(t, row) \/ NextItem(t, row)
      PROVE  RInv'
  <2>1. CASE NextCandidate(t, row)
    BY <2>1, OnlyRuns DEF NextCandidate, At, history, notes, RInv
  <2> QED
    BY <1>5, <2>1, PickWork, SkipWork, NextItemWork
<1>6. CASE FinishAuto(t) \/ FinishMigrate(t) \/ FinishRollback(t)
  <2>1. CASE FinishMigrate(t)
    BY <2>1, OnlyRuns DEF FinishMigrate, At, history, notes, RInv
  <2> QED
    BY <1>6, <2>1, FinishAutoWork, FinishRollbackWork
<1> QED
  BY <1>1, <1>2, <1>3, <1>4, <1>5, <1>6 DEF Answered

LEMMA FailedWorks ==
    ASSUME KInv, RInv, NEW t \in Threads, Failed(t)
    PROVE  RInv'
<1>1. CASE Abandon(t) \/ GrantFails(t) \/ MoveKeyFails(t)
  <2>1. /\ thread[t].pc # "idle" /\ UNCHANGED <<allowed, snapshot, run, untouched>>
        /\ Ends(t) \/ Steps(t, "rows")
    BY <1>1, AbandonHolds, GrantFailsHolds, MoveKeyFailsHolds
       DEF Abandon, GrantFails, MoveKeyFails, Retreats, upstream, store, history, notes
  <2> QED
    BY <2>1, EndsWork, StepsWork
<1> QED
  BY <1>1, ReplaceWork DEF Failed

LEMMA NextWorks ==
    ASSUME KInv, BoundTyped, RInv, [Next]_vars
    PROVE  RInv'
<1>1. CASE \E t \in Threads, p \in Platforms : StartAuto(t, Platforms) \/ StartAuto(t, {p})
  BY <1>1, StartsWork
<1>2. CASE \E t \in Threads : Starts(t) \/ Answered(t) \/ Failed(t)
  BY <1>2, StartsWork, AnsweredWorks, FailedWorks
<1>3. CASE UNCHANGED <<allowed, snapshot, run, untouched>> /\ (thread' = thread \/ Crash)
  <2>1. ASSUME untouched, NEW t \in Threads PROVE AtWork(t)'
    <3>1. CASE thread' = thread
      <4>1. AtWork(t)
        BY <2>1 DEF RInv
      <4>2. AutoKnows(thread[t]) => AutoKnows(thread[t])'
        BY <1>3, <3>1 DEF AutoKnows, In
      <4>3. UndoKnows(thread[t]) => UndoKnows(thread[t])'
        BY <1>3, <3>1 DEF UndoKnows, Undoing, Undone, In
      <4> QED
        BY <1>3, <3>1, <4>1, <4>2, <4>3 DEF AtWork, Alone
    <3>2. CASE Crash
      BY <3>2, IdleTyped DEF Crash, AtWork
    <3> QED
      BY <1>3, <3>1, <3>2
  <2>2. RunData => RunData'
    BY <1>3 DEF RunData, In, Apart
  <2> QED
    BY <1>3, <2>1, <2>2 DEF RInv
<1>4. CASE Crash
  BY <1>3, <1>4 DEF Crash, upstream, store, history, notes
<1>5. CASE \/ \E kind \in PoolKinds, g \in Groups : AddToPool(kind, g) \/ RemoveFromPool(kind, g)
           \/ SetEnabled \/ (\E u \in Users : FlowEnds(u)) \/ UNCHANGED vars
  BY <1>3, <1>5 DEF AddToPool, RemoveFromPool, SetEnabled, FlowEnds, vars, upstream, store, history, notes
<1> QED
  BY <1>1, <1>2, <1>4, <1>5 DEF Next

(***************************************************************************)
(* A user that a rollback has brought back has, on that platform, the very *)
(* groups it had when the run moved it, if nobody else touched it between: *)
(* for every number of users and groups, whatever was refused, lost or cut *)
(* off by a crash in the run or in any of its rollbacks (rotation.py, its  *)
(* run's record and its rollback).                                         *)
(***************************************************************************)
THEOREM RollbacksRestore == Spec => []RollbackRestores
<1>1. Init => KInv /\ BoundTyped /\ RInv
  BY InitHolds DEF Init, RInv
<1>2. KInv /\ BoundTyped /\ RInv /\ [Next]_vars => (KInv /\ BoundTyped /\ RInv)'
  BY NextHolds, BoundStaysTyped, NextWorks
<1>3. RInv => RollbackRestores
  BY DEF RInv, RunData, In, RollbackRestores
<1> QED
  BY <1>1, <1>2, <1>3, PTL DEF Spec
=============================================================================
