---------------------------- MODULE KeyDelivery ----------------------------
(***************************************************************************)
(* API keys that carry the address of their owner in their name.           *)
(* ApiKeyAutomationService (src/app/services/api_key_automation.py) creates*)
(* one for the user of that address, or for the administrator when there is*)
(* no such user; transfer_admin_api_keys (src/app/services/rotation.py)    *)
(* hands keys to the users they are named after.  Both read users, groups  *)
(* and keys first and act on what they have read.                          *)
(***************************************************************************)
EXTENDS Integers, Sequences, FiniteSets

CONSTANTS
    Users, Admin,    \* everybody who may ever exist upstream
    Address,         \* the address of each user
    Similar,         \* Similar[e]: what a search for e also finds, besides e
    Groups,
    Platform,        \* the platform of each group
    FirstUsers,      \* the users that exist at the start
    FirstGrants,     \* the groups that users may have at the start
    FirstKeys,       \* the keys that there may be at the start
    Threads,
    Failures,        \* of {"refused", "lost", "crash"}
    MaxRequests,     \* bound on the requests and crashes
    MaxEdits         \* bound on what operators change upstream

Nobody == "nobody"
NoGroup == "no group"
AllPlatforms == {Platform[g] : g \in Groups}
Addresses == {Address[u] : u \in Users}

KeyDeliveryAssumption ==
    /\ Admin \in Users /\ FirstUsers \subseteq Users
    /\ FirstGrants \subseteq [Users -> SUBSET Groups]
    /\ \A first \in FirstKeys :
          first \in Seq([named : Addresses, owner : Users, group : Groups \cup {NoGroup},
                        resets : {0}])
    /\ MaxRequests \in Nat /\ MaxEdits \in Nat

VARIABLES
    \* Upstream.
    users,       \* the users that exist
    grants,      \* the groups each user may use
    keys,        \* named, owner, group of each key, and how often its quota was reset
    \* The threads.
    thread,
    requests, edits,
    \* History.
    overlapped,  \* two operations have been in progress at once
    stale        \* users or grants have changed since an operation read them

vars == <<users, grants, keys, thread, requests, edits, overlapped, stale>>

Idle == [pc |-> "idle", named |-> "none", target |-> "none", platform |-> "none",
         owner |-> Nobody, group |-> NoGroup, sources |-> {}, seen |-> {}, todo |-> {}]

TypeOK ==
    /\ users \subseteq Users
    /\ grants \in [Users -> SUBSET Groups]
    /\ \A k \in DOMAIN keys :
          /\ keys[k].named \in Addresses /\ keys[k].owner \in Users
          /\ keys[k].group \in Groups \cup {NoGroup} /\ keys[k].resets \in 0..MaxRequests
    /\ DOMAIN thread = Threads
    /\ requests \in 0..MaxRequests /\ edits \in 0..MaxEdits

Init ==
    /\ users = FirstUsers
    /\ grants \in FirstGrants
    /\ keys \in FirstKeys
    /\ thread = [t \in Threads |-> Idle]
    /\ requests = 0 /\ edits = 0
    /\ overlapped = FALSE /\ stale = FALSE

-----------------------------------------------------------------------------

At(t, pc) == thread[t].pc = pc
Become(t, local) == thread' = [thread EXCEPT ![t] = local]

Begin(t, local) ==
    /\ At(t, "idle")
    /\ requests < MaxRequests /\ requests' = requests + 1
    /\ Become(t, local)
    /\ LET busy == \E s \in Threads : ~At(s, "idle")
       IN  /\ overlapped' = (overlapped \/ busy)
           /\ stale' = (stale /\ busy)

\* Mutation of UsersOf: whatever the search finds.
UsersFound(address) == {u \in users : Address[u] \in {address} \cup Similar[address]}

\* The search finds similar addresses too; only an exact one counts.
UsersOf(address) == {u \in users : Address[u] = address}

\* Groups of a user on a platform; the dedicated one would come first, any will do here.
GroupsOf(u, platform) == {g \in grants[u] : Platform[g] = platform}

-----------------------------------------------------------------------------
(* Creating a key.                                                         *)

StartCreate(t, named, target, platform) ==
    /\ Begin(t, [Idle EXCEPT !.pc = "target", !.named = named, !.target = target,
                             !.platform = platform])
    /\ UNCHANGED <<users, grants, keys, edits>>

\* A target that the caller names must exist and be unique; the address in the name need
\* not: then the key is the administrator's.
ResolveTarget(t) ==
    /\ At(t, "target")
    /\ LET l == thread[t]
           found == UsersOf(IF l.target = "none" THEN l.named ELSE l.target)
           owners == IF Cardinality(found) = 1 THEN found
                     ELSE IF l.target = "none" THEN {Admin} \cap users ELSE {}
       IN  \/ \E u \in owners : \E g \in GroupsOf(u, l.platform) :
                 Become(t, [l EXCEPT !.owner = u, !.group = g, !.pc = "create"])
           \/ /\ \A u \in owners : GroupsOf(u, l.platform) = {}
              /\ Become(t, Idle)
    /\ UNCHANGED <<users, grants, keys, requests, edits, overlapped, stale>>

CreateKey(t) ==
    /\ At(t, "create")
    /\ LET l == thread[t]
       IN  keys' = Append(keys, [named |-> l.named, owner |-> l.owner, group |-> l.group,
                                 resets |-> 0])
    /\ Become(t, Idle)
    /\ UNCHANGED <<users, grants, requests, edits, overlapped, stale>>

-----------------------------------------------------------------------------
(* Transferring keys.                                                      *)

\* The keys of one user, or of all.
StartTransfer(t, sources) ==
    /\ Begin(t, [Idle EXCEPT !.pc = "list", !.sources = sources])
    /\ UNCHANGED <<users, grants, keys, edits>>

ListKeys(t) ==
    /\ At(t, "list")
    /\ LET mine == {k \in DOMAIN keys : keys[k].owner \in thread[t].sources \cap users}
       IN  Become(t, [thread[t] EXCEPT !.pc = "plan",
               !.seen = {[key |-> k, named |-> keys[k].named, owner |-> keys[k].owner,
                          group |-> keys[k].group] : k \in mine}])
    /\ UNCHANGED <<users, grants, keys, requests, edits, overlapped, stale>>

\* Mutation of Movable: a key that its owner has already is moved once more.
MovableAgain(item, u) == TRUE

Movable(item, u) == item.owner # u

\* A key stays on the platform of the group it is in.
Landings(item, u) ==
    IF item.group = NoGroup THEN grants[u] ELSE GroupsOf(u, Platform[item.group])

\* A key is moved when its name has exactly one owner, who has a group for it.
Deliverable(item) ==
    \E u \in users : UsersOf(item.named) = {u} /\ Landings(item, u) # {} /\ Movable(item, u)

Delivery(item) ==
    LET u == CHOOSE v \in UsersOf(item.named) : TRUE
    IN  [key |-> item.key, to |-> u, group |-> CHOOSE g \in Landings(item, u) : TRUE]

Plan(t) ==
    /\ At(t, "plan")
    /\ LET l == thread[t]
       IN  Become(t, [l EXCEPT !.pc = "move", !.seen = {},
                               !.todo = {Delivery(i) : i \in {j \in l.seen : Deliverable(j)}}])
    /\ UNCHANGED <<users, grants, keys, requests, edits, overlapped, stale>>

\* Upstream hands the key over and resets its quota; a refusal, a lost answer or one that
\* does not confirm the new owner leaves the item failed, and the others go on.
MoveKey(t, item) ==
    /\ At(t, "move") /\ item \in thread[t].todo
    /\ Become(t, [thread[t] EXCEPT !.todo = @ \ {item}])
    /\ \/ keys' = [keys EXCEPT ![item.key] = [named |-> keys[item.key].named, owner |-> item.to,
                                              group |-> item.group,
                                              resets |-> keys[item.key].resets + 1]]
       \/ "refused" \in Failures /\ UNCHANGED keys
    /\ UNCHANGED <<users, grants, requests, edits, overlapped, stale>>

EndTransfer(t) ==
    /\ At(t, "move") /\ thread[t].todo = {}
    /\ Become(t, Idle)
    /\ UNCHANGED <<users, grants, keys, requests, edits, overlapped, stale>>

-----------------------------------------------------------------------------

\* Any call raises, or the process dies, after what the thread has done so far.
Stops(t) ==
    /\ Failures # {}
    /\ ~At(t, "idle")
    /\ Become(t, Idle)
    /\ UNCHANGED <<users, grants, keys, requests, edits, overlapped, stale>>

Edit ==
    /\ edits < MaxEdits /\ edits' = edits + 1
    /\ stale' = (stale \/ \E t \in Threads : ~At(t, "idle"))
    /\ UNCHANGED <<keys, thread, requests, overlapped>>

\* A user registers or is deleted upstream; the groups of one are changed, by an operator
\* or by a rotation.
UserComes(u) == u \notin users /\ users' = users \cup {u} /\ Edit /\ UNCHANGED grants
UserGoes(u) ==
    /\ u \in users \ {Admin} /\ \A k \in DOMAIN keys : keys[k].owner # u
    /\ users' = users \ {u} /\ Edit /\ UNCHANGED grants
Regroup(u) ==
    /\ \E g \in Groups :
          \/ grants' = [grants EXCEPT ![u] = @ \cup {g}]
          \/ grants' = [grants EXCEPT ![u] = @ \ {g}]
    /\ Edit /\ UNCHANGED users

Next ==
    \/ \E t \in Threads :
          \/ \E e \in Addresses, p \in AllPlatforms, target \in Addresses \cup {"none"} :
                StartCreate(t, e, target, p)
          \/ ResolveTarget(t) \/ CreateKey(t)
          \/ \E sources \in {Users} \cup {{u} : u \in Users} : StartTransfer(t, sources)
          \/ ListKeys(t) \/ Plan(t) \/ EndTransfer(t) \/ Stops(t)
          \/ \E item \in thread[t].todo : MoveKey(t, item)
    \/ \E u \in Users : UserComes(u) \/ UserGoes(u) \/ Regroup(u)

Spec == Init /\ [][Next]_vars

-----------------------------------------------------------------------------
(* Properties.                                                             *)

(***************************************************************************)
(* A key changes hands only towards the user whose address it carries, even*)
(* when users, groups and keys change between the reading and the call; it *)
(* stays on the platform it served, unless operations overlap; and its new *)
(* owner may use the group it is in, unless users or groups have changed   *)
(* meanwhile.                                                              *)
(***************************************************************************)
KeysReachTheirNames ==
    [][\A k \in DOMAIN keys :
          LET was == keys[k]
              is == keys'[k]
          IN  is # was =>
                 /\ Address[is.owner] = was.named
                 /\ was.group # NoGroup /\ ~overlapped' => Platform[is.group] = Platform[was.group]
                 /\ ~stale' => is.group \in grants[is.owner]
      ]_vars

(***************************************************************************)
(* A transfer that is repeated after a lost answer or a crash resets the   *)
(* quota of no key again, as long as transfers do not overlap.             *)
(***************************************************************************)
QuotaResetOnce == ~overlapped => \A k \in DOMAIN keys : keys[k].resets <= 1
=============================================================================
