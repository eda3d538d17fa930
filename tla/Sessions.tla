------------------------------ MODULE Sessions ------------------------------
(***************************************************************************)
(* EphemeralAdminAuthManager (src/app/auth.py): the keys that              *)
(* administrators present.  A login gives a key that expires and is only   *)
(* remembered in memory.  An API token never expires, is stored, and takes *)
(* the place of the administrator's earlier ones.                          *)
(*                                                                         *)
(* Requests are served by threads that share the memory and the store      *)
(* without a lock.  A key is its position in the sequence of issued keys.  *)
(***************************************************************************)
EXTENDS Integers, Sequences, FiniteSets

CONSTANTS
    Names,        \* administrators
    Threads,
    Failures,     \* of {"refused", "lost", "crash"}: database calls raise, the process dies
    MaxRequests   \* bound on the requests and crashes

SessionsAssumption == MaxRequests \in Nat

VARIABLES
    issued,       \* name and purpose of each key
    memory,       \* EphemeralAdminAuthManager._sessions: the keys in it
    stored,       \* auth_sessions: of the stored keys, those that are not revoked
    expired,      \* the keys whose time is over
    thread,
    requests,
    \* History.
    given,        \* keys that a caller has received
    doomed,       \* keys whose revocation has begun, or that a restart has forgotten
    revoked,      \* keys whose revocation has been carried out
    overlapped    \* two requests have been in progress at once

vars == <<issued, memory, stored, expired, thread, requests, given, doomed, revoked, overlapped>>

NoKey == 0
Keys == DOMAIN issued
Idle == [pc |-> "idle", key |-> NoKey, name |-> "nobody", revoked |-> FALSE]

TypeOK ==
    /\ \A k \in Keys : issued[k].name \in Names /\ issued[k].purpose \in {"external", "api_token"}
    /\ memory \subseteq Keys /\ stored \subseteq Keys /\ expired \subseteq Keys
    /\ \A k \in stored : issued[k].purpose = "api_token"
    /\ given \subseteq Keys /\ revoked \subseteq Keys
    /\ DOMAIN thread = Threads
    /\ requests \in 0..MaxRequests

Init ==
    /\ issued = <<>>
    /\ memory = {} /\ stored = {} /\ expired = {}
    /\ thread = [t \in Threads |-> Idle]
    /\ requests = 0
    /\ given = {} /\ doomed = {} /\ revoked = {}
    /\ overlapped = FALSE

-----------------------------------------------------------------------------

At(t, pc) == thread[t].pc = pc
Become(t, local) == thread' = [thread EXCEPT ![t] = local]
Goto(t, pc) == Become(t, [thread[t] EXCEPT !.pc = pc])

Begin(t, local) ==
    /\ At(t, "idle")
    /\ requests < MaxRequests /\ requests' = requests + 1
    /\ Become(t, local)
    /\ overlapped' = (overlapped \/ \E s \in Threads : ~At(s, "idle"))

Tokens(name) == {k \in Keys : issued[k].name = name /\ issued[k].purpose = "api_token"}
Purged == memory \ expired

Issue(name, purpose) == issued' = Append(issued, [name |-> name, purpose |-> purpose])

-----------------------------------------------------------------------------

\* The password is right, or upstream vouches for the caller.
Login(t, name) ==
    /\ Begin(t, Idle)
    /\ Issue(name, "external")
    /\ memory' = Purged \cup {Len(issued) + 1}
    /\ given' = given \cup {Len(issued) + 1}
    /\ UNCHANGED <<stored, expired, doomed, revoked>>

StartToken(t, name) ==
    /\ Begin(t, [Idle EXCEPT !.pc = "revoke stored", !.name = name])
    /\ UNCHANGED <<issued, memory, stored, expired, given, doomed, revoked>>

\* Mutation of Replaced: the tokens this process has issued or seen.
ReplacedKnown(name) == Tokens(name) \cap memory

\* One transaction revokes what is stored.
Replaced(name) == Tokens(name) \cap stored

RevokeStored(t) ==
    /\ At(t, "revoke stored")
    /\ LET old == Replaced(thread[t].name)
       IN  /\ stored' = stored \ old
           /\ doomed' = doomed \cup old /\ revoked' = revoked \cup old
    /\ Goto(t, "forget")
    /\ UNCHANGED <<issued, memory, expired, requests, given, overlapped>>

ForgetTokens(t) ==
    /\ At(t, "forget")
    /\ memory' = memory \ Tokens(thread[t].name)
    /\ doomed' = doomed \cup (memory \cap Tokens(thread[t].name))
    /\ Goto(t, "issue")
    /\ UNCHANGED <<issued, stored, expired, requests, given, revoked, overlapped>>

\* The token is in memory before it is stored.
IssueToken(t) ==
    /\ At(t, "issue")
    /\ Issue(thread[t].name, "api_token")
    /\ memory' = Purged \cup {Len(issued) + 1}
    /\ Become(t, [thread[t] EXCEPT !.pc = "save", !.key = Len(issued) + 1])
    /\ UNCHANGED <<stored, expired, requests, given, doomed, revoked, overlapped>>

SaveToken(t) ==
    /\ At(t, "save")
    /\ stored' = stored \cup {thread[t].key}
    /\ \/ given' = given \cup {thread[t].key}
       \/ "lost" \in Failures /\ UNCHANGED given
    /\ Become(t, Idle)
    /\ UNCHANGED <<issued, memory, expired, requests, doomed, revoked, overlapped>>

-----------------------------------------------------------------------------
(* A key is presented: get_session.                                        *)

\* Mutation of Trusted: a token in memory is good enough.
TrustedFromMemory(k) == k \in Purged

\* What is answered from memory alone; for a token the store has the last word.
Trusted(k) == k \in Purged /\ issued[k].purpose = "external"

Present(t, k) ==
    /\ Begin(t, [Idle EXCEPT !.key = k, !.revoked = k \in revoked,
                             !.pc = IF Trusted(k) THEN "accepted" ELSE "load"])
    /\ memory' = Purged
    /\ UNCHANGED <<issued, stored, expired, given, doomed, revoked>>

\* A key found in the store is remembered, one not found there forgotten.
Load(t) ==
    /\ At(t, "load")
    /\ LET k == thread[t].key
       IN  IF k \in stored
           THEN Goto(t, "remember") /\ UNCHANGED memory
           ELSE Goto(t, "rejected") /\ memory' = memory \ {k}
    /\ UNCHANGED <<issued, stored, expired, requests, given, doomed, revoked, overlapped>>

Remember(t) ==
    /\ At(t, "remember")
    /\ memory' = memory \cup {thread[t].key}
    /\ Goto(t, "accepted")
    /\ UNCHANGED <<issued, stored, expired, requests, given, doomed, revoked, overlapped>>

Answer(t) ==
    /\ thread[t].pc \in {"accepted", "rejected"}
    /\ Become(t, Idle)
    /\ UNCHANGED <<issued, memory, stored, expired, requests, given, doomed, revoked, overlapped>>

-----------------------------------------------------------------------------
(* Logging out.                                                            *)

Logout(t, k) ==
    /\ Begin(t, [Idle EXCEPT !.pc = "revoke", !.key = k])
    /\ memory' = memory \ {k}
    /\ doomed' = doomed \cup {k}
    /\ UNCHANGED <<issued, stored, expired, given, revoked>>

Revoke(t) ==
    /\ At(t, "revoke")
    /\ stored' = stored \ {thread[t].key}
    /\ revoked' = revoked \cup {thread[t].key}
    /\ Become(t, Idle)
    /\ UNCHANGED <<issued, memory, expired, requests, given, doomed, overlapped>>

-----------------------------------------------------------------------------

\* A database call raises; so does iterating over the memory while another thread changes it.
CallFails(t) ==
    /\ "refused" \in Failures
    /\ thread[t].pc \in {"revoke stored", "forget", "issue", "save", "load", "revoke"}
    /\ Become(t, Idle)
    /\ UNCHANGED <<issued, memory, stored, expired, requests, given, doomed, revoked, overlapped>>

Expire(k) ==
    /\ issued[k].purpose = "external" /\ k \notin expired
    /\ expired' = expired \cup {k}
    /\ UNCHANGED <<issued, memory, stored, thread, requests, given, doomed, revoked, overlapped>>

\* A restart forgets the sessions of those who logged in.
Crash ==
    /\ "crash" \in Failures
    /\ requests < MaxRequests /\ requests' = requests + 1
    /\ memory' = {}
    /\ thread' = [t \in Threads |-> Idle]
    /\ doomed' = doomed \cup {k \in Keys : issued[k].purpose = "external"}
    /\ UNCHANGED <<issued, stored, expired, given, revoked, overlapped>>

Next ==
    \/ \E t \in Threads :
          \/ \E name \in Names : Login(t, name) \/ StartToken(t, name)
          \/ RevokeStored(t) \/ ForgetTokens(t) \/ IssueToken(t) \/ SaveToken(t)
          \/ \E k \in given : Present(t, k) \/ Logout(t, k)
          \/ Load(t) \/ Remember(t) \/ Answer(t) \/ Revoke(t) \/ CallFails(t)
    \/ \E k \in Keys : Expire(k)
    \/ Crash

Spec == Init /\ [][Next]_vars

-----------------------------------------------------------------------------
(* Properties.                                                             *)

(***************************************************************************)
(* A key whose revocation is over when it is presented is not accepted,    *)
(* even when a request that was reading it meanwhile has put it back into  *)
(* memory; and a key that a caller has received is not rejected unless its *)
(* revocation has begun or its time is over, restarts included for tokens. *)
(***************************************************************************)
KeysAreJudgedRight ==
    \A t \in Threads :
        /\ At(t, "accepted") => ~thread[t].revoked
        /\ At(t, "rejected") /\ thread[t].key \in given => thread[t].key \in doomed \cup expired

(***************************************************************************)
(* An administrator has one API token at a time, as long as requests do not*)
(* overlap: the earlier ones are revoked although a restart has forgotten  *)
(* them and calls fail on the way.                                         *)
(***************************************************************************)
OneTokenEach == ~overlapped => \A name \in Names : Cardinality(Tokens(name) \cap stored) <= 1
=============================================================================
