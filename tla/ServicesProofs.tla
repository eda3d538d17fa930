--------------------------- MODULE ServicesProofs ---------------------------
(***************************************************************************)
(* Proofs about Services: component by component (Sessions,                *)
(* OperationalData, KeyDelivery, Provisioning, Notification, DataRetention,*)
(* Schedulers), then of the composition.                                   *)
(***************************************************************************)
EXTENDS Services, FiniteSetTheorems, SequenceTheorems, WellFoundedInduction, TLAPS

-----------------------------------------------------------------------------
(* Sessions: keys are judged right, and an administrator has one API token,*)
(* for every number of administrators, threads and requests.               *)

Session == [name : Names, purpose : {"external", "api_token"}]
AuthPcs == {"idle", "revoke stored", "forget", "issue", "save", "load", "remember", "accepted",
        "rejected", "revoke"}
Request == [pc : AuthPcs, key : Nat, name : Names \cup {"nobody"}, revoked : BOOLEAN]

Token(k) == issued[k].purpose = "api_token"

-----------------------------------------------------------------------------
(* The invariants.                                                         *)

RequestsTyped ==
    /\ issued \in Seq(Session)
    /\ memory \subseteq Auth!Keys /\ stored \subseteq Auth!Keys /\ given \subseteq Auth!Keys
    /\ \A k \in stored : Token(k)
    /\ thread \in [Threads -> Request]
    /\ \A t \in Threads :
          /\ thread[t].pc \in {"save", "load", "remember", "accepted", "rejected", "revoke"} =>
                thread[t].key \in Auth!Keys
          /\ thread[t].pc \in {"save", "remember"} => Token(thread[t].key)
          /\ thread[t].pc \in {"revoke stored", "forget", "issue"} => thread[t].name \in Names

\* What is revoked is not stored, nor trusted; a new token is nobody's yet, and one thread's.
RevokedIsGone ==
    /\ revoked \cap stored = {}
    /\ revoked \subseteq doomed /\ revoked \subseteq Auth!Keys
    /\ \A k \in revoked : ~Token(k) => k \notin memory
    /\ \A t \in Threads :
          /\ Auth!At(t, "revoke") =>
                /\ thread[t].key \in doomed \cap given
                /\ ~Token(thread[t].key) => thread[t].key \notin memory
          /\ Auth!At(t, "save") => thread[t].key \notin stored \cup given \cup revoked
          /\ \A r \in Threads \ {t} :
                Auth!At(t, "save") /\ Auth!At(r, "save") => thread[t].key # thread[r].key

\* A key that a caller has is stored or remembered, or its time is over.
GivenIsKept ==
    \A k \in given \ (doomed \cup expired) : IF Token(k) THEN k \in stored ELSE k \in memory

Judged ==
    \A t \in Threads :
        /\ thread[t].revoked => thread[t].pc \in {"load", "rejected"} /\ thread[t].key \in revoked
        /\ thread[t].pc \in {"load", "rejected"} => thread[t].key \in given
        /\ Auth!At(t, "load") /\ ~Token(thread[t].key) => thread[t].key \in doomed \cup expired
        /\ Auth!At(t, "rejected") => thread[t].key \in doomed \cup expired

AuthInv == RequestsTyped /\ RevokedIsGone /\ GivenIsKept /\ Judged

LEMMA IdleRequestTyped == Auth!Idle \in Request /\ Auth!Idle.pc = "idle" /\ ~Auth!Idle.revoked
BY DEF Auth!Idle, Request, AuthPcs, Auth!NoKey

LEMMA KeysTyped == issued \in Seq(Session) => Auth!Keys = 1..Len(issued) /\ Len(issued) \in Nat
BY DEF Auth!Keys

LEMMA IssuedTyped ==
    ASSUME issued \in Seq(Session), NEW k \in Auth!Keys
    PROVE  k \in Nat /\ issued[k] \in Session
BY DEF Auth!Keys

\* A key that is issued is new, and those issued before stay what they are.
LEMMA IssueAdds ==
    ASSUME issued \in Seq(Session), NEW name \in Names,
           NEW purpose \in {"external", "api_token"}, Auth!Issue(name, purpose)
    PROVE  /\ issued' \in Seq(Session)
           /\ Len(issued) + 1 \in Nat /\ Len(issued) + 1 \notin Auth!Keys
           /\ Auth!Keys' = Auth!Keys \cup {Len(issued) + 1}
           /\ \A k \in Auth!Keys : issued'[k] = issued[k]
           /\ issued'[Len(issued) + 1] = [name |-> name, purpose |-> purpose]
<1>1. [name |-> name, purpose |-> purpose] \in Session
  BY DEF Session
<1> QED
  BY <1>1 DEF Auth!Issue, Auth!Keys

LEMMA AuthInit == Auth!Init => AuthInv
<1> SUFFICES ASSUME Auth!Init PROVE AuthInv
  OBVIOUS
<1>1. thread \in [Threads -> Request] /\ \A t \in Threads : thread[t] = Auth!Idle
  BY IdleRequestTyped DEF Auth!Init
<1>2. issued \in Seq(Session)
  BY DEF Auth!Init
<1>3. RequestsTyped
  BY <1>1, <1>2, IdleRequestTyped DEF Auth!Init, RequestsTyped
<1>4. RevokedIsGone
  BY <1>1, IdleRequestTyped DEF Auth!Init, RevokedIsGone, Auth!At
<1>5. GivenIsKept /\ Judged
  BY <1>1, IdleRequestTyped DEF Auth!Init, GivenIsKept, Judged, Auth!At
<1> QED
  BY <1>3, <1>4, <1>5 DEF AuthInv
-----------------------------------------------------------------------------
(* Requests that issue no key.                                             *)

LEMMA Becomes ==
    ASSUME RequestsTyped, NEW t \in Threads, NEW l \in Request, Auth!Become(t, l)
    PROVE  /\ thread' \in [Threads -> Request] /\ thread'[t] = l
           /\ \A r \in Threads \ {t} : thread'[r] = thread[r]
BY DEF Auth!Become, RequestsTyped

LEMMA StartTokenHolds ==
    ASSUME AuthInv, NEW t \in Threads, NEW name \in Names, Auth!StartToken(t, name)
    PROVE  AuthInv'
<1> DEFINE l == [Auth!Idle EXCEPT !.pc = "revoke stored", !.name = name]
<1>1. l \in Request /\ l.pc = "revoke stored" /\ l.name \in Names /\ ~l.revoked
  BY IdleRequestTyped DEF Request, AuthPcs
<1>2. Auth!Become(t, l)
  BY DEF Auth!StartToken, Auth!Begin
<1>3. /\ thread' \in [Threads -> Request] /\ thread'[t] = l
      /\ \A r \in Threads \ {t} : thread'[r] = thread[r]
  BY <1>1, <1>2, Becomes DEF AuthInv
<1>4. UNCHANGED <<issued, memory, stored, expired, given, doomed, revoked>>
  BY DEF Auth!StartToken
<1> HIDE DEF l
<1>5. RequestsTyped'
  BY <1>1, <1>3, <1>4 DEF AuthInv, RequestsTyped, Token, Auth!Keys
<1>6. RevokedIsGone'
  BY <1>1, <1>3, <1>4 DEF AuthInv, RevokedIsGone, Token, Auth!Keys, Auth!At
<1>7. GivenIsKept' /\ Judged'
  BY <1>1, <1>3, <1>4 DEF AuthInv, GivenIsKept, Judged, Token, Auth!At
<1> QED
  BY <1>5, <1>6, <1>7 DEF AuthInv

LEMMA RevokeStoredHolds ==
    ASSUME AuthInv, NEW t \in Threads, Auth!RevokeStored(t)
    PROVE  AuthInv'
<1> DEFINE l == [thread[t] EXCEPT !.pc = "forget"]
           old == Auth!Replaced(thread[t].name)
<1>1. /\ l \in Request /\ l.pc = "forget" /\ l.key = thread[t].key /\ l.revoked = thread[t].revoked
      /\ l.name = thread[t].name
  BY DEF AuthInv, RequestsTyped, Request, AuthPcs
<1>2. Auth!Become(t, l)
  BY DEF Auth!RevokeStored, Auth!Goto
<1>3. /\ thread' \in [Threads -> Request] /\ thread'[t] = l
      /\ \A r \in Threads \ {t} : thread'[r] = thread[r]
  BY <1>1, <1>2, Becomes DEF AuthInv
<1>4. /\ stored' = stored \ old /\ doomed' = doomed \cup old /\ revoked' = revoked \cup old
      /\ UNCHANGED <<issued, memory, expired, given>>
      /\ thread[t].pc = "revoke stored"
  BY DEF Auth!RevokeStored, Auth!At
<1>5. old \subseteq stored
  BY DEF Auth!Replaced
<1> HIDE DEF l, old
<1>6. RequestsTyped'
  BY <1>1, <1>3, <1>4 DEF AuthInv, RequestsTyped, Token, Auth!Keys
<1>7. RevokedIsGone'
  <2>1. /\ revoked' \cap stored' = {} /\ revoked' \subseteq doomed' /\ revoked' \subseteq Auth!Keys'
        /\ \A x \in revoked' : ~Token(x)' => x \notin memory'
    BY <1>1, <1>3, <1>4, <1>5 DEF AuthInv, RequestsTyped, RevokedIsGone, Token, Auth!Keys
  <2>2. ASSUME NEW r \in Threads, thread'[r].pc \in {"revoke", "save"}
        PROVE  r # t /\ thread'[r] = thread[r]
    BY <1>1, <1>3, <2>2
  <2>3. \A x : Token(x)' <=> Token(x)
    BY <1>4 DEF Token
  <2>4. ASSUME NEW r \in Threads, Auth!At(r, "revoke")'
        PROVE  /\ thread'[r].key \in doomed' \cap given'
               /\ ~Token(thread'[r].key) => thread'[r].key \notin memory'
    BY <1>4, <2>2, <2>4 DEF AuthInv, RevokedIsGone, Auth!At
  <2>5. ASSUME NEW r \in Threads, Auth!At(r, "save")'
        PROVE  thread'[r].key \notin stored' \cup given' \cup revoked'
    BY <1>5, <1>4, <2>2, <2>5 DEF AuthInv, RevokedIsGone, Auth!At
  <2>6. \A q, r \in Threads :
           q # r /\ Auth!At(q, "save")' /\ Auth!At(r, "save")' => thread'[q].key # thread'[r].key
    BY <2>2 DEF AuthInv, RevokedIsGone, Auth!At
  <2> QED
    BY <2>1, <2>3, <2>4, <2>5, <2>6 DEF RevokedIsGone, Token, Auth!At
<1>8. GivenIsKept' /\ Judged'
  BY <1>1, <1>3, <1>4 DEF AuthInv, GivenIsKept, Judged, Token, Auth!At
<1> QED
  BY <1>6, <1>7, <1>8 DEF AuthInv

LEMMA ForgetTokensHolds ==
    ASSUME AuthInv, NEW t \in Threads, Auth!ForgetTokens(t)
    PROVE  AuthInv'
<1> DEFINE l == [thread[t] EXCEPT !.pc = "issue"]
           mine == Auth!Tokens(thread[t].name)
<1>1. /\ l \in Request /\ l.pc = "issue" /\ l.key = thread[t].key /\ l.revoked = thread[t].revoked
      /\ l.name = thread[t].name
  BY DEF AuthInv, RequestsTyped, Request, AuthPcs
<1>2. Auth!Become(t, l)
  BY DEF Auth!ForgetTokens, Auth!Goto
<1>3. /\ thread' \in [Threads -> Request] /\ thread'[t] = l
      /\ \A r \in Threads \ {t} : thread'[r] = thread[r]
  BY <1>1, <1>2, Becomes DEF AuthInv
<1>4. /\ memory' = memory \ mine /\ doomed' = doomed \cup (memory \cap mine)
      /\ UNCHANGED <<issued, stored, expired, given, revoked>>
      /\ thread[t].pc = "forget"
  BY DEF Auth!ForgetTokens, Auth!At
<1>5. \A k \in mine : Token(k)
  BY DEF Auth!Tokens, Token
<1> HIDE DEF l, mine
<1>6. RequestsTyped'
  BY <1>1, <1>3, <1>4 DEF AuthInv, RequestsTyped, Token, Auth!Keys
<1>7. RevokedIsGone'
  <2>1. /\ revoked' \cap stored' = {} /\ revoked' \subseteq doomed' /\ revoked' \subseteq Auth!Keys'
        /\ \A x \in revoked' : ~Token(x)' => x \notin memory'
    BY <1>1, <1>3, <1>4 DEF AuthInv, RequestsTyped, RevokedIsGone, Token, Auth!Keys
  <2>2. ASSUME NEW r \in Threads, thread'[r].pc \in {"revoke", "save"}
        PROVE  r # t /\ thread'[r] = thread[r]
    BY <1>1, <1>3, <2>2
  <2>3. \A x : Token(x)' <=> Token(x)
    BY <1>4 DEF Token
  <2>4. ASSUME NEW r \in Threads, Auth!At(r, "revoke")'
        PROVE  /\ thread'[r].key \in doomed' \cap given'
               /\ ~Token(thread'[r].key) => thread'[r].key \notin memory'
    BY <1>4, <2>2, <2>4 DEF AuthInv, RevokedIsGone, Auth!At
  <2>5. ASSUME NEW r \in Threads, Auth!At(r, "save")'
        PROVE  thread'[r].key \notin stored' \cup given' \cup revoked'
    BY <1>4, <2>2, <2>5 DEF AuthInv, RevokedIsGone, Auth!At
  <2>6. \A q, r \in Threads :
           q # r /\ Auth!At(q, "save")' /\ Auth!At(r, "save")' => thread'[q].key # thread'[r].key
    BY <2>2 DEF AuthInv, RevokedIsGone, Auth!At
  <2> QED
    BY <2>1, <2>3, <2>4, <2>5, <2>6 DEF RevokedIsGone, Token, Auth!At
<1>8. GivenIsKept' /\ Judged'
  BY <1>1, <1>3, <1>4, <1>5 DEF AuthInv, GivenIsKept, Judged, Token, Auth!At
<1> QED
  BY <1>6, <1>7, <1>8 DEF AuthInv

LEMMA SaveTokenHolds ==
    ASSUME AuthInv, NEW t \in Threads, Auth!SaveToken(t)
    PROVE  AuthInv'
<1> DEFINE k == thread[t].key
<1>1. /\ thread' \in [Threads -> Request] /\ thread'[t] = Auth!Idle
      /\ \A r \in Threads \ {t} : thread'[r] = thread[r]
  BY IdleRequestTyped, Becomes DEF AuthInv, Auth!SaveToken
<1>2. /\ stored' = stored \cup {k} /\ given' \in {given, given \cup {k}}
      /\ UNCHANGED <<issued, memory, expired, doomed, revoked>>
      /\ thread[t].pc = "save"
  BY DEF Auth!SaveToken, Auth!At
<1>3. k \in Auth!Keys /\ Token(k) /\ k \notin revoked
  BY <1>2 DEF AuthInv, RequestsTyped, RevokedIsGone, Auth!At
<1>4. \A r \in Threads \ {t} : Auth!At(r, "save") => thread[r].key # k
  BY <1>2 DEF AuthInv, RevokedIsGone, Auth!At
<1> HIDE DEF k
<1>5. RequestsTyped'
  BY <1>1, <1>2, <1>3, IdleRequestTyped DEF AuthInv, RequestsTyped, Token, Auth!Keys
<1>6. RevokedIsGone'
  BY <1>1, <1>2, <1>3, <1>4, IdleRequestTyped DEF AuthInv, RevokedIsGone, Token, Auth!Keys, Auth!At
<1>7. GivenIsKept'
  BY <1>2, <1>3 DEF AuthInv, GivenIsKept, Token
<1>8. Judged'
  BY <1>1, <1>2, IdleRequestTyped DEF AuthInv, Judged, Token, Auth!At
<1> QED
  BY <1>5, <1>6, <1>7, <1>8 DEF AuthInv
LEMMA PresentHolds ==
    ASSUME AuthInv, NEW t \in Threads, NEW k \in given, Auth!Present(t, k)
    PROVE  AuthInv'
<1> DEFINE pc == IF Auth!Trusted(k) THEN "accepted" ELSE "load"
           gone == k \in revoked
           l == [Auth!Idle EXCEPT !.key = k, !.revoked = gone, !.pc = pc]
<1>1. k \in Auth!Keys /\ k \in Nat /\ (issued[k].purpose = "external" <=> ~Token(k))
  <2>1. k \in Auth!Keys /\ issued \in Seq(Session)
    BY DEF AuthInv, RequestsTyped
  <2>2. k \in Nat /\ issued[k] \in Session
    BY <2>1, IssuedTyped
  <2> QED
    BY <2>1, <2>2 DEF Session, Token
<1>2. /\ l \in Request /\ l.pc = pc /\ l.key = k /\ (l.revoked <=> k \in revoked)
  <2>1. gone \in BOOLEAN /\ pc \in AuthPcs
    BY DEF AuthPcs
  <2>2. l \in Request /\ l.pc = pc /\ l.key = k /\ l.revoked = gone
    <3> HIDE DEF gone, pc
    <3> QED
      BY <1>1, <2>1, IdleRequestTyped DEF Request
  <2> QED
    BY <2>2
<1>3. Auth!Become(t, l) /\ memory' = memory \ expired
  BY DEF Auth!Present, Auth!Begin, Auth!Purged
<1>4. /\ thread' \in [Threads -> Request] /\ thread'[t] = l
      /\ \A r \in Threads \ {t} : thread'[r] = thread[r]
  BY <1>2, <1>3, Becomes DEF AuthInv
<1>5. UNCHANGED <<issued, stored, expired, given, doomed, revoked>>
  BY DEF Auth!Present
<1>6. /\ l.pc = "accepted" => k \notin revoked
      /\ l.pc = "load" /\ ~Token(k) => k \in doomed \cup expired
  <2>1. l.pc = "accepted" => k \in memory /\ ~Token(k)
    BY <1>1, <1>2 DEF Auth!Trusted, Auth!Purged
  <2>2. l.pc = "load" /\ ~Token(k) => k \notin memory \ expired
    BY <1>1, <1>2 DEF Auth!Trusted, Auth!Purged
  <2> QED
    BY <2>1, <2>2 DEF AuthInv, RevokedIsGone, GivenIsKept
<1>7. l.pc \in {"accepted", "load"}
  BY <1>2
<1> HIDE DEF l, pc
<1>8. RequestsTyped'
  BY <1>1, <1>2, <1>3, <1>4, <1>5, <1>7 DEF AuthInv, RequestsTyped, Token, Auth!Keys
<1>9. RevokedIsGone'
  BY <1>3, <1>4, <1>5, <1>7 DEF AuthInv, RevokedIsGone, Token, Auth!Keys, Auth!At
<1>10. GivenIsKept'
  BY <1>3, <1>5 DEF AuthInv, GivenIsKept, Token
<1>11. Judged'
  BY <1>2, <1>4, <1>5, <1>6, <1>7 DEF AuthInv, Judged, Token, Auth!At
<1> QED
  BY <1>8, <1>9, <1>10, <1>11 DEF AuthInv

LEMMA LoadHolds ==
    ASSUME AuthInv, NEW t \in Threads, Auth!Load(t)
    PROVE  AuthInv'
<1> DEFINE k == thread[t].key
           pc == IF k \in stored THEN "remember" ELSE "rejected"
           l == [thread[t] EXCEPT !.pc = pc]
<1>1. l \in Request /\ l.pc = pc /\ l.key = k /\ l.revoked = thread[t].revoked
  BY DEF AuthInv, RequestsTyped, Request, AuthPcs
<1>2. Auth!Become(t, l)
  BY DEF Auth!Load, Auth!Goto
<1>3. /\ thread' \in [Threads -> Request] /\ thread'[t] = l
      /\ \A r \in Threads \ {t} : thread'[r] = thread[r]
  BY <1>1, <1>2, Becomes DEF AuthInv
<1>4. /\ memory' \in {memory, memory \ {k}} /\ (k \in stored => memory' = memory)
      /\ UNCHANGED <<issued, stored, expired, given, doomed, revoked>>
      /\ thread[t].pc = "load"
  BY DEF Auth!Load, Auth!At
<1>5. k \in Auth!Keys /\ k \in given /\ (k \in stored => Token(k))
  BY <1>4 DEF AuthInv, RequestsTyped, Judged
<1>6. k \notin stored => k \in doomed \cup expired
  BY <1>4, <1>5 DEF AuthInv, GivenIsKept, Judged, Auth!At
<1>7. k \in stored => ~thread[t].revoked
  BY DEF AuthInv, Judged, RevokedIsGone
<1>8. l.pc \in {"remember", "rejected"} /\ (l.pc = "remember" <=> k \in stored)
  BY <1>1
<1> HIDE DEF k, pc, l
<1>9. RequestsTyped'
  BY <1>1, <1>3, <1>4, <1>5, <1>8 DEF AuthInv, RequestsTyped, Token, Auth!Keys
<1>10. RevokedIsGone'
  BY <1>3, <1>4, <1>8 DEF AuthInv, RevokedIsGone, Token, Auth!Keys, Auth!At
<1>11. GivenIsKept'
  BY <1>4, <1>6 DEF AuthInv, GivenIsKept, Token
<1>12. thread[t].revoked => k \in revoked
  BY DEF AuthInv, Judged, k
<1>13. Judged'
  BY <1>1, <1>3, <1>4, <1>5, <1>6, <1>7, <1>8, <1>12 DEF AuthInv, Judged, Token, Auth!At
<1> QED
  BY <1>9, <1>10, <1>11, <1>13 DEF AuthInv

LEMMA RememberHolds ==
    ASSUME AuthInv, NEW t \in Threads, Auth!Remember(t)
    PROVE  AuthInv'
<1> DEFINE k == thread[t].key
           l == [thread[t] EXCEPT !.pc = "accepted"]
<1>1. l \in Request /\ l.pc = "accepted" /\ l.key = k /\ l.revoked = thread[t].revoked
  BY DEF AuthInv, RequestsTyped, Request, AuthPcs
<1>2. Auth!Become(t, l)
  BY DEF Auth!Remember, Auth!Goto
<1>3. /\ thread' \in [Threads -> Request] /\ thread'[t] = l
      /\ \A r \in Threads \ {t} : thread'[r] = thread[r]
  BY <1>1, <1>2, Becomes DEF AuthInv
<1>4. /\ memory' = memory \cup {k}
      /\ UNCHANGED <<issued, stored, expired, given, doomed, revoked>>
      /\ thread[t].pc = "remember"
  BY DEF Auth!Remember, Auth!At
<1>5. k \in Auth!Keys /\ Token(k) /\ ~thread[t].revoked
  BY <1>4 DEF AuthInv, RequestsTyped, Judged
<1> HIDE DEF k, l
<1>6. RequestsTyped'
  BY <1>1, <1>3, <1>4, <1>5 DEF AuthInv, RequestsTyped, Token, Auth!Keys
<1>7. RevokedIsGone'
  BY <1>1, <1>3, <1>4, <1>5 DEF AuthInv, RevokedIsGone, Token, Auth!Keys, Auth!At
<1>8. GivenIsKept' /\ Judged'
  BY <1>1, <1>3, <1>4, <1>5 DEF AuthInv, GivenIsKept, Judged, Token, Auth!At
<1> QED
  BY <1>6, <1>7, <1>8 DEF AuthInv

\* A request that is answered, or given up.
LEMMA EndsHolds ==
    ASSUME AuthInv, NEW t \in Threads, Auth!Answer(t) \/ Auth!CallFails(t)
    PROVE  AuthInv'
<1>1. /\ thread' \in [Threads -> Request] /\ thread'[t] = Auth!Idle
      /\ \A r \in Threads \ {t} : thread'[r] = thread[r]
  BY IdleRequestTyped, Becomes DEF AuthInv, Auth!Answer, Auth!CallFails
<1>2. UNCHANGED <<issued, memory, stored, expired, given, doomed, revoked>>
  BY DEF Auth!Answer, Auth!CallFails
<1>3. RequestsTyped' /\ RevokedIsGone'
  <2>1. RequestsTyped'
    BY <1>1, <1>2, IdleRequestTyped DEF AuthInv, RequestsTyped, Token, Auth!Keys
  <2>2. RevokedIsGone'
    BY <1>1, <1>2, IdleRequestTyped DEF AuthInv, RevokedIsGone, Token, Auth!Keys, Auth!At
  <2> QED
    BY <2>1, <2>2
<1>4. GivenIsKept' /\ Judged'
  BY <1>1, <1>2, IdleRequestTyped DEF AuthInv, GivenIsKept, Judged, Token, Auth!At
<1> QED
  BY <1>3, <1>4 DEF AuthInv

LEMMA LogoutHolds ==
    ASSUME AuthInv, NEW t \in Threads, NEW k \in given, Auth!Logout(t, k)
    PROVE  AuthInv'
<1> DEFINE l == [Auth!Idle EXCEPT !.pc = "revoke", !.key = k]
<1>1. k \in Auth!Keys /\ k \in Nat
  <2>1. k \in Auth!Keys /\ issued \in Seq(Session)
    BY DEF AuthInv, RequestsTyped
  <2> QED
    BY <2>1, IssuedTyped
<1>2. l \in Request /\ l.pc = "revoke" /\ l.key = k /\ ~l.revoked
  BY <1>1, IdleRequestTyped DEF Request, AuthPcs
<1>3. Auth!Become(t, l)
  BY DEF Auth!Logout, Auth!Begin
<1>4. /\ thread' \in [Threads -> Request] /\ thread'[t] = l
      /\ \A r \in Threads \ {t} : thread'[r] = thread[r]
  BY <1>2, <1>3, Becomes DEF AuthInv
<1>5. /\ memory' = memory \ {k} /\ doomed' = doomed \cup {k}
      /\ UNCHANGED <<issued, stored, expired, given, revoked>>
  BY DEF Auth!Logout
<1> HIDE DEF l
<1>6. RequestsTyped'
  BY <1>1, <1>2, <1>4, <1>5 DEF AuthInv, RequestsTyped, Token, Auth!Keys
<1>7. RevokedIsGone'
  BY <1>2, <1>4, <1>5 DEF AuthInv, RevokedIsGone, Token, Auth!Keys, Auth!At
<1>8. GivenIsKept' /\ Judged'
  BY <1>2, <1>4, <1>5 DEF AuthInv, GivenIsKept, Judged, Token, Auth!At
<1> QED
  BY <1>6, <1>7, <1>8 DEF AuthInv

LEMMA RevokeHolds ==
    ASSUME AuthInv, NEW t \in Threads, Auth!Revoke(t)
    PROVE  AuthInv'
<1> DEFINE k == thread[t].key
<1>1. /\ thread' \in [Threads -> Request] /\ thread'[t] = Auth!Idle
      /\ \A r \in Threads \ {t} : thread'[r] = thread[r]
  BY IdleRequestTyped, Becomes DEF AuthInv, Auth!Revoke
<1>2. /\ stored' = stored \ {k} /\ revoked' = revoked \cup {k}
      /\ UNCHANGED <<issued, memory, expired, given, doomed>>
      /\ thread[t].pc = "revoke"
  BY DEF Auth!Revoke, Auth!At
<1>3. k \in Auth!Keys /\ k \in doomed /\ k \in given /\ (~Token(k) => k \notin memory)
  BY <1>2 DEF AuthInv, RequestsTyped, RevokedIsGone, Auth!At
<1> HIDE DEF k
<1>4. RequestsTyped'
  BY <1>1, <1>2, IdleRequestTyped DEF AuthInv, RequestsTyped, Token, Auth!Keys
<1>5. RevokedIsGone'
  BY <1>1, <1>2, <1>3, IdleRequestTyped DEF AuthInv, RevokedIsGone, Token, Auth!Keys, Auth!At
<1>6. GivenIsKept' /\ Judged'
  BY <1>1, <1>2, <1>3, IdleRequestTyped DEF AuthInv, GivenIsKept, Judged, Token, Auth!At
<1> QED
  BY <1>4, <1>5, <1>6 DEF AuthInv

LEMMA ExpireHolds ==
    ASSUME AuthInv, NEW k \in Auth!Keys, Auth!Expire(k)
    PROVE  AuthInv'
<1>1. /\ expired' = expired \cup {k}
      /\ UNCHANGED <<issued, memory, stored, thread, given, doomed, revoked>>
  BY DEF Auth!Expire
<1>2. RequestsTyped' /\ RevokedIsGone'
  BY <1>1 DEF AuthInv, RequestsTyped, RevokedIsGone, Token, Auth!Keys, Auth!At
<1>3. GivenIsKept' /\ Judged'
  BY <1>1 DEF AuthInv, GivenIsKept, Judged, Token, Auth!At
<1> QED
  BY <1>2, <1>3 DEF AuthInv

LEMMA CrashHolds ==
    ASSUME AuthInv, Auth!Crash
    PROVE  AuthInv'
<1>1. thread' \in [Threads -> Request] /\ \A t \in Threads : thread'[t] = Auth!Idle
  BY IdleRequestTyped DEF Auth!Crash
<1>2. /\ memory' = {} /\ doomed' = doomed \cup {k \in Auth!Keys : issued[k].purpose = "external"}
      /\ UNCHANGED <<issued, stored, expired, given, revoked>>
  BY DEF Auth!Crash
<1>3. \A k \in Auth!Keys : Token(k) \/ issued[k].purpose = "external"
  <2>1. issued \in Seq(Session)
    BY DEF AuthInv, RequestsTyped
  <2>2. \A k \in Auth!Keys : issued[k] \in Session
    BY <2>1, IssuedTyped
  <2> QED
    BY <2>2 DEF Session, Token
<1>4. RequestsTyped' /\ RevokedIsGone'
  BY <1>1, <1>2, IdleRequestTyped
     DEF AuthInv, RequestsTyped, RevokedIsGone, Token, Auth!Keys, Auth!At
<1>5. GivenIsKept'
  BY <1>2, <1>3 DEF AuthInv, RequestsTyped, GivenIsKept, Token
<1>6. Judged'
  BY <1>1, <1>2, IdleRequestTyped DEF Judged, Token, Auth!At
<1> QED
  BY <1>4, <1>5, <1>6 DEF AuthInv

-----------------------------------------------------------------------------
(* Requests that issue a key.                                              *)

LEMMA LoginHolds ==
    ASSUME AuthInv, NEW t \in Threads, NEW name \in Names, Auth!Login(t, name)
    PROVE  AuthInv'
<1>1. PICK k \in Nat :
      /\ k = Len(issued) + 1
      /\ issued' \in Seq(Session) /\ k \notin Auth!Keys /\ Auth!Keys' = Auth!Keys \cup {k}
      /\ \A x \in Auth!Keys : issued'[x] = issued[x]
      /\ issued'[k] = [name |-> name, purpose |-> "external"]
  BY IssueAdds DEF AuthInv, RequestsTyped, Auth!Login
<1>2. /\ thread' \in [Threads -> Request] /\ thread'[t] = Auth!Idle
      /\ \A r \in Threads \ {t} : thread'[r] = thread[r]
  BY IdleRequestTyped, Becomes DEF AuthInv, Auth!Login, Auth!Begin
<1>3. /\ memory' = (memory \ expired) \cup {k} /\ given' = given \cup {k}
      /\ UNCHANGED <<stored, expired, doomed, revoked>>
  BY <1>1 DEF Auth!Login, Auth!Purged
<1>4. ~Token(k)' /\ \A x \in Auth!Keys : Token(x)' <=> Token(x)
  BY <1>1 DEF Token
<1>5. k \notin memory \cup stored \cup given \cup revoked
  BY <1>1 DEF AuthInv, RequestsTyped, RevokedIsGone
<1>6. \A r \in Threads :
        thread[r].pc \in {"save", "load", "remember", "accepted", "rejected", "revoke"} =>
         thread[r].key \in Auth!Keys /\ thread[r].key # k
  BY <1>1 DEF AuthInv, RequestsTyped
<1>7. RequestsTyped'
  BY <1>1, <1>2, <1>3, <1>4, IdleRequestTyped DEF AuthInv, RequestsTyped
<1>8. RevokedIsGone'
  BY <1>1, <1>2, <1>3, <1>4, <1>5, <1>6, IdleRequestTyped DEF AuthInv, RevokedIsGone, Auth!At
<1>9. GivenIsKept'
  BY <1>1, <1>3, <1>4 DEF AuthInv, RequestsTyped, GivenIsKept
<1>10. Judged'
  BY <1>1, <1>2, <1>3, <1>4, <1>6, IdleRequestTyped DEF AuthInv, Judged, Auth!At
<1> QED
  BY <1>7, <1>8, <1>9, <1>10 DEF AuthInv

LEMMA IssueTokenHolds ==
    ASSUME AuthInv, NEW t \in Threads, Auth!IssueToken(t)
    PROVE  AuthInv'
<1>1. PICK k \in Nat :
      /\ k = Len(issued) + 1
      /\ issued' \in Seq(Session) /\ k \notin Auth!Keys /\ Auth!Keys' = Auth!Keys \cup {k}
      /\ \A x \in Auth!Keys : issued'[x] = issued[x]
      /\ issued'[k] = [name |-> thread[t].name, purpose |-> "api_token"]
  BY IssueAdds DEF AuthInv, RequestsTyped, Auth!IssueToken, Auth!At
<1> DEFINE l == [thread[t] EXCEPT !.pc = "save", !.key = k]
<1>2. l \in Request /\ l.pc = "save" /\ l.key = k /\ l.revoked = thread[t].revoked
  <2>1. thread[t] \in Request
    BY DEF AuthInv, RequestsTyped
  <2> QED
    BY <1>1, <2>1 DEF Request, AuthPcs
<1>3. Auth!Become(t, l)
  BY <1>1 DEF Auth!IssueToken
<1>4. /\ thread' \in [Threads -> Request] /\ thread'[t] = l
      /\ \A r \in Threads \ {t} : thread'[r] = thread[r]
  BY <1>2, <1>3, Becomes DEF AuthInv
<1>5. /\ memory' = (memory \ expired) \cup {k}
      /\ UNCHANGED <<stored, expired, given, doomed, revoked>>
      /\ thread[t].pc = "issue"
  BY <1>1 DEF Auth!IssueToken, Auth!Purged, Auth!At
<1>6. Token(k)' /\ \A x \in Auth!Keys : Token(x)' <=> Token(x)
  BY <1>1 DEF Token
<1>7. k \notin memory \cup stored \cup given \cup revoked
  BY <1>1 DEF AuthInv, RequestsTyped, RevokedIsGone
<1>8. \A r \in Threads :
        thread[r].pc \in {"save", "load", "remember", "accepted", "rejected", "revoke"} =>
         thread[r].key \in Auth!Keys /\ thread[r].key # k
  BY <1>1 DEF AuthInv, RequestsTyped
<1> HIDE DEF l
<1>9. RequestsTyped'
  <2>1. /\ memory' \subseteq Auth!Keys' /\ stored' \subseteq Auth!Keys' /\ given' \subseteq Auth!Keys'
        /\ \A x \in stored' : Token(x)'
    BY <1>1, <1>5, <1>6 DEF AuthInv, RequestsTyped
  <2>2. ASSUME NEW r \in Threads
        PROVE  /\ thread'[r].pc \in {"save", "load", "remember", "accepted", "rejected", "revoke"} =>
                     thread'[r].key \in Auth!Keys'
               /\ thread'[r].pc \in {"save", "remember"} => Token(thread[r].key)'
               /\ thread'[r].pc \in {"revoke stored", "forget", "issue"} => thread'[r].name \in Names
    <3>1. CASE r = t
      BY <1>1, <1>2, <1>4, <1>6, <3>1
    <3>2. CASE r # t
      BY <1>1, <1>4, <1>6, <3>2 DEF AuthInv, RequestsTyped
    <3> QED
      BY <3>1, <3>2
  <2> QED
    BY <1>1, <1>4, <2>1, <2>2 DEF RequestsTyped, Token
<1>10. RevokedIsGone'
  BY <1>1, <1>2, <1>4, <1>5, <1>6, <1>7, <1>8 DEF AuthInv, RevokedIsGone, Auth!At
<1>11. GivenIsKept'
  BY <1>1, <1>5, <1>6 DEF AuthInv, RequestsTyped, GivenIsKept
<1>12. ~thread[t].revoked
  BY <1>5 DEF AuthInv, Judged
<1>13. Judged'
  BY <1>1, <1>2, <1>4, <1>5, <1>6, <1>8, <1>12 DEF AuthInv, Judged, Auth!At
<1> QED
  BY <1>9, <1>10, <1>11, <1>13 DEF AuthInv
-----------------------------------------------------------------------------

LEMMA AuthNext == AuthInv /\ [Auth!Next]_Auth!vars => AuthInv'
<1> SUFFICES ASSUME AuthInv, [Auth!Next]_Auth!vars PROVE AuthInv'
  OBVIOUS
<1>1. ASSUME NEW t \in Threads, NEW name \in Names, Auth!Login(t, name) \/ Auth!StartToken(t, name)
      PROVE  AuthInv'
  BY <1>1, LoginHolds, StartTokenHolds
<1>2. ASSUME NEW t \in Threads,
             \/ Auth!RevokeStored(t) \/ Auth!ForgetTokens(t)
             \/ Auth!IssueToken(t) \/ Auth!SaveToken(t)
      PROVE  AuthInv'
  BY <1>2, RevokeStoredHolds, ForgetTokensHolds, IssueTokenHolds, SaveTokenHolds
<1>3. ASSUME NEW t \in Threads, NEW k \in given, Auth!Present(t, k) \/ Auth!Logout(t, k)
      PROVE  AuthInv'
  BY <1>3, PresentHolds, LogoutHolds
<1>4. ASSUME NEW t \in Threads, Auth!Load(t) \/ Auth!Remember(t) \/ Auth!Revoke(t) PROVE AuthInv'
  BY <1>4, LoadHolds, RememberHolds, RevokeHolds
<1>5. ASSUME NEW t \in Threads, Auth!Answer(t) \/ Auth!CallFails(t) PROVE AuthInv'
  BY <1>5, EndsHolds
<1>6. ASSUME NEW k \in Auth!Keys, Auth!Expire(k) PROVE AuthInv'
  BY <1>6, ExpireHolds
<1>7. CASE Auth!Crash
  BY <1>7, CrashHolds
<1>8. CASE UNCHANGED Auth!vars
  <2>1. RequestsTyped' /\ RevokedIsGone'
    BY <1>8 DEF AuthInv, RequestsTyped, RevokedIsGone, Token, Auth!Keys, Auth!At, Auth!vars
  <2>2. GivenIsKept' /\ Judged'
    BY <1>8 DEF AuthInv, GivenIsKept, Judged, Token, Auth!At, Auth!vars
  <2> QED
    BY <2>1, <2>2 DEF AuthInv
<1> QED
  BY <1>1, <1>2, <1>3, <1>4, <1>5, <1>6, <1>7, <1>8 DEF Auth!Next

-----------------------------------------------------------------------------
(* One token each.                                                         *)

\* Requests have not overlapped: one thread is busy, the stored tokens belong to different
\* administrators, and from the revocation of the earlier ones to the end of a request its
\* administrator has none.
Alone ==
    ~overlapped =>
        /\ \A t \in Threads : \A r \in Threads \ {t} : Auth!At(t, "idle") \/ Auth!At(r, "idle")
        /\ \A x, y \in stored : issued[x].name = issued[y].name => x = y
        /\ \A t \in Threads : thread[t].pc \in {"forget", "issue", "save"} =>
              \A x \in stored : issued[x].name # thread[t].name
        /\ \A t \in Threads : Auth!At(t, "save") => issued[thread[t].key].name = thread[t].name

LEMMA AloneInit == Auth!Init => Alone
BY IdleRequestTyped DEF Auth!Init, Alone, Auth!At

\* A request that begins alone, or ends.
LEMMA AloneSteps ==
    ASSUME RequestsTyped, Alone, NEW t \in Threads, NEW l \in Request, Auth!Become(t, l),
           l.pc \notin {"forget", "issue", "save"}, stored' \subseteq stored,
           \A k \in Auth!Keys : issued'[k] = issued[k],
           ~overlapped' => /\ ~overlapped
                           /\ \/ l.pc = "idle" \/ ~Auth!At(t, "idle")
                              \/ \A r \in Threads : Auth!At(r, "idle")
    PROVE  Alone'
<1>1. /\ thread'[t] = l /\ \A r \in Threads \ {t} : thread'[r] = thread[r]
  BY Becomes
<1>2. \A x \in stored' : x \in stored /\ issued'[x] = issued[x]
  BY DEF RequestsTyped
<1>3. \A r \in Threads : Auth!At(r, "save") => thread[r].key \in Auth!Keys
  BY DEF RequestsTyped, Auth!At
<1> SUFFICES ASSUME ~overlapped' PROVE
        /\ \A s \in Threads : \A r \in Threads \ {s} : Auth!At(s, "idle")' \/ Auth!At(r, "idle")'
        /\ \A x, y \in stored' : issued'[x].name = issued'[y].name => x = y
        /\ \A s \in Threads : thread'[s].pc \in {"forget", "issue", "save"} =>
              \A x \in stored' : issued'[x].name # thread'[s].name
        /\ \A s \in Threads : Auth!At(s, "save")' => issued'[thread'[s].key].name = thread'[s].name
  BY DEF Alone
<1>4. \A s \in Threads : \A r \in Threads \ {s} : Auth!At(s, "idle")' \/ Auth!At(r, "idle")'
  BY <1>1 DEF Alone, Auth!At
<1>5. \A x, y \in stored' : issued'[x].name = issued'[y].name => x = y
  BY <1>2 DEF Alone
<1>6. \A s \in Threads : thread'[s].pc \in {"forget", "issue", "save"} =>
         \A x \in stored' : issued'[x].name # thread'[s].name
  BY <1>1, <1>2 DEF Alone
<1>7. \A s \in Threads : Auth!At(s, "save")' => issued'[thread'[s].key].name = thread'[s].name
  BY <1>1, <1>3 DEF Alone, Auth!At
<1> QED
  BY <1>4, <1>5, <1>6, <1>7
LEMMA AloneNext == AuthInv /\ Alone /\ [Auth!Next]_Auth!vars => Alone'
<1> SUFFICES ASSUME AuthInv, Alone, [Auth!Next]_Auth!vars PROVE Alone'
  OBVIOUS
<1> USE DEF AuthInv
<1>1. ASSUME NEW t \in Threads, NEW name \in Names, Auth!Login(t, name) PROVE Alone'
  <2>1. \A k \in Auth!Keys : issued'[k] = issued[k]
    BY <1>1, IssueAdds DEF Auth!Login, RequestsTyped
  <2>2. Auth!Become(t, Auth!Idle) /\ stored' = stored /\ (overlapped => overlapped')
    BY <1>1 DEF Auth!Login, Auth!Begin
  <2> QED
    BY <2>1, <2>2, IdleRequestTyped, AloneSteps
<1>2. ASSUME NEW t \in Threads, NEW name \in Names, Auth!StartToken(t, name) PROVE Alone'
  <2> DEFINE l == [Auth!Idle EXCEPT !.pc = "revoke stored", !.name = name]
  <2>1. l \in Request /\ l.pc = "revoke stored"
    BY IdleRequestTyped DEF Request, AuthPcs
  <2>2. /\ Auth!Become(t, l) /\ UNCHANGED <<stored, issued>>
        /\ ~overlapped' => ~overlapped /\ \A r \in Threads : Auth!At(r, "idle")
    BY <1>2 DEF Auth!StartToken, Auth!Begin
  <2> HIDE DEF l
  <2> QED
    BY <2>1, <2>2, AloneSteps
<1>3. ASSUME NEW t \in Threads, NEW k \in given, Auth!Present(t, k) PROVE Alone'
  <2> DEFINE l == [Auth!Idle EXCEPT !.key = k, !.revoked = k \in revoked,
                               !.pc = IF Auth!Trusted(k) THEN "accepted" ELSE "load"]
  <2>1. /\ Auth!Become(t, l) /\ UNCHANGED <<stored, issued>>
        /\ ~overlapped' => ~overlapped /\ \A r \in Threads : Auth!At(r, "idle")
    BY <1>3 DEF Auth!Present, Auth!Begin
  <2>2. thread' \in [Threads -> Request] /\ thread'[t] = l
    BY <1>3, <2>1, PresentHolds DEF Auth!Become, RequestsTyped
  <2>3. l \in Request /\ l.pc \in {"accepted", "load"}
    BY <2>2, IdleRequestTyped DEF Request
  <2> HIDE DEF l
  <2> QED
    BY <2>1, <2>3, AloneSteps
<1>4. ASSUME NEW t \in Threads, NEW k \in given, Auth!Logout(t, k) PROVE Alone'
  <2> DEFINE l == [Auth!Idle EXCEPT !.pc = "revoke", !.key = k]
  <2>1. /\ Auth!Become(t, l) /\ UNCHANGED <<stored, issued>>
        /\ ~overlapped' => ~overlapped /\ \A r \in Threads : Auth!At(r, "idle")
    BY <1>4 DEF Auth!Logout, Auth!Begin
  <2>2. k \in Nat
    BY IssuedTyped DEF RequestsTyped
  <2>3. l \in Request /\ l.pc = "revoke"
    BY <2>2, IdleRequestTyped DEF Request, AuthPcs
  <2> HIDE DEF l
  <2> QED
    BY <2>1, <2>3, AloneSteps
<1>5. ASSUME NEW t \in Threads, Auth!Load(t) \/ Auth!Remember(t) PROVE Alone'
  <2> PICK pc \in {"remember", "rejected", "accepted"} : Auth!Goto(t, pc)
    BY <1>5 DEF Auth!Load, Auth!Remember
  <2> DEFINE l == [thread[t] EXCEPT !.pc = pc]
  <2>1. l \in Request /\ l.pc = pc
    BY DEF RequestsTyped, Request, AuthPcs
  <2>2. Auth!Become(t, l) /\ UNCHANGED <<stored, issued, overlapped>> /\ ~Auth!At(t, "idle")
    BY <1>5 DEF Auth!Load, Auth!Remember, Auth!Goto, Auth!At
  <2> HIDE DEF l
  <2> QED
    BY <2>1, <2>2, AloneSteps
<1>6. ASSUME NEW t \in Threads, Auth!Answer(t) \/ Auth!CallFails(t) \/ Auth!Revoke(t) PROVE Alone'
  <2>1. Auth!Become(t, Auth!Idle) /\ stored' \subseteq stored /\ UNCHANGED <<issued, overlapped>>
    BY <1>6 DEF Auth!Answer, Auth!CallFails, Auth!Revoke
  <2> QED
    BY <2>1, IdleRequestTyped, AloneSteps
<1>7. ASSUME NEW t \in Threads, Auth!RevokeStored(t) PROVE Alone'
  <2> DEFINE l == [thread[t] EXCEPT !.pc = "forget"]
  <2>1. l \in Request /\ l.pc = "forget" /\ l.name = thread[t].name
    BY DEF RequestsTyped, Request, AuthPcs
  <2>2. /\ Auth!Become(t, l) /\ UNCHANGED <<issued, overlapped>> /\ ~Auth!At(t, "idle")
        /\ stored' = stored \ (Auth!Tokens(thread[t].name) \cap stored)
    BY <1>7 DEF Auth!RevokeStored, Auth!Replaced, Auth!Goto, Auth!At
  <2>3. /\ thread'[t] = l /\ \A r \in Threads \ {t} : thread'[r] = thread[r]
    BY <2>1, <2>2, Becomes
  <2>4. \A x \in stored' : issued[x].name # thread[t].name
    BY <2>2 DEF Auth!Tokens, RequestsTyped, Token
  <2> HIDE DEF l
  <2> QED
    BY <2>1, <2>2, <2>3, <2>4 DEF Alone, Auth!At
<1>8. ASSUME NEW t \in Threads, Auth!ForgetTokens(t) PROVE Alone'
  <2> DEFINE l == [thread[t] EXCEPT !.pc = "issue"]
  <2>1. l \in Request /\ l.pc = "issue" /\ l.name = thread[t].name
    BY DEF RequestsTyped, Request, AuthPcs
  <2>2. Auth!Become(t, l) /\ UNCHANGED <<issued, stored, overlapped>> /\ thread[t].pc = "forget"
    BY <1>8 DEF Auth!ForgetTokens, Auth!Goto, Auth!At
  <2>3. /\ thread'[t] = l /\ \A r \in Threads \ {t} : thread'[r] = thread[r]
    BY <2>1, <2>2, Becomes
  <2> HIDE DEF l
  <2> QED
    BY <2>1, <2>2, <2>3 DEF Alone, Auth!At
<1>9. ASSUME NEW t \in Threads, Auth!IssueToken(t) PROVE Alone'
  <2>1. PICK k \in Nat :
        /\ k = Len(issued) + 1 /\ k \notin Auth!Keys
        /\ \A x \in Auth!Keys : issued'[x] = issued[x]
        /\ issued'[k].name = thread[t].name
    <3>1. /\ Auth!Issue(thread[t].name, "api_token") /\ thread[t].name \in Names
          /\ issued \in Seq(Session)
      BY <1>9 DEF RequestsTyped, Auth!IssueToken, Auth!At
    <3>2. /\ Len(issued) + 1 \in Nat /\ Len(issued) + 1 \notin Auth!Keys
          /\ \A x \in Auth!Keys : issued'[x] = issued[x]
          /\ issued'[Len(issued) + 1] = [name |-> thread[t].name, purpose |-> "api_token"]
      BY <3>1, IssueAdds
    <3> QED
      BY <3>2
  <2> DEFINE l == [thread[t] EXCEPT !.pc = "save", !.key = k]
  <2>2. l \in Request /\ l.pc = "save" /\ l.name = thread[t].name /\ l.key = k
    BY DEF RequestsTyped, Request, AuthPcs
  <2>3. Auth!Become(t, l) /\ UNCHANGED <<stored, overlapped>> /\ thread[t].pc = "issue"
    BY <1>9, <2>1 DEF Auth!IssueToken, Auth!At
  <2>4. /\ thread'[t] = l /\ \A r \in Threads \ {t} : thread'[r] = thread[r]
    BY <2>2, <2>3, Becomes
  <2>5. \A x \in stored : issued'[x] = issued[x]
    BY <2>1 DEF RequestsTyped
  <2>6. \A r \in Threads : Auth!At(r, "save") => issued'[thread[r].key] = issued[thread[r].key]
    BY <2>1 DEF RequestsTyped, Auth!At
  <2> HIDE DEF l
  <2> QED
    BY <2>1, <2>2, <2>3, <2>4, <2>5, <2>6 DEF Alone, Auth!At
<1>10. ASSUME NEW t \in Threads, Auth!SaveToken(t) PROVE Alone'
  <2>1. /\ thread'[t] = Auth!Idle /\ \A r \in Threads \ {t} : thread'[r] = thread[r]
    BY <1>10, IdleRequestTyped, Becomes DEF Auth!SaveToken
  <2>2. /\ stored' = stored \cup {thread[t].key} /\ UNCHANGED <<issued, overlapped>>
        /\ thread[t].pc = "save"
    BY <1>10 DEF Auth!SaveToken, Auth!At
  <2> QED
    BY <2>1, <2>2, IdleRequestTyped DEF Alone, Auth!At
<1>11. CASE Auth!Crash
  <2>1. /\ \A t \in Threads : thread'[t] = Auth!Idle
        /\ UNCHANGED <<issued, stored, overlapped>>
    BY <1>11 DEF Auth!Crash
  <2> QED
    BY <2>1, IdleRequestTyped DEF Alone, Auth!At
<1>12. CASE UNCHANGED Auth!vars \/ \E k \in Auth!Keys : Auth!Expire(k)
  BY <1>12 DEF Auth!vars, Auth!Expire, Alone, Auth!At
<1> QED
  BY <1>1, <1>2, <1>3, <1>4, <1>5, <1>6, <1>7, <1>8, <1>9, <1>10, <1>11, <1>12 DEF Auth!Next

LEMMA AloneMeansOne == Alone => Auth!OneTokenEach
<1> SUFFICES ASSUME Alone, ~overlapped, NEW name \in Names
             PROVE  Cardinality(Auth!Tokens(name) \cap stored) <= 1
  BY DEF Auth!OneTokenEach, Auth!Cardinality, Cardinality
<1> DEFINE S == Auth!Tokens(name) \cap stored
<1>1. \A x, y \in S : x = y
  BY DEF Alone, Auth!Tokens
<1>2. S = {} \/ \E x \in S : S = {x}
  BY <1>1
<1>3. Cardinality(S) \in {0, 1}
  <2> HIDE DEF S
  <2> QED
    BY <1>2, FS_EmptySet, FS_Singleton
<1> QED
  BY <1>3

-----------------------------------------------------------------------------
(* OperationalData: mutations act on what was read after they began, for   *)
(* any sets of sources and threads.                                        *)

Answers == {Data!Failed} \cup Data!Moments
Fetches == UNION {[S -> Answers] : S \in SUBSET Data!AllSources}
Collector == [pc : {"idle", "fetch", "save", "read view", "store view", "mutate"},
          mutation : BOOLEAN, wants : SUBSET Data!AllSources, began : Data!Moments, got : Fetches,
          unsaved : SUBSET Data!AllSources]

-----------------------------------------------------------------------------
(* The invariant.                                                          *)

CollectorsTyped ==
    /\ clock \in Data!Moments
    /\ latest \in [Data!AllSources -> [observed : Data!Moments, read : Data!Moments]]
    /\ thread \in [Threads -> Collector]
    /\ \A t \in Threads : thread[t].began <= clock

\* A base is read after its collection has begun, and so is what a thread has got of it.
ReadLater ==
    /\ \A s \in Bases : latest[s].observed <= latest[s].read
    /\ \A t \in Threads : thread[t].pc \in {"fetch", "save"} =>
          \A s \in DOMAIN thread[t].got :
              Data!Got(t, s) # Data!Failed => thread[t].began <= Data!Got(t, s)

\* What a thread has stored is superseded by what was observed later only.
Superseded ==
    \A t \in Threads :
        /\ Data!At(t, "save") =>
              /\ thread[t].wants \subseteq DOMAIN thread[t].got
              /\ thread[t].unsaved \subseteq Data!Saved(t)
              /\ \A s \in (Bases \cap Data!Saved(t)) \ thread[t].unsaved :
                     thread[t].began <= latest[s].observed
        /\ thread[t].pc \in {"read view", "store view", "mutate"} =>
              \A s \in Bases \cap thread[t].wants : thread[t].began <= latest[s].observed

DataInv == CollectorsTyped /\ ReadLater /\ Superseded

LEMMA MomentsTyped ==
    ASSUME Data!OperationalDataAssumption
    PROVE  Data!Never \in Data!Moments /\ Data!Moments \subseteq Nat /\ MaxBegun \in Nat
BY DEF Data!OperationalDataAssumption, Data!Moments, Data!Never

LEMMA LaterStill ==
    ASSUME NEW a \in Nat, NEW b \in Nat, NEW c \in Nat, a <= b, b <= c
    PROVE  a <= c
OBVIOUS

LEMMA NothingFetched == <<>> \in Fetches /\ DOMAIN <<>> = {}
<1>1. <<>> \in [{} -> Answers]
  OBVIOUS
<1> QED
  BY <1>1 DEF Fetches

LEMMA IdleCollectorTyped ==
    ASSUME Data!OperationalDataAssumption
    PROVE  Data!Idle \in Collector /\ Data!Idle.pc = "idle" /\ Data!Idle.began = 0
BY MomentsTyped, NothingFetched DEF Data!Idle, Collector, Data!Never

LEMMA InitHolds ==
    ASSUME Data!OperationalDataAssumption
    PROVE  Data!Init => DataInv
<1> SUFFICES ASSUME Data!Init PROVE DataInv
  OBVIOUS
<1>1. latest \in [Data!AllSources -> [observed : Data!Moments, read : Data!Moments]]
  BY MomentsTyped DEF Data!Init, Data!None
<1>2. \A s \in Bases : latest[s].observed = latest[s].read /\ latest[s].read \in Nat
  BY MomentsTyped DEF Data!Init, Data!None, Data!AllSources
<1>3. thread \in [Threads -> Collector] /\ \A t \in Threads : thread[t] = Data!Idle
  BY IdleCollectorTyped DEF Data!Init
<1>4. CollectorsTyped
  <2>1. clock = 0 /\ clock \in Data!Moments
    BY MomentsTyped DEF Data!Init, Data!Never
  <2> QED
    BY <1>1, <1>3, <2>1, IdleCollectorTyped DEF CollectorsTyped
<1>5. ReadLater
  BY <1>2, <1>3, IdleCollectorTyped DEF ReadLater
<1>6. Superseded
  BY <1>3, IdleCollectorTyped DEF Superseded, Data!At
<1> QED
  BY <1>4, <1>5, <1>6 DEF DataInv

\* Snapshots are stored by Save alone; what else a thread does concerns itself.
LEMMA ThreadStep ==
    ASSUME Data!OperationalDataAssumption, DataInv, NEW t \in Threads, NEW l \in Collector,
           Data!Become(t, l), latest' = latest, clock' \in Data!Moments, clock <= clock',
           l.began <= clock',
           l.pc \in {"fetch", "save"} =>
              \A s \in DOMAIN l.got : l.got[s] # Data!Failed => l.began <= l.got[s],
           l.pc = "save" =>
              /\ l.wants \subseteq DOMAIN l.got
              /\ l.unsaved \subseteq {s \in l.wants : l.got[s] # Data!Failed}
              /\ \A s \in (Bases \cap l.wants) \ l.unsaved :
                    l.got[s] # Data!Failed => l.began <= latest[s].observed,
           l.pc \in {"read view", "store view", "mutate"} =>
              \A s \in Bases \cap l.wants : l.began <= latest[s].observed
    PROVE  DataInv'
<1>1. thread'[t] = l /\ \A r \in Threads \ {t} : thread'[r] = thread[r]
  BY DEF Data!Become, DataInv, CollectorsTyped
<1>2. CollectorsTyped'
  <2>1. thread' \in [Threads -> Collector]
    BY DEF Data!Become, DataInv, CollectorsTyped
  <2>2. \A r \in Threads : thread[r].began \in Nat
    BY MomentsTyped DEF DataInv, CollectorsTyped, Collector
  <2>3. clock \in Nat /\ clock' \in Nat
    BY MomentsTyped DEF DataInv, CollectorsTyped
  <2>4. \A r \in Threads : thread'[r].began <= clock'
    <3> TAKE r \in Threads
    <3>1. CASE r = t
      BY <1>1, <3>1
    <3>2. CASE r # t
      <4>1. thread'[r] = thread[r] /\ thread[r].began <= clock
        BY <1>1, <3>2 DEF DataInv, CollectorsTyped
      <4>2. thread[r].began <= clock'
        BY <2>2, <2>3, <4>1, LaterStill
      <4> QED
        BY <4>1, <4>2
    <3> QED
      BY <3>1, <3>2
  <2> QED
    BY <2>1, <2>4 DEF DataInv, CollectorsTyped
<1>3. ReadLater'
  BY <1>1 DEF DataInv, ReadLater, Data!Got
<1>4. Superseded'
  <2>1. \A r \in Threads \ {t} : thread'[r] = thread[r]
    BY <1>1
  <2>2. ASSUME NEW r \in Threads, r # t
        PROVE  /\ Data!Saved(r)' = Data!Saved(r) /\ (Data!At(r, "save")' <=> Data!At(r, "save"))
    BY <2>1, <2>2 DEF Data!Saved, Data!Got, Data!At
  <2>3. Data!Saved(t)' = {x \in l.wants : l.got[x] # Data!Failed}
    BY <1>1 DEF Data!Saved, Data!Got
  <2>4. ASSUME NEW r \in Threads
        PROVE  /\ Data!At(r, "save")' =>
                     /\ thread'[r].wants \subseteq DOMAIN thread'[r].got
                     /\ thread'[r].unsaved \subseteq Data!Saved(r)'
                     /\ \A x \in (Bases \cap Data!Saved(r)') \ thread'[r].unsaved :
                            thread'[r].began <= latest'[x].observed
               /\ thread'[r].pc \in {"read view", "store view", "mutate"} =>
                     \A x \in Bases \cap thread'[r].wants : thread'[r].began <= latest'[x].observed
    <3>1. CASE r = t
      BY <1>1, <2>3, <3>1 DEF Data!At
    <3>2. CASE r # t
      BY <2>1, <2>2, <3>2 DEF DataInv, Superseded
    <3> QED
      BY <3>1, <3>2
  <2> QED
    BY <2>4 DEF Superseded
<1> QED
  BY <1>2, <1>3, <1>4 DEF DataInv

LEMMA BeginHolds ==
    ASSUME Data!OperationalDataAssumption, DataInv, NEW t \in Threads, NEW mutation \in BOOLEAN,
           NEW wants \in SUBSET Data!AllSources, Data!Begin(t, mutation, wants)
    PROVE  DataInv'
<1> DEFINE l == [Data!Idle EXCEPT !.pc = "fetch", !.mutation = mutation, !.wants = wants,
                             !.began = clock']
<1>1. clock' \in Data!Moments /\ clock <= clock'
  BY MomentsTyped DEF Data!Begin, DataInv, CollectorsTyped, Data!Moments, Data!Never
<1>2. l \in Collector /\ l.pc = "fetch" /\ l.began = clock' /\ DOMAIN l.got = {}
  <2>1. Data!Idle \in Collector /\ DOMAIN Data!Idle.got = {}
    BY IdleCollectorTyped, NothingFetched DEF Data!Idle
  <2> QED
    BY <1>1, <2>1 DEF Collector
<1>3. Data!Become(t, l) /\ latest' = latest
  BY DEF Data!Begin
<1>4. clock' <= clock'
  BY <1>1, MomentsTyped
<1> HIDE DEF l
<1> QED
  BY <1>1, <1>2, <1>3, <1>4, ThreadStep

LEMMA FetchHolds ==
    ASSUME Data!OperationalDataAssumption, DataInv, NEW t \in Threads,
           NEW s \in Data!AllSources, Data!Fetch(t, s)
    PROVE  DataInv'
<1>1. PICK answer \in {clock, Data!Failed} :
         Data!Become(t, [thread[t] EXCEPT !.got =
             [x \in DOMAIN @ \cup {s} |-> IF x = s THEN answer ELSE @[x]]])
  BY DEF Data!Fetch
<1> DEFINE got == [x \in DOMAIN thread[t].got \cup {s} |->
                     IF x = s THEN answer ELSE thread[t].got[x]]
           l == [thread[t] EXCEPT !.got = got]
<1>2. thread[t] \in Collector /\ thread[t].got \in Fetches /\ clock \in Data!Moments
  BY DEF DataInv, CollectorsTyped, Collector
<1>3. got \in Fetches
  <2>1. PICK S \in SUBSET Data!AllSources : thread[t].got \in [S -> Answers]
    BY <1>2 DEF Fetches
  <2>2. got \in [S \cup {s} -> Answers] /\ S \cup {s} \in SUBSET Data!AllSources
    BY <1>2, <2>1 DEF Answers
  <2> QED
    BY <2>2 DEF Fetches
<1>4. l \in Collector /\ l.pc = "fetch" /\ l.began = thread[t].began /\ l.got = got
  BY <1>2, <1>3 DEF Collector, Data!Fetch, Data!At
<1>5. Data!Become(t, l) /\ latest' = latest /\ clock' = clock
  BY <1>1 DEF Data!Fetch
<1>6. clock <= clock' /\ l.began <= clock
  BY <1>2, <1>4, <1>5, MomentsTyped DEF DataInv, CollectorsTyped
<1>7. \A x \in DOMAIN l.got : l.got[x] # Data!Failed => l.began <= l.got[x]
  <2>1. \A x \in DOMAIN thread[t].got :
            thread[t].got[x] # Data!Failed => thread[t].began <= thread[t].got[x]
    BY DEF Data!Fetch, Data!At, DataInv, ReadLater, Data!Got
  <2> QED
    BY <1>4, <1>6, <2>1
<1> HIDE DEF l
<1> QED
  BY <1>2, <1>4, <1>5, <1>6, <1>7, ThreadStep

LEMMA EndFetchHolds ==
    ASSUME Data!OperationalDataAssumption, DataInv, NEW t \in Threads, Data!EndFetch(t)
    PROVE  DataInv'
<1> DEFINE l == [thread[t] EXCEPT !.pc = "save", !.unsaved = Data!Saved(t)]
<1>1. thread[t] \in Collector /\ clock \in Data!Moments /\ thread[t].began <= clock
  BY DEF DataInv, CollectorsTyped
<1>2. /\ l \in Collector /\ l.pc = "save" /\ l.began = thread[t].began /\ l.got = thread[t].got
      /\ l.wants = thread[t].wants /\ l.unsaved = {s \in l.wants : l.got[s] # Data!Failed}
  <2>1. Data!Saved(t) \in SUBSET Data!AllSources
    BY <1>1 DEF Collector, Data!Saved
  <2> QED
    BY <1>1, <2>1 DEF Collector, Data!Saved, Data!Got
<1>3. Data!Become(t, l) /\ latest' = latest /\ clock' = clock
  BY DEF Data!EndFetch
<1>4. clock <= clock'
  BY <1>1, <1>3, MomentsTyped
<1>5. l.wants \subseteq DOMAIN l.got
  BY <1>2 DEF Data!EndFetch, Data!Fetched
<1>6. \A s \in DOMAIN l.got : l.got[s] # Data!Failed => l.began <= l.got[s]
  BY <1>2 DEF Data!EndFetch, Data!At, DataInv, ReadLater, Data!Got
<1> HIDE DEF l
<1> QED
  BY <1>1, <1>2, <1>3, <1>4, <1>5, <1>6, ThreadStep

LEMMA ClockTyped ==
    ASSUME Data!OperationalDataAssumption, DataInv
    PROVE  clock \in Data!Moments /\ clock \in Nat /\ clock <= clock
BY MomentsTyped DEF DataInv, CollectorsTyped

\* A thread that has stored everything goes on, or stops.
LEMMA GoesOn ==
    ASSUME Data!OperationalDataAssumption, DataInv, NEW t \in Threads, NEW l \in Collector,
           Data!Become(t, l), latest' = latest, clock' = clock,
           l.pc \in {"read view", "store view", "mutate"},
           l.wants = thread[t].wants, l.began = thread[t].began,
           \A s \in Bases \cap thread[t].wants : thread[t].began <= latest[s].observed
    PROVE  DataInv'
<1>1. clock \in Data!Moments /\ clock <= clock'
  BY ClockTyped
<1>2. l.began <= clock'
  BY DEF DataInv, CollectorsTyped
<1> QED
  BY <1>1, <1>2, ThreadStep

LEMMA BecomesIdle ==
    ASSUME Data!OperationalDataAssumption, DataInv, NEW t \in Threads, Data!Become(t, Data!Idle),
           latest' = latest, clock' = clock
    PROVE  DataInv'
<1>1. clock \in Data!Moments /\ clock <= clock' /\ 0 <= clock'
  BY MomentsTyped DEF DataInv, CollectorsTyped
<1> QED
  BY <1>1, IdleCollectorTyped, ThreadStep
\* What is stored of a base was read after it was observed, and is never superseded by less.
LEMMA SaveHolds ==
    ASSUME Data!OperationalDataAssumption, DataInv, NEW t \in Threads,
           NEW s \in Data!AllSources, Data!Save(t, s)
    PROVE  DataInv'
<1> DEFINE began == thread[t].began
           l == [thread[t] EXCEPT !.unsaved = @ \ {s}]
<1>1. /\ thread[t] \in Collector /\ began \in Data!Moments /\ began \in Nat /\ thread[t].pc = "save"
      /\ s \in thread[t].unsaved /\ s \in thread[t].wants /\ Data!Got(t, s) # Data!Failed
      /\ s \in DOMAIN thread[t].got
  BY MomentsTyped
     DEF DataInv, CollectorsTyped, Superseded, Collector, Data!Save, Data!At, Data!Saved
<1>2. /\ l \in Collector /\ l.pc = "save" /\ l.began = began /\ l.got = thread[t].got
      /\ l.wants = thread[t].wants /\ l.unsaved = thread[t].unsaved \ {s}
  BY <1>1 DEF Collector
<1>3. /\ thread'[t] = l /\ \A r \in Threads \ {t} : thread'[r] = thread[r]
      /\ thread' \in [Threads -> Collector] /\ clock' = clock
  BY <1>1, <1>2 DEF Data!Save, Data!Become, DataInv, CollectorsTyped
<1> HIDE DEF l
<1>4. PICK read \in Data!Moments :
        /\ s \in Bases => read = Data!Got(t, s)
        /\ latest' = IF Data!Supersedes(began, s)
                     THEN [latest EXCEPT ![s] = [observed |-> began, read |-> read]]
                     ELSE latest
  <2> DEFINE blank == s \in Derived /\ Data!Got(t, Base[s]) = Data!Failed
             read == IF blank \/ Data!Got(t, s) = Data!Failed THEN Data!Never ELSE Data!Got(t, s)
  <2>1. read \in Data!Moments
    <3>1. Data!Got(t, s) \in Answers
      <4>1. PICK S \in SUBSET Data!AllSources : thread[t].got \in [S -> Answers]
        BY <1>1 DEF Collector, Fetches
      <4> QED
        BY <1>1, <4>1 DEF Data!Got
    <3> QED
      BY <1>1, <3>1, MomentsTyped DEF Answers
  <2>2. s \in Bases => read = Data!Got(t, s)
    BY <1>1 DEF Data!OperationalDataAssumption
  <2>3. latest' = IF Data!Supersedes(began, s)
                  THEN [latest EXCEPT ![s] = [observed |-> began, read |-> read]]
                  ELSE latest
    BY DEF Data!Save
  <2> HIDE DEF read
  <2> QED
    BY <2>1, <2>2, <2>3
<1>5. \A x \in Data!AllSources : latest[x].observed \in Nat /\ latest[x].read \in Nat
  BY MomentsTyped DEF DataInv, CollectorsTyped
<1>6. /\ latest' \in [Data!AllSources -> [observed : Data!Moments, read : Data!Moments]]
      /\ \A x \in Data!AllSources \ {s} : latest'[x] = latest[x]
  BY <1>1, <1>4 DEF DataInv, CollectorsTyped
<1>7. \/ latest'[s] = latest[s] /\ began <= latest[s].observed
      \/ /\ latest'[s].observed = began /\ latest[s].observed <= began
         /\ s \in Bases => latest'[s].read = Data!Got(t, s)
  <2>1. CASE Data!Supersedes(began, s)
    BY <1>1, <1>4, <1>5, <2>1 DEF DataInv, CollectorsTyped, Data!Supersedes
  <2>2. CASE ~Data!Supersedes(began, s)
    BY <1>1, <1>4, <1>5, <2>2 DEF DataInv, CollectorsTyped, Data!Supersedes
  <2> QED
    BY <2>1, <2>2
<1>8. /\ \A x \in Data!AllSources : latest[x].observed <= latest'[x].observed
      /\ began <= latest'[s].observed
  BY <1>1, <1>5, <1>6, <1>7
<1>9. CollectorsTyped'
  <2>1. \A r \in Threads : thread'[r].began <= clock
    BY <1>2, <1>3 DEF DataInv, CollectorsTyped
  <2> QED
    BY <1>3, <1>6, <2>1 DEF DataInv, CollectorsTyped
<1>10. ReadLater'
  <2>1. s \in Bases => began <= Data!Got(t, s)
    BY <1>1 DEF DataInv, ReadLater
  <2>2. \A x \in Bases : latest'[x].observed <= latest'[x].read
    BY <1>6, <1>7, <2>1 DEF DataInv, ReadLater, Data!AllSources
  <2> QED
    BY <1>1, <1>2, <1>3, <2>2 DEF DataInv, ReadLater, Data!Got
<1>11. Superseded'
  <2>1. ASSUME NEW r \in Threads, NEW x \in Data!AllSources, thread[r].began <= latest[x].observed
        PROVE  thread[r].began <= latest'[x].observed
    <3>1. thread[r].began \in Nat /\ latest[x].observed \in Nat /\ latest'[x].observed \in Nat
      BY <1>5, <1>6, MomentsTyped DEF DataInv, CollectorsTyped, Collector
    <3> QED
      BY <1>8, <2>1, <3>1, LaterStill
  <2>2. ASSUME NEW r \in Threads, r # t
        PROVE  /\ Data!At(r, "save")' =>
                    /\ thread'[r].wants \subseteq DOMAIN thread'[r].got
                    /\ thread'[r].unsaved \subseteq Data!Saved(r)'
                    /\ \A x \in (Bases \cap Data!Saved(r)') \ thread'[r].unsaved :
                          thread'[r].began <= latest'[x].observed
               /\ thread'[r].pc \in {"read view", "store view", "mutate"} =>
                    \A x \in Bases \cap thread'[r].wants : thread'[r].began <= latest'[x].observed
    <3>1. /\ thread'[r] = thread[r] /\ Data!Saved(r)' = Data!Saved(r)
          /\ Data!At(r, "save")' <=> Data!At(r, "save")
      BY <1>3, <2>2 DEF Data!Saved, Data!Got, Data!At
    <3>2. Bases \subseteq Data!AllSources
      BY DEF Data!AllSources
    <3> QED
      BY <2>1, <3>1, <3>2 DEF DataInv, Superseded
  <2>3. Data!Saved(t)' = Data!Saved(t)
    BY <1>2, <1>3 DEF Data!Saved, Data!Got
  <2>4. \A x \in (Bases \cap Data!Saved(t)) \ l.unsaved : began <= latest'[x].observed
    <3> TAKE x \in (Bases \cap Data!Saved(t)) \ l.unsaved
    <3>1. CASE x = s
      BY <1>8, <3>1
    <3>2. CASE x # s
      <4>1. began <= latest[x].observed
        BY <1>1, <1>2, <3>2 DEF DataInv, Superseded, Data!At
      <4> QED
        BY <2>1, <4>1 DEF Data!AllSources
    <3> QED
      BY <3>1, <3>2
  <2>5. l.wants \subseteq DOMAIN l.got /\ l.unsaved \subseteq Data!Saved(t)
    BY <1>1, <1>2 DEF DataInv, Superseded, Data!At
  <2> QED
    BY <1>2, <1>3, <2>2, <2>3, <2>4, <2>5 DEF Superseded, Data!At
<1> QED
  BY <1>9, <1>10, <1>11 DEF DataInv
LEMMA EndSaveHolds ==
    ASSUME Data!OperationalDataAssumption, DataInv, NEW t \in Threads, Data!EndSave(t)
    PROVE  DataInv'
<1>1. CASE thread[t].mutation /\ Data!Clean(t)
  <2> DEFINE pc == IF thread[t].wants = Data!AllSources THEN "read view" ELSE "mutate"
             l == [thread[t] EXCEPT !.pc = pc]
  <2>1. thread[t] \in Collector
    BY DEF DataInv, CollectorsTyped
  <2>2. /\ l \in Collector /\ l.pc \in {"read view", "store view", "mutate"}
        /\ l.wants = thread[t].wants /\ l.began = thread[t].began
    BY <2>1 DEF Collector
  <2>3. Data!Become(t, l) /\ latest' = latest /\ clock' = clock
    BY <1>1 DEF Data!EndSave, Data!Goto
  <2>4. \A s \in Bases \cap thread[t].wants : thread[t].began <= latest[s].observed
    BY <1>1 DEF Data!EndSave, Data!At, Data!Clean, Data!Saved, DataInv, Superseded
  <2> HIDE DEF l
  <2> QED
    BY <2>2, <2>3, <2>4, GoesOn
<1>2. CASE ~(thread[t].mutation /\ Data!Clean(t))
  BY <1>2, BecomesIdle DEF Data!EndSave
<1> QED
  BY <1>1, <1>2

LEMMA ReadForViewHolds ==
    ASSUME Data!OperationalDataAssumption, DataInv, NEW t \in Threads, Data!ReadForView(t)
    PROVE  DataInv'
<1> DEFINE got == [s \in {Viewed} |-> latest[s].read]
           l == [thread[t] EXCEPT !.pc = "store view", !.got = got]
<1>1. got \in Fetches
  <2>1. Viewed \in Data!AllSources
    BY DEF Data!OperationalDataAssumption, Data!AllSources
  <2>2. got \in [{Viewed} -> Answers]
    BY <2>1 DEF DataInv, CollectorsTyped, Answers
  <2> QED
    BY <2>1, <2>2 DEF Fetches
<1>2. /\ l \in Collector /\ l.pc \in {"read view", "store view", "mutate"}
      /\ l.wants = thread[t].wants /\ l.began = thread[t].began
  <2>1. thread[t] \in Collector
    BY DEF DataInv, CollectorsTyped
  <2> HIDE DEF got
  <2> QED
    BY <1>1, <2>1 DEF Collector
<1>3. Data!Become(t, l) /\ latest' = latest /\ clock' = clock
  BY DEF Data!ReadForView
<1>4. \A s \in Bases \cap thread[t].wants : thread[t].began <= latest[s].observed
  BY DEF Data!ReadForView, Data!At, DataInv, Superseded
<1> HIDE DEF l
<1> QED
  BY <1>2, <1>3, <1>4, GoesOn

LEMMA StoreViewHolds ==
    ASSUME Data!OperationalDataAssumption, DataInv, NEW t \in Threads, Data!StoreView(t)
    PROVE  DataInv'
<1> DEFINE l == [thread[t] EXCEPT !.pc = "mutate"]
<1>1. /\ l \in Collector /\ l.pc \in {"read view", "store view", "mutate"}
      /\ l.wants = thread[t].wants /\ l.began = thread[t].began
  BY DEF DataInv, CollectorsTyped, Collector
<1>2. Data!Become(t, l) /\ latest' = latest /\ clock' = clock
  BY DEF Data!StoreView, Data!Goto
<1>3. \A s \in Bases \cap thread[t].wants : thread[t].began <= latest[s].observed
  BY DEF Data!StoreView, Data!At, DataInv, Superseded
<1> HIDE DEF l
<1> QED
  BY <1>1, <1>2, <1>3, GoesOn

LEMMA NextHolds ==
    ASSUME Data!OperationalDataAssumption
    PROVE  DataInv /\ [Data!Next]_Data!vars => DataInv'
<1> SUFFICES ASSUME DataInv, [Data!Next]_Data!vars PROVE DataInv'
  OBVIOUS
<1>1. ASSUME NEW t \in Threads, NEW mutation \in BOOLEAN,
             Data!Begin(t, mutation, Data!AllSources)
      PROVE  DataInv'
  BY <1>1, BeginHolds
<1>2. ASSUME NEW t \in Threads, Data!Begin(t, TRUE, Quick) PROVE DataInv'
  <2>1. Quick \in SUBSET Data!AllSources
    BY DEF Data!OperationalDataAssumption, Data!AllSources
  <2> QED
    BY <1>2, <2>1, BeginHolds
<1>3. ASSUME NEW t \in Threads, NEW s \in Data!AllSources, Data!Fetch(t, s) PROVE DataInv'
  BY <1>3, FetchHolds
<1>4. ASSUME NEW t \in Threads, NEW s \in Data!AllSources, Data!Save(t, s) PROVE DataInv'
  BY <1>4, SaveHolds
<1>5. ASSUME NEW t \in Threads, Data!EndFetch(t) \/ Data!EndSave(t) PROVE DataInv'
  BY <1>5, EndFetchHolds, EndSaveHolds
<1>6. ASSUME NEW t \in Threads, Data!ReadForView(t) \/ Data!StoreView(t) PROVE DataInv'
  BY <1>6, ReadForViewHolds, StoreViewHolds
<1>7. ASSUME NEW t \in Threads, Data!Mutate(t) \/ Data!Stops(t) PROVE DataInv'
  BY <1>7, BecomesIdle DEF Data!Mutate, Data!Stops
<1>8. CASE Data!ViewerReads \/ Data!ViewerStores \/ UNCHANGED Data!vars
  <2>1. UNCHANGED <<clock, latest, thread>>
    BY <1>8 DEF Data!ViewerReads, Data!ViewerStores, Data!vars
  <2> QED
    BY <2>1 DEF DataInv, CollectorsTyped, ReadLater, Superseded, Data!Saved, Data!Got, Data!At
<1> QED
  BY <1>1, <1>2, <1>3, <1>4, <1>5, <1>6, <1>7, <1>8 DEF Data!Next

LEMMA DataMeansFresh ==
    ASSUME Data!OperationalDataAssumption, DataInv
    PROVE  Data!MutationsReadFresh
<1> SUFFICES ASSUME NEW t \in Threads, Data!At(t, "mutate"),
                    NEW s \in Bases \cap thread[t].wants
             PROVE  latest[s].read >= thread[t].began
  BY DEF Data!MutationsReadFresh
<1>1. thread[t].began <= latest[s].observed /\ latest[s].observed <= latest[s].read
  BY DEF DataInv, ReadLater, Superseded, Data!At
<1>2. thread[t].began \in Nat /\ latest[s].observed \in Nat /\ latest[s].read \in Nat
  BY MomentsTyped DEF DataInv, CollectorsTyped, Collector, Data!AllSources
<1> QED
  BY <1>1, <1>2

-----------------------------------------------------------------------------
(* KeyDelivery: a key goes to the user it is named after, and its quota is *)
(* reset once, for any sets of users, groups and keys, and any number of   *)
(* threads, requests and edits.                                            *)

Key == [named : Del!Addresses, owner : Users, group : Groups \cup {Del!NoGroup}, resets : Nat]
Item == [key : Nat, named : Del!Addresses, owner : Users, group : Groups \cup {Del!NoGroup}]
Handover == [key : Nat, to : Users, group : Groups]
Job == [pc : {"idle", "target", "create", "list", "plan", "move"},
        named : Del!Addresses \cup {"none"}, target : Del!Addresses \cup {"none"},
        platform : Del!AllPlatforms \cup {"none"}, owner : Users \cup {Del!Nobody},
        group : Groups \cup {Del!NoGroup}, sources : SUBSET Users,
        seen : SUBSET Item, todo : SUBSET Handover]

-----------------------------------------------------------------------------
(* The invariant.                                                          *)

DeliveryTyped ==
    /\ users \subseteq Users
    /\ grants \in [Users -> SUBSET Groups]
    /\ keys \in Seq(Key)
    /\ thread \in [Threads -> Job]
    /\ \A t \in Threads :
          /\ thread[t].pc \in {"target", "create"} => thread[t].named \in Del!Addresses
          /\ Del!At(t, "create") => thread[t].owner \in Users

\* The names of the keys never change, so what has been read of them is true, and a key is
\* handed to a user with the address in its name.
NamesKept ==
    \A t \in Threads :
        /\ Del!At(t, "plan") => \A i \in thread[t].seen :
              i.key \in DOMAIN keys /\ i.named = keys[i.key].named
        /\ Del!At(t, "move") => \A d \in thread[t].todo :
              d.key \in DOMAIN keys /\ Address[d.to] = keys[d.key].named

\* Unless users or groups have changed since, the new owners may use the groups.
GrantsKept ==
    ~stale => \A t \in Threads : Del!At(t, "move") =>
        \A d \in thread[t].todo : d.group \in grants[d.to]

\* A key whose quota was reset is with a user it is named after.
ResetIsDelivered ==
    \A k \in DOMAIN keys : keys[k].resets = 0 \/ Address[keys[k].owner] = keys[k].named

\* While operations have not overlapped, what a transfer has read of the keys is true, and
\* it hands a key over once.
AloneSeesTrue ==
    ~overlapped =>
        /\ \A s, t \in Threads : ~Del!At(s, "idle") /\ ~Del!At(t, "idle") => s = t
        /\ \A k \in DOMAIN keys : keys[k].resets <= 1
        /\ \A t \in Threads : Del!At(t, "plan") => \A i \in thread[t].seen :
              /\ i.owner = keys[i.key].owner /\ i.owner \in users
              /\ i.group = keys[i.key].group
        /\ \A t \in Threads : Del!At(t, "plan") => \A i, j \in thread[t].seen :
              i.key = j.key => i = j
        /\ \A t \in Threads : Del!At(t, "move") => \A d \in thread[t].todo :
              /\ keys[d.key].resets = 0
              /\ keys[d.key].group # Del!NoGroup =>
                    Platform[d.group] = Platform[keys[d.key].group]
        /\ \A t \in Threads : Del!At(t, "move") => \A c, d \in thread[t].todo :
              c.key = d.key => c = d

DeliveryInv ==
    DeliveryTyped /\ NamesKept /\ GrantsKept /\ ResetIsDelivered /\ AloneSeesTrue

LEMMA IdleJobTyped ==
    Del!Idle \in Job /\ Del!Idle.pc = "idle" /\ Del!Idle.seen = {} /\ Del!Idle.todo = {}
BY DEF Del!Idle, Job

LEMMA DeliveryInit ==
    ASSUME Del!KeyDeliveryAssumption
    PROVE  Del!Init => DeliveryInv
<1> SUFFICES ASSUME Del!Init PROVE DeliveryInv
  OBVIOUS
<1>1. \A t \in Threads : thread[t] = Del!Idle
  BY DEF Del!Init
<1>2. users \subseteq Users /\ grants \in [Users -> SUBSET Groups] /\ thread \in [Threads -> Job]
  BY IdleJobTyped DEF Del!Init, Del!KeyDeliveryAssumption
<1> DEFINE First == [named : Del!Addresses, owner : Users, group : Groups \cup {Del!NoGroup},
                     resets : {0}]
<1>3. keys \in Seq(First)
  BY DEF Del!Init, Del!KeyDeliveryAssumption
<1>4. keys \in Seq(Key) /\ \A k \in DOMAIN keys : keys[k].resets = 0
  <2>1. \A r \in First : r \in Key /\ r.resets = 0
    BY DEF Key
  <2> HIDE DEF First
  <2>2. Len(keys) \in Nat /\ keys \in [1..Len(keys) -> First]
    BY <1>3
  <2> QED
    BY <2>1, <2>2, SeqDef
<1>5. DeliveryTyped
  BY <1>1, <1>2, <1>4, IdleJobTyped DEF DeliveryTyped, Del!At
<1>6. NamesKept /\ GrantsKept /\ ResetIsDelivered /\ AloneSeesTrue
  BY <1>1, <1>4, IdleJobTyped DEF NamesKept, GrantsKept, ResetIsDelivered, AloneSeesTrue, Del!At
<1> QED
  BY <1>5, <1>6 DEF DeliveryInv

LEMMA JobBecomes ==
    ASSUME DeliveryTyped, NEW t \in Threads, NEW l \in Job, Del!Become(t, l)
    PROVE  /\ thread' \in [Threads -> Job] /\ thread'[t] = l
           /\ \A r \in Threads \ {t} : thread'[r] = thread[r]
BY DEF Del!Become, DeliveryTyped

-----------------------------------------------------------------------------
(* Requests begin, and end.                                                *)

\* A request has read nothing yet; nobody else was at work if operations do not overlap.
LEMMA RequestBegins ==
    ASSUME DeliveryInv, NEW t \in Threads, NEW l \in Job, Del!Begin(t, l),
           l.pc \in {"target", "list"}, l.pc = "target" => l.named \in Del!Addresses,
           UNCHANGED <<users, grants, keys>>
    PROVE  DeliveryInv'
<1>1. /\ thread' \in [Threads -> Job] /\ thread'[t] = l
      /\ \A r \in Threads \ {t} : thread'[r] = thread[r]
  BY JobBecomes DEF Del!Begin, DeliveryInv
<1>2. DeliveryTyped'
  BY <1>1 DEF DeliveryInv, DeliveryTyped, Del!At
<1>3. NamesKept'
  BY <1>1 DEF DeliveryInv, NamesKept, Del!At
<1>4. ResetIsDelivered'
  BY DEF DeliveryInv, ResetIsDelivered
<1>5. GrantsKept'
  <2> SUFFICES ASSUME ~stale', NEW r \in Threads, Del!At(r, "move")'
               PROVE  \A d \in thread'[r].todo : d.group \in grants[d.to]
    BY DEF GrantsKept
  <2>1. r # t /\ thread'[r] = thread[r]
    BY <1>1 DEF Del!At
  <2>2. \E s \in Threads : ~Del!At(s, "idle")
    BY <2>1 DEF Del!At
  <2>3. ~stale
    BY <2>2 DEF Del!Begin
  <2> QED
    BY <2>1, <2>3 DEF DeliveryInv, GrantsKept, Del!At
<1>6. AloneSeesTrue'
  <2> SUFFICES ASSUME ~overlapped' PROVE AloneSeesTrue'
    BY DEF AloneSeesTrue
  <2>1. ~overlapped /\ \A r \in Threads : Del!At(r, "idle")
    BY DEF Del!Begin
  <2>2. \A r \in Threads \ {t} : Del!At(r, "idle")'
    BY <1>1, <2>1 DEF Del!At
  <2> QED
    BY <1>1, <2>1, <2>2 DEF DeliveryInv, AloneSeesTrue, Del!At
<1> QED
  BY <1>2, <1>3, <1>4, <1>5, <1>6 DEF DeliveryInv

\* A step after which the thread has read, and will hand over, less than before.
LEMMA JobNarrows ==
    ASSUME DeliveryInv, NEW t \in Threads, NEW l \in Job, Del!Become(t, l), ~Del!At(t, "idle"),
           l.pc \notin {"target", "plan"},
           l.pc = "create" => l.named \in Del!Addresses /\ l.owner \in Users,
           l.pc = "move" => Del!At(t, "move") /\ l.todo \subseteq thread[t].todo,
           UNCHANGED <<users, grants, keys, overlapped, stale>>
    PROVE  DeliveryInv'
<1>1. /\ thread' \in [Threads -> Job] /\ thread'[t] = l
      /\ \A r \in Threads \ {t} : thread'[r] = thread[r]
  BY JobBecomes DEF DeliveryInv
<1>2. DeliveryTyped'
  BY <1>1 DEF DeliveryInv, DeliveryTyped, Del!At
<1>3. NamesKept'
  BY <1>1 DEF DeliveryInv, NamesKept, Del!At
<1>4. ResetIsDelivered'
  BY DEF DeliveryInv, ResetIsDelivered
<1>5. GrantsKept'
  BY <1>1 DEF DeliveryInv, GrantsKept, Del!At
<1>6. AloneSeesTrue'
  <2>1. \A r \in Threads : ~Del!At(r, "idle")' => ~Del!At(r, "idle")
    BY <1>1 DEF Del!At
  <2> QED
    BY <1>1, <2>1 DEF DeliveryInv, AloneSeesTrue, Del!At
<1> QED
  BY <1>2, <1>3, <1>4, <1>5, <1>6 DEF DeliveryInv

LEMMA ResolveTargetHolds ==
    ASSUME DeliveryInv, NEW t \in Threads, Del!ResolveTarget(t)
    PROVE  DeliveryInv'
<1> DEFINE l == thread[t]
<1>1. l \in Job /\ l.pc = "target" /\ l.named \in Del!Addresses
  BY DEF Del!ResolveTarget, Del!At, DeliveryInv, DeliveryTyped
<1>2. UNCHANGED <<users, grants, keys, overlapped, stale>> /\ ~Del!At(t, "idle")
  BY DEF Del!ResolveTarget, Del!At
<1>3. CASE Del!Become(t, Del!Idle)
  <2>1. Del!Idle.pc \notin {"target", "plan", "create", "move"}
    BY IdleJobTyped
  <2> QED
    BY <1>2, <1>3, <2>1, IdleJobTyped, JobNarrows
<1>4. ASSUME NEW u \in users, NEW g \in grants[u],
             Del!Become(t, [l EXCEPT !.owner = u, !.group = g, !.pc = "create"])
      PROVE  DeliveryInv'
  <2> DEFINE n == [l EXCEPT !.owner = u, !.group = g, !.pc = "create"]
  <2>1. u \in Users /\ g \in Groups
    BY DEF DeliveryInv, DeliveryTyped
  <2>2. n \in Job /\ n.pc = "create" /\ n.owner = u /\ n.named = l.named
    <3> HIDE DEF l
    <3> QED
      BY <1>1, <2>1 DEF Job
  <2> HIDE DEF n
  <2> QED
    BY <1>1, <1>2, <1>4, <2>1, <2>2, JobNarrows DEF n
<1> DEFINE found == Del!UsersOf(IF l.target = "none" THEN l.named ELSE l.target)
           owners == IF Del!Cardinality(found) = 1 THEN found
                     ELSE IF l.target = "none" THEN {Admin} \cap users ELSE {}
<1>5. owners \subseteq users
  BY DEF Del!UsersOf
<1>6. \/ \E u \in owners : \E g \in Del!GroupsOf(u, l.platform) :
            Del!Become(t, [l EXCEPT !.owner = u, !.group = g, !.pc = "create"])
      \/ Del!Become(t, Del!Idle)
  BY DEF Del!ResolveTarget
<1> HIDE DEF owners
<1>7. \A u : Del!GroupsOf(u, l.platform) \subseteq grants[u]
  BY DEF Del!GroupsOf
<1> QED
  BY <1>3, <1>4, <1>5, <1>6, <1>7

LEMMA CreateKeyHolds ==
    ASSUME DeliveryInv, NEW t \in Threads, Del!CreateKey(t)
    PROVE  DeliveryInv'
<1> DEFINE new == [named |-> thread[t].named, owner |-> thread[t].owner,
                   group |-> thread[t].group, resets |-> 0]
<1>1. new \in Key /\ new.resets = 0
  BY DEF Del!CreateKey, Del!At, DeliveryInv, DeliveryTyped, Job, Key
<1> HIDE DEF new
<1>2. /\ keys' \in Seq(Key) /\ DOMAIN keys' = DOMAIN keys \cup {Len(keys) + 1}
      /\ \A k \in DOMAIN keys : keys'[k] = keys[k]
      /\ keys'[Len(keys) + 1] = new
  BY <1>1 DEF Del!CreateKey, DeliveryInv, DeliveryTyped, new
<1>3. /\ thread' \in [Threads -> Job] /\ thread'[t] = Del!Idle
      /\ \A r \in Threads \ {t} : thread'[r] = thread[r]
  BY IdleJobTyped, JobBecomes DEF DeliveryInv, Del!CreateKey
<1>4. UNCHANGED <<users, grants, overlapped, stale>> /\ ~Del!At(t, "idle")
  BY DEF Del!CreateKey, Del!At
<1>5. \A r \in Threads : ~Del!At(r, "idle")' => ~Del!At(r, "idle") /\ thread'[r] = thread[r]
  BY <1>3, IdleJobTyped DEF Del!At
<1>6. DeliveryTyped'
  BY <1>2, <1>3, <1>4, IdleJobTyped DEF DeliveryInv, DeliveryTyped, Del!At
<1>7. NamesKept'
  BY <1>2, <1>3, IdleJobTyped DEF DeliveryInv, NamesKept, Del!At
<1>8. ResetIsDelivered'
  BY <1>1, <1>2 DEF DeliveryInv, ResetIsDelivered
<1>9. GrantsKept'
  BY <1>3, <1>4, IdleJobTyped DEF DeliveryInv, GrantsKept, Del!At
<1>10. AloneSeesTrue'
  <2> SUFFICES ASSUME ~overlapped' PROVE AloneSeesTrue'
    BY DEF AloneSeesTrue
  <2>1. \A r \in Threads : Del!At(r, "idle")'
    BY <1>3, <1>4, IdleJobTyped DEF DeliveryInv, AloneSeesTrue, Del!At
  <2>2. \A k \in DOMAIN keys' : keys'[k].resets <= 1
    BY <1>1, <1>2, <1>4 DEF DeliveryInv, AloneSeesTrue
  <2> QED
    BY <2>1, <2>2 DEF AloneSeesTrue, Del!At
<1> QED
  BY <1>6, <1>7, <1>8, <1>9, <1>10 DEF DeliveryInv

-----------------------------------------------------------------------------
(* Transfers.                                                              *)

LEMMA ListKeysHolds ==
    ASSUME DeliveryInv, NEW t \in Threads, Del!ListKeys(t)
    PROVE  DeliveryInv'
<1> DEFINE mine == {k \in DOMAIN keys : keys[k].owner \in thread[t].sources \cap users}
           item(k) == [key |-> k, named |-> keys[k].named, owner |-> keys[k].owner,
                       group |-> keys[k].group]
           seen == {item(k) : k \in mine}
           l == [thread[t] EXCEPT !.pc = "plan", !.seen = seen]
<1>1. keys \in Seq(Key) /\ thread[t] \in Job /\ Del!At(t, "list")
  BY DEF DeliveryInv, DeliveryTyped, Del!ListKeys
<1>2. \A k \in DOMAIN keys : keys[k] \in Key /\ k \in Nat
  BY <1>1
<1>3. \A k \in DOMAIN keys : item(k) \in Item
  BY <1>2 DEF Item, Key
<1>4. \A i \in seen :
          /\ i \in Item /\ i.key \in DOMAIN keys
          /\ i.named = keys[i.key].named /\ i.owner = keys[i.key].owner /\ i.owner \in users
          /\ i.group = keys[i.key].group
  BY <1>3
<1>5. \A i, j \in seen : i.key = j.key => i = j
  OBVIOUS
<1>6. Del!Become(t, l) /\ UNCHANGED <<users, grants, keys, overlapped, stale>>
  BY DEF Del!ListKeys
<1> HIDE DEF mine, item
<1>7. l \in Job /\ l.pc = "plan" /\ l.seen = seen
  <2>1. seen \in SUBSET Item
    BY <1>4
  <2> HIDE DEF seen
  <2> QED
    BY <1>1, <2>1 DEF Job
<1> HIDE DEF l, seen
<1>8. /\ thread' \in [Threads -> Job] /\ thread'[t] = l
      /\ \A r \in Threads \ {t} : thread'[r] = thread[r]
  BY <1>6, <1>7, JobBecomes DEF DeliveryInv
<1>9. DeliveryTyped'
  BY <1>6, <1>7, <1>8 DEF DeliveryInv, DeliveryTyped, Del!At
<1>10. NamesKept'
  BY <1>4, <1>6, <1>7, <1>8 DEF DeliveryInv, NamesKept, Del!At
<1>11. GrantsKept' /\ ResetIsDelivered'
  BY <1>6, <1>7, <1>8 DEF DeliveryInv, GrantsKept, ResetIsDelivered, Del!At
<1>12. AloneSeesTrue'
  <2> SUFFICES ASSUME ~overlapped' PROVE AloneSeesTrue'
    BY DEF AloneSeesTrue
  <2>1. ~overlapped /\ ~Del!At(t, "idle")
    BY <1>1, <1>6 DEF Del!At
  <2>2. \A r \in Threads \ {t} : Del!At(r, "idle") /\ Del!At(r, "idle")'
    BY <1>8, <2>1 DEF DeliveryInv, AloneSeesTrue, Del!At
  <2>3. \A k \in DOMAIN keys' : keys'[k].resets <= 1
    BY <1>6, <2>1 DEF DeliveryInv, AloneSeesTrue
  <2>4. \A r \in Threads : Del!At(r, "plan")' => thread'[r].seen = seen
    BY <1>7, <1>8, <2>2 DEF Del!At
  <2>5. \A r \in Threads : ~Del!At(r, "move")'
    BY <1>7, <1>8, <2>2 DEF Del!At
  <2>6. \A r, s \in Threads : ~Del!At(r, "idle")' /\ ~Del!At(s, "idle")' => r = s
    BY <2>2
  <2> QED
    BY <1>4, <1>5, <1>6, <2>3, <2>4, <2>5, <2>6 DEF AloneSeesTrue
<1> QED
  BY <1>9, <1>10, <1>11, <1>12 DEF DeliveryInv

\* A key is planned to go to the one user with the address in its name.
LEMMA DeliveryOf ==
    ASSUME DeliveryTyped, NEW i \in Item, Del!Deliverable(i)
    PROVE  LET d == Del!Delivery(i)
           IN  /\ d \in Handover /\ d.key = i.key
               /\ Address[d.to] = i.named
               /\ d.group \in grants[d.to]
               /\ i.group # Del!NoGroup => Platform[d.group] = Platform[i.group]
               /\ i.owner \in users => Address[i.owner] # i.named
<1>1. PICK u \in users : /\ Del!UsersOf(i.named) = {u}
                         /\ Del!Landings(i, u) # {} /\ i.owner # u
  BY DEF Del!Deliverable, Del!Movable
<1>2. u \in Users /\ Address[u] = i.named /\ grants[u] \subseteq Groups
  BY <1>1 DEF Del!UsersOf, DeliveryTyped
<1>3. (CHOOSE v \in Del!UsersOf(i.named) : TRUE) = u
  BY <1>1
<1>4. PICK g : g = CHOOSE h \in Del!Landings(i, u) : TRUE
  OBVIOUS
<1>5. g \in Del!Landings(i, u)
  BY <1>1, <1>4
<1>6. g \in grants[u] /\ (i.group # Del!NoGroup => Platform[g] = Platform[i.group])
  BY <1>5 DEF Del!Landings, Del!GroupsOf
<1>7. Del!Delivery(i) = [key |-> i.key, to |-> u, group |-> g]
  BY <1>3, <1>4 DEF Del!Delivery
<1>8. i.owner \in users => Address[i.owner] # i.named
  <2> SUFFICES ASSUME i.owner \in users, Address[i.owner] = i.named PROVE FALSE
    OBVIOUS
  <2>1. i.owner \in Del!UsersOf(i.named)
    BY DEF Del!UsersOf
  <2> QED
    BY <1>1, <2>1
<1> QED
  BY <1>2, <1>6, <1>7, <1>8 DEF Handover, Item

LEMMA PlanHolds ==
    ASSUME DeliveryInv, NEW t \in Threads, Del!Plan(t)
    PROVE  DeliveryInv'
<1> DEFINE seen == thread[t].seen
           todo == {Del!Delivery(i) : i \in {j \in seen : Del!Deliverable(j)}}
           l == [thread[t] EXCEPT !.pc = "move", !.seen = {}, !.todo = todo]
<1>1. keys \in Seq(Key) /\ thread[t] \in Job /\ Del!At(t, "plan") /\ seen \subseteq Item
  BY DEF DeliveryInv, DeliveryTyped, Del!Plan, Job
<1>2. Del!Become(t, l) /\ UNCHANGED <<users, grants, keys, overlapped, stale>>
  BY DEF Del!Plan
<1>3. \A d \in todo : \E i \in seen :
          /\ d \in Handover /\ d.key = i.key /\ Address[d.to] = i.named
          /\ d.group \in grants[d.to] /\ d = Del!Delivery(i)
          /\ i.group # Del!NoGroup => Platform[d.group] = Platform[i.group]
          /\ i.owner \in users => Address[i.owner] # i.named
  BY <1>1, DeliveryOf DEF DeliveryInv
<1> HIDE DEF todo
<1>4. l \in Job /\ l.pc = "move" /\ l.todo = todo
  <2>1. todo \in SUBSET Handover
    BY <1>3
  <2> QED
    BY <1>1, <2>1 DEF Job
<1> HIDE DEF l, seen
<1>5. /\ thread' \in [Threads -> Job] /\ thread'[t] = l
      /\ \A r \in Threads \ {t} : thread'[r] = thread[r]
  BY <1>2, <1>4, JobBecomes DEF DeliveryInv
<1>6. DeliveryTyped'
  BY <1>2, <1>4, <1>5 DEF DeliveryInv, DeliveryTyped, Del!At
<1>7. \A i \in seen : i.key \in DOMAIN keys /\ i.named = keys[i.key].named
  BY <1>1 DEF DeliveryInv, NamesKept, Del!At, seen
<1>8. NamesKept'
  <2>1. \A d \in todo : d.key \in DOMAIN keys /\ Address[d.to] = keys[d.key].named
    BY <1>3, <1>7
  <2> QED
    BY <1>2, <1>4, <1>5, <2>1 DEF DeliveryInv, NamesKept, Del!At
<1>9. GrantsKept' /\ ResetIsDelivered'
  <2>1. \A d \in todo : d.group \in grants[d.to]
    BY <1>3
  <2> QED
    BY <1>2, <1>4, <1>5, <2>1 DEF DeliveryInv, GrantsKept, ResetIsDelivered, Del!At
<1>10. AloneSeesTrue'
  <2> SUFFICES ASSUME ~overlapped' PROVE AloneSeesTrue'
    BY DEF AloneSeesTrue
  <2>1. ~overlapped /\ ~Del!At(t, "idle")
    BY <1>1, <1>2 DEF Del!At
  <2>2. \A r \in Threads \ {t} : Del!At(r, "idle") /\ Del!At(r, "idle")'
    BY <1>5, <2>1 DEF DeliveryInv, AloneSeesTrue, Del!At
  <2>3. \A k \in DOMAIN keys' : keys'[k].resets <= 1
    BY <1>2, <2>1 DEF DeliveryInv, AloneSeesTrue
  <2>4. \A i \in seen : i.owner = keys[i.key].owner /\ i.owner \in users
                         /\ i.group = keys[i.key].group
    BY <1>1, <2>1 DEF DeliveryInv, AloneSeesTrue, seen
  <2>5. \A i, j \in seen : i.key = j.key => i = j
    BY <1>1, <2>1 DEF DeliveryInv, AloneSeesTrue, seen
  <2>6. \A d \in todo : /\ keys[d.key].resets = 0
                        /\ keys[d.key].group # Del!NoGroup =>
                              Platform[d.group] = Platform[keys[d.key].group]
    <3> SUFFICES ASSUME NEW d \in todo
                 PROVE  /\ keys[d.key].resets = 0
                        /\ keys[d.key].group # Del!NoGroup =>
                              Platform[d.group] = Platform[keys[d.key].group]
      OBVIOUS
    <3>1. PICK i \in seen :
              /\ d.key = i.key
              /\ i.group # Del!NoGroup => Platform[d.group] = Platform[i.group]
              /\ i.owner \in users => Address[i.owner] # i.named
      BY <1>3
    <3>2. Address[keys[i.key].owner] # keys[i.key].named
      BY <1>7, <2>4, <3>1
    <3> QED
      BY <1>7, <2>4, <3>1, <3>2 DEF DeliveryInv, ResetIsDelivered
  <2>7. \A c, d \in todo : c.key = d.key => c = d
    BY <1>3, <2>5
  <2>8. \A r \in Threads : Del!At(r, "move")' => thread'[r].todo = todo
    BY <1>4, <1>5, <2>2 DEF Del!At
  <2>9. \A r \in Threads : ~Del!At(r, "plan")'
    BY <1>4, <1>5, <2>2 DEF Del!At
  <2>10. \A r, s \in Threads : ~Del!At(r, "idle")' /\ ~Del!At(s, "idle")' => r = s
    BY <2>2
  <2> QED
    BY <1>2, <2>3, <2>6, <2>7, <2>8, <2>9, <2>10 DEF AloneSeesTrue
<1> QED
  BY <1>6, <1>8, <1>9, <1>10 DEF DeliveryInv

LEMMA MoveKeyHolds ==
    ASSUME DeliveryInv, NEW t \in Threads, NEW item \in thread[t].todo, Del!MoveKey(t, item)
    PROVE  DeliveryInv'
<1> DEFINE todo == thread[t].todo \ {item}
           l == [thread[t] EXCEPT !.todo = todo]
           moved == [named |-> keys[item.key].named, owner |-> item.to, group |-> item.group,
                     resets |-> keys[item.key].resets + 1]
<1>1. keys \in Seq(Key) /\ thread[t] \in Job /\ Del!At(t, "move") /\ item \in Handover
  BY DEF DeliveryInv, DeliveryTyped, Del!MoveKey, Job
<1>2. Del!Become(t, l) /\ UNCHANGED <<users, grants, overlapped, stale>> /\ ~Del!At(t, "idle")
  BY <1>1 DEF Del!MoveKey, Del!At
<1>3. l \in Job /\ l.pc = "move" /\ l.todo = todo
  BY <1>1 DEF Job, Del!At
<1>4. item.key \in DOMAIN keys /\ Address[item.to] = keys[item.key].named
  BY <1>1 DEF DeliveryInv, NamesKept
<1>5. keys[item.key] \in Key
  BY <1>1, <1>4
<1>6. moved \in Key /\ moved.named = keys[item.key].named /\ moved.owner = item.to
      /\ moved.group = item.group /\ moved.resets = keys[item.key].resets + 1
  BY <1>1, <1>5 DEF Key, Handover
<1>7. CASE keys' = keys
  <2> HIDE DEF l
  <2> QED
    BY <1>1, <1>2, <1>3, <1>7, JobNarrows
<1>8. CASE keys' = [keys EXCEPT ![item.key] = moved]
  <2> HIDE DEF l, moved
  <2>1. /\ thread' \in [Threads -> Job] /\ thread'[t] = l
        /\ \A r \in Threads \ {t} : thread'[r] = thread[r]
    BY <1>2, <1>3, JobBecomes DEF DeliveryInv
  <2>2. /\ keys' \in Seq(Key) /\ DOMAIN keys' = DOMAIN keys
        /\ keys'[item.key] = moved
        /\ \A k \in DOMAIN keys \ {item.key} : keys'[k] = keys[k]
    BY <1>1, <1>4, <1>6, <1>8
  <2>3. \A k \in DOMAIN keys : keys'[k].named = keys[k].named
    BY <1>6, <2>2
  <2>4. DeliveryTyped'
    BY <1>2, <1>3, <2>1, <2>2 DEF DeliveryInv, DeliveryTyped, Del!At
  <2>5. NamesKept'
    <3>1. \A r \in Threads : Del!At(r, "plan")' =>
              Del!At(r, "plan") /\ thread'[r].seen = thread[r].seen
      BY <1>3, <2>1 DEF Del!At
    <3>2. \A r \in Threads : Del!At(r, "move")' =>
              Del!At(r, "move") /\ thread'[r].todo \subseteq thread[r].todo
      BY <1>1, <1>3, <2>1 DEF Del!At
    <3>3. DOMAIN keys' = DOMAIN keys
      BY <2>2
    <3> QED
      BY <2>3, <3>1, <3>2, <3>3 DEF DeliveryInv, NamesKept
  <2>6. GrantsKept'
    BY <1>1, <1>2, <1>3, <2>1 DEF DeliveryInv, GrantsKept, Del!At
  <2>7. ResetIsDelivered'
    BY <1>4, <1>6, <2>2 DEF DeliveryInv, ResetIsDelivered
  <2>8. AloneSeesTrue'
    <3> SUFFICES ASSUME ~overlapped' PROVE AloneSeesTrue'
      BY DEF AloneSeesTrue
    <3>1. ~overlapped
      BY <1>2
    <3>2. \A r \in Threads \ {t} : Del!At(r, "idle") /\ Del!At(r, "idle")'
      BY <1>2, <2>1, <3>1 DEF DeliveryInv, AloneSeesTrue, Del!At
    <3>3. keys[item.key].resets = 0 /\ \A d \in todo : d.key # item.key
      BY <1>1, <3>1 DEF DeliveryInv, AloneSeesTrue
    <3>4. \A k \in DOMAIN keys' : keys'[k].resets <= 1
      BY <1>6, <2>2, <3>1, <3>3 DEF DeliveryInv, AloneSeesTrue
    <3>5. \A d \in todo : d.key \in DOMAIN keys /\ keys'[d.key] = keys[d.key]
      BY <1>1, <2>2, <3>3 DEF DeliveryInv, NamesKept
    <3>6. \A d \in todo : /\ keys'[d.key].resets = 0
                          /\ keys'[d.key].group # Del!NoGroup =>
                                Platform[d.group] = Platform[keys'[d.key].group]
      BY <1>1, <3>1, <3>5 DEF DeliveryInv, AloneSeesTrue
    <3>7. \A c, d \in todo : c.key = d.key => c = d
      BY <1>1, <3>1 DEF DeliveryInv, AloneSeesTrue
    <3>8. \A r \in Threads : Del!At(r, "move")' => thread'[r].todo = todo
      BY <1>3, <2>1, <3>2 DEF Del!At
    <3>9. \A r \in Threads : ~Del!At(r, "plan")'
      BY <1>3, <2>1, <3>2 DEF Del!At
    <3>10. \A r, s \in Threads : ~Del!At(r, "idle")' /\ ~Del!At(s, "idle")' => r = s
      BY <3>2
    <3> HIDE DEF todo
    <3> QED
      BY <3>4, <3>6, <3>7, <3>8, <3>9, <3>10 DEF AloneSeesTrue
  <2> QED
    BY <2>4, <2>5, <2>6, <2>7, <2>8 DEF DeliveryInv
<1> QED
  BY <1>7, <1>8 DEF Del!MoveKey

-----------------------------------------------------------------------------
(* Operators, and every step.                                              *)

LEMMA EditHolds ==
    ASSUME DeliveryInv, Del!Edit, users' \subseteq Users, grants' \in [Users -> SUBSET Groups],
           ~overlapped =>
               \A k \in DOMAIN keys : keys[k].owner \in users => keys[k].owner \in users'
    PROVE  DeliveryInv'
<1>1. UNCHANGED <<keys, thread, overlapped>>
  BY DEF Del!Edit
<1>2. DeliveryTyped' /\ NamesKept' /\ ResetIsDelivered'
  BY <1>1 DEF DeliveryInv, DeliveryTyped, NamesKept, ResetIsDelivered, Del!At
<1>3. GrantsKept'
  BY <1>1 DEF GrantsKept, Del!Edit, Del!At
<1>4. AloneSeesTrue'
  <2> SUFFICES ASSUME ~overlapped' PROVE AloneSeesTrue'
    BY DEF AloneSeesTrue
  <2>1. \A t \in Threads : Del!At(t, "plan") => \A i \in thread[t].seen : i.owner \in users'
    BY <1>1 DEF DeliveryInv, NamesKept, AloneSeesTrue
  <2> QED
    BY <1>1, <2>1 DEF DeliveryInv, AloneSeesTrue, Del!At
<1> QED
  BY <1>2, <1>3, <1>4 DEF DeliveryInv

LEMMA DeliveryNext ==
    ASSUME DeliveryInv, [Del!Next]_Del!vars
    PROVE  DeliveryInv'
<1> USE DEF DeliveryInv
<1>1. ASSUME NEW t \in Threads, NEW e \in Del!Addresses, NEW p \in Del!AllPlatforms,
             NEW target \in Del!Addresses \cup {"none"}, Del!StartCreate(t, e, target, p)
      PROVE  DeliveryInv'
  <2> DEFINE l == [Del!Idle EXCEPT !.pc = "target", !.named = e, !.target = target,
                                   !.platform = p]
  <2>1. l \in Job /\ l.pc = "target" /\ l.named = e
    BY DEF Del!Idle, Job
  <2>2. Del!Begin(t, l) /\ UNCHANGED <<users, grants, keys>>
    BY <1>1 DEF Del!StartCreate
  <2> HIDE DEF l
  <2> QED
    BY <2>1, <2>2, RequestBegins
<1>2. ASSUME NEW t \in Threads, NEW sources \in SUBSET Users, Del!StartTransfer(t, sources)
      PROVE  DeliveryInv'
  <2> DEFINE l == [Del!Idle EXCEPT !.pc = "list", !.sources = sources]
  <2>1. l \in Job /\ l.pc = "list"
    BY DEF Del!Idle, Job
  <2>2. Del!Begin(t, l) /\ UNCHANGED <<users, grants, keys>>
    BY <1>2 DEF Del!StartTransfer
  <2> HIDE DEF l
  <2> QED
    BY <2>1, <2>2, RequestBegins
<1>3. ASSUME NEW t \in Threads, Del!EndTransfer(t) \/ Del!Stops(t)
      PROVE  DeliveryInv'
  <2>1. Del!Become(t, Del!Idle) /\ ~Del!At(t, "idle")
    BY <1>3 DEF Del!EndTransfer, Del!Stops, Del!At
  <2>2. UNCHANGED <<users, grants, keys, overlapped, stale>>
    BY <1>3 DEF Del!EndTransfer, Del!Stops
  <2>3. Del!Idle.pc \notin {"target", "plan", "create", "move"}
    BY IdleJobTyped
  <2> QED
    BY <2>1, <2>2, <2>3, IdleJobTyped, JobNarrows
<1>4. ASSUME NEW u \in Users, Del!UserComes(u) PROVE DeliveryInv'
  <2>1. users' \subseteq Users /\ users \subseteq users' /\ grants' \in [Users -> SUBSET Groups]
    BY <1>4 DEF Del!UserComes, DeliveryTyped
  <2> QED
    BY <1>4, <2>1, EditHolds DEF Del!UserComes
<1>5. ASSUME NEW u \in Users, Del!UserGoes(u) PROVE DeliveryInv'
  <2>1. users' \subseteq Users /\ grants' \in [Users -> SUBSET Groups]
    BY <1>5 DEF Del!UserGoes, DeliveryTyped
  <2>2. \A k \in DOMAIN keys : keys[k].owner \in users => keys[k].owner \in users'
    BY <1>5 DEF Del!UserGoes
  <2> QED
    BY <1>5, <2>1, <2>2, EditHolds DEF Del!UserGoes
<1>6. ASSUME NEW u \in Users, Del!Regroup(u) PROVE DeliveryInv'
  <2>1. users' \subseteq Users /\ users' = users /\ grants' \in [Users -> SUBSET Groups]
    BY <1>6 DEF Del!Regroup, DeliveryTyped
  <2> QED
    BY <1>6, <2>1, EditHolds DEF Del!Regroup
<1>7. CASE UNCHANGED Del!vars
  BY <1>7 DEF Del!vars, DeliveryTyped, NamesKept, GrantsKept, ResetIsDelivered, AloneSeesTrue,
              Del!At
<1> HIDE DEF DeliveryInv
<1>8. {Users} \cup {{u} : u \in Users} \subseteq SUBSET Users
  OBVIOUS
<1> QED
  BY <1>1, <1>2, <1>3, <1>4, <1>5, <1>6, <1>7, <1>8, ResolveTargetHolds, CreateKeyHolds,
     ListKeysHolds, PlanHolds, MoveKeyHolds
     DEF Del!Next

\* What a change of a key has to respect.
KeyFits(k) ==
    keys'[k] # keys[k] =>
        /\ Address[keys'[k].owner] = keys[k].named
        /\ keys[k].group # Del!NoGroup /\ ~overlapped' =>
              Platform[keys'[k].group] = Platform[keys[k].group]
        /\ ~stale' => keys'[k].group \in grants[keys'[k].owner]

LEMMA DeliveryFits ==
    ASSUME DeliveryInv, [Del!Next]_Del!vars, NEW k \in DOMAIN keys
    PROVE  KeyFits(k)
<1>1. keys \in Seq(Key)
  BY DEF DeliveryInv, DeliveryTyped
<1>2. ASSUME NEW t \in Threads, NEW d \in thread[t].todo, Del!MoveKey(t, d)
      PROVE  KeyFits(k)
  <2>1. Del!At(t, "move") /\ UNCHANGED <<overlapped, stale, grants>>
    BY <1>2 DEF Del!MoveKey
  <2>2. /\ d.key \in DOMAIN keys /\ Address[d.to] = keys[d.key].named
        /\ ~stale => d.group \in grants[d.to]
        /\ ~overlapped /\ keys[d.key].group # Del!NoGroup =>
              Platform[d.group] = Platform[keys[d.key].group]
    BY <2>1 DEF DeliveryInv, NamesKept, GrantsKept, AloneSeesTrue
  <2>3. CASE keys' = [keys EXCEPT ![d.key] =
                 [named |-> keys[d.key].named, owner |-> d.to, group |-> d.group,
                  resets |-> keys[d.key].resets + 1]]
    <3>1. k # d.key => keys'[k] = keys[k]
      BY <1>1, <2>3
    <3>2. keys'[d.key].owner = d.to /\ keys'[d.key].group = d.group
      BY <1>1, <2>2, <2>3
    <3> QED
      BY <2>1, <2>2, <3>1, <3>2 DEF KeyFits
  <2>4. CASE UNCHANGED keys
    BY <2>4 DEF KeyFits
  <2> QED
    BY <1>2, <2>3, <2>4 DEF Del!MoveKey
<1>3. ASSUME NEW t \in Threads, Del!CreateKey(t) PROVE keys'[k] = keys[k]
  <2>1. PICK new : keys' = Append(keys, new)
    BY <1>3 DEF Del!CreateKey
  <2> QED
    BY <1>1, <2>1
<1>4. keys'[k] = keys[k] => KeyFits(k)
  BY DEF KeyFits
<1>5. (\A t \in Threads : \A d \in thread[t].todo : ~Del!MoveKey(t, d)) => keys'[k] = keys[k]
  BY <1>1, <1>3
     DEF Del!Next, Del!vars, Del!StartCreate, Del!ResolveTarget, Del!StartTransfer,
         Del!ListKeys, Del!Plan, Del!EndTransfer, Del!Stops, Del!UserComes, Del!UserGoes,
         Del!Regroup, Del!Edit
<1> QED
  BY <1>2, <1>4, <1>5

-----------------------------------------------------------------------------
(* Provisioning: accounts belong, keep what they have and are found again, *)
(* for any sets of addresses, platforms, groups and accounts, and any      *)
(* number of threads and requests.                                         *)

Group == [name : {FirstGroups[g].name : g \in DOMAIN FirstGroups} \cup Emails,
          platform : Platforms]
Account == [name : Emails, platform : Platforms, type : Prov!Types, groups : SUBSET Nat,
            code : Nat]
Handoff == [platform : Platforms, whose : Emails, spent : BOOLEAN]
Flow == [email : Emails, group : Nat, session : Nat, account : Nat,
         status : {"pending_oauth", "completed", "failed"}]
Worker == [pc : {"idle", "group", "create group", "find", "configure", "url",
                 "create account", "save", "platform", "exchange", "fail",
                 "read bindings", "bind"},
           kind : {"none", "oauth", "apikey", "paste"},
           email : Emails \cup {"nobody"}, platform : Platforms \cup {"none"},
           group : Nat, account : Nat, bindings : SUBSET Nat, code : Nat, flow : Nat,
           known : Nat]

-----------------------------------------------------------------------------
(* The invariant.                                                          *)

ProvTyped ==
    /\ groups \in Seq(Group) /\ accounts \in Seq(Account)
    /\ sessions \in Seq(Handoff) /\ flows \in Seq(Flow)
    /\ thread \in [Threads -> Worker]
    /\ Landing \subseteq DOMAIN groups

Serves(g, platform) == g \in DOMAIN groups /\ groups[g].platform = platform
IssuedFor(c, email) == c \in DOMAIN sessions /\ sessions[c].whose = email

\* An account is in groups of its platform and holds a code that was issued for it.
Belong ==
    \A a \in DOMAIN accounts :
        /\ accounts[a].code # Prov!None => IssuedFor(accounts[a].code, accounts[a].name)
        /\ \A g \in accounts[a].groups : Serves(g, accounts[a].platform)

\* The handoff of a flow is its address's, on the platform of its group.
FlowsMatch ==
    \A f \in DOMAIN flows :
        /\ flows[f].group \in DOMAIN groups
        /\ flows[f].session # Prov!None =>
              /\ IssuedFor(flows[f].session, flows[f].email)
              /\ Serves(flows[f].group, sessions[flows[f].session].platform)

\* A request to start a flow, and one to complete it, at each of its steps.
Starting(l) ==
    /\ l.kind \in {"oauth", "apikey"} /\ l.code = Prov!None
    /\ l.pc \in {"group", "create group", "find", "configure", "url", "create account", "save"}
    /\ l.pc = "url" => l.kind = "oauth"
    /\ l.pc = "create account" => l.kind = "apikey"
    /\ l.pc \in {"group", "create group", "find", "url"} => l.account = Prov!None
    /\ (l.pc = "save" /\ l.account = Prov!None) =>
          IssuedFor(l.flow, l.email) /\ Serves(l.group, sessions[l.flow].platform)

Completing(l) ==
    /\ l.kind = "paste"
    /\ l.pc \in {"platform", "exchange", "find", "create account", "save", "read bindings",
                 "bind", "fail"}
    /\ l.flow \in DOMAIN flows /\ l.group = flows[l.flow].group
    /\ l.code # Prov!None /\ l.code = flows[l.flow].session /\ l.email = flows[l.flow].email

\* It writes to groups and accounts of its platform.
OnPlatform(l) ==
    /\ l.pc \notin {"group", "create group", "platform", "exchange", "fail"} =>
          Serves(l.group, l.platform)
    /\ l.pc \in {"configure", "read bindings", "bind"} =>
          l.account \in DOMAIN accounts /\ accounts[l.account].platform = l.platform
    /\ l.pc \in {"configure", "bind"} => \A g \in l.bindings : Serves(g, l.platform)

Sound(l) ==
    l.pc # "idle" =>
        /\ l.email \in Emails /\ (l.kind # "paste" => l.platform \in Platforms)
        /\ l.pc \notin {"platform", "fail"} => l.platform \in Platforms
        /\ Starting(l) \/ Completing(l)
        /\ OnPlatform(l)

\* What a request has found missing is missing, and what it has read is there, as long as
\* nobody else writes.
UpToDate(l) ==
    /\ l.pc = "create group" => Prov!OwnGroups(l.email, l.platform) = {}
    /\ (l.pc = "create account" /\ l.kind = "paste") => Prov!Named(l.email, l.platform) = {}
    /\ l.pc \in {"configure", "bind"} => l.bindings = accounts[l.account].groups
    /\ (l.pc = "configure" /\ l.kind = "apikey") => accounts[l.account].type = "apikey"

OneEach ==
    /\ \A g, h \in DOMAIN groups :
          (groups[g].name \in Emails /\ groups[g] = groups[h]) => g = h
    /\ \A a, b \in DOMAIN accounts :
          (/\ accounts[a].name = accounts[b].name /\ accounts[a].platform = accounts[b].platform
           /\ accounts[a].code # Prov!None /\ accounts[b].code # Prov!None)
              => a = b

AloneReuses ==
    ~overlapped =>
        /\ \A s, t \in Threads : (~Prov!At(s, "idle") /\ ~Prov!At(t, "idle")) => s = t
        /\ OneEach
        /\ \A t \in Threads : UpToDate(thread[t])

ProvInv ==
    ProvTyped /\ Belong /\ FlowsMatch /\ (\A t \in Threads : Sound(thread[t])) /\ AloneReuses

-----------------------------------------------------------------------------
(* Records are added and changed in place.                                 *)

LEMMA AppendAdds ==
    ASSUME NEW S, NEW s \in Seq(S), NEW e \in S
    PROVE  /\ Append(s, e) \in Seq(S)
           /\ DOMAIN Append(s, e) = DOMAIN s \cup {Len(s) + 1}
           /\ Len(s) + 1 \notin DOMAIN s /\ Len(s) + 1 \in Nat \ {0}
           /\ Append(s, e)[Len(s) + 1] = e
           /\ \A i \in DOMAIN s : Append(s, e)[i] = s[i]
OBVIOUS

LEMMA ExceptChanges ==
    ASSUME NEW S, NEW s \in Seq(S), NEW i \in DOMAIN s, NEW e \in S
    PROVE  /\ [s EXCEPT ![i] = e] \in Seq(S)
           /\ DOMAIN [s EXCEPT ![i] = e] = DOMAIN s
           /\ [s EXCEPT ![i] = e][i] = e
           /\ \A j \in DOMAIN s : j # i => [s EXCEPT ![i] = e][j] = s[j]
OBVIOUS

LEMMA PositionsTyped == ASSUME NEW s, NEW S, s \in Seq(S), NEW i \in DOMAIN s
                        PROVE  i \in Nat \ {0} /\ s[i] \in S
OBVIOUS

LEMMA SeqOfMore ==
    ASSUME NEW S, NEW T, S \subseteq T, NEW s \in Seq(S) PROVE s \in Seq(T)
OBVIOUS

LEMMA RecordsAre ==
    ASSUME ProvTyped
    PROVE  /\ \A g \in DOMAIN groups : g \in Nat \ {0} /\ groups[g].platform \in Platforms
           /\ \A a \in DOMAIN accounts : a \in Nat \ {0} /\ accounts[a] \in Account
           /\ \A a \in DOMAIN accounts : accounts[a].groups \subseteq Nat
           /\ \A s \in DOMAIN sessions : s \in Nat \ {0} /\ sessions[s] \in Handoff
           /\ \A f \in DOMAIN flows : f \in Nat \ {0} /\ flows[f] \in Flow
<1>1. \A g \in DOMAIN groups : g \in Nat \ {0} /\ groups[g] \in Group
  BY PositionsTyped DEF ProvTyped
<1>2. \A a \in DOMAIN accounts : a \in Nat \ {0} /\ accounts[a] \in Account
  BY PositionsTyped DEF ProvTyped
<1>3. \A s \in DOMAIN sessions : s \in Nat \ {0} /\ sessions[s] \in Handoff
  BY PositionsTyped DEF ProvTyped
<1>4. \A f \in DOMAIN flows : f \in Nat \ {0} /\ flows[f] \in Flow
  BY PositionsTyped DEF ProvTyped
<1>5. \A r \in Group : r.platform \in Platforms
  BY DEF Group
<1>6. \A r \in Account : r.groups \subseteq Nat
  BY DEF Account
<1> QED
  BY <1>1, <1>2, <1>3, <1>4, <1>5, <1>6

\* No step takes a record away or changes what it is about.
Grown ==
    /\ DOMAIN groups \subseteq DOMAIN groups'
    /\ \A g \in DOMAIN groups : groups'[g] = groups[g]
    /\ DOMAIN accounts \subseteq DOMAIN accounts'
    /\ \A a \in DOMAIN accounts : /\ accounts'[a].name = accounts[a].name
                                  /\ accounts'[a].platform = accounts[a].platform
                                  /\ accounts'[a].code = accounts[a].code
    /\ DOMAIN sessions \subseteq DOMAIN sessions'
    /\ \A s \in DOMAIN sessions : /\ sessions'[s].platform = sessions[s].platform
                                  /\ sessions'[s].whose = sessions[s].whose
    /\ DOMAIN flows \subseteq DOMAIN flows'
    /\ \A f \in DOMAIN flows : /\ flows'[f].email = flows[f].email
                               /\ flows'[f].group = flows[f].group
                               /\ flows'[f].session = flows[f].session

\* What holds of the records goes on holding of them.
LEMMA ServesOn ==
    ASSUME Grown, NEW g, NEW p, Serves(g, p) PROVE Serves(g, p)'
BY DEF Grown, Serves

LEMMA IssuedOn ==
    ASSUME Grown, NEW c, NEW e, IssuedFor(c, e) PROVE IssuedFor(c, e)'
BY DEF Grown, IssuedFor

LEMMA SoundOn ==
    ASSUME Grown, NEW l, Sound(l) PROVE Sound(l)'
<1> SUFFICES ASSUME l.pc # "idle" PROVE Sound(l)'
  BY DEF Sound
<1>1. Starting(l) => Starting(l)'
  <2> SUFFICES ASSUME Starting(l), l.pc = "save", l.account = Prov!None
               PROVE  /\ IssuedFor(l.flow, l.email)'
                      /\ Serves(l.group, sessions[l.flow].platform)'
    BY DEF Starting
  <2>1. IssuedFor(l.flow, l.email) /\ Serves(l.group, sessions[l.flow].platform)
    BY DEF Starting
  <2>2. sessions'[l.flow].platform = sessions[l.flow].platform
    BY <2>1 DEF IssuedFor, Grown
  <2> QED
    BY <2>1, <2>2 DEF Serves, IssuedFor, Grown
<1>2. Completing(l) => Completing(l)'
  BY DEF Completing, Grown
<1>3. OnPlatform(l) => OnPlatform(l)'
  <2> SUFFICES ASSUME OnPlatform(l) PROVE OnPlatform(l)'
    OBVIOUS
  <2>1. \A g : Serves(g, l.platform) => Serves(g, l.platform)'
    BY ServesOn
  <2> QED
    BY <2>1 DEF OnPlatform, Grown
<1> QED
  BY <1>1, <1>2, <1>3 DEF Sound

LEMMA IdleWorker == Prov!Idle \in Worker /\ Prov!Idle.pc = "idle"
BY DEF Prov!Idle, Worker, Prov!None

-----------------------------------------------------------------------------
(* A step of one thread, whatever it does.                                 *)

ProvStepped(t, n) ==
    /\ n \in Worker /\ thread' = [thread EXCEPT ![t] = n]
    /\ ~Prov!At(t, "idle") /\ UNCHANGED overlapped

RecordsTyped ==
    /\ groups \in Seq(Group) /\ accounts \in Seq(Account)
    /\ sessions \in Seq(Handoff) /\ flows \in Seq(Flow)

LEMMA ProvStep ==
    ASSUME ProvInv, NEW t \in Threads, NEW n, ProvStepped(t, n), Grown, RecordsTyped',
           Sound(n)', Belong', FlowsMatch', ~overlapped => UpToDate(n)' /\ OneEach'
    PROVE  ProvInv'
<1>1. /\ thread' \in [Threads -> Worker] /\ thread'[t] = n
      /\ \A r \in Threads \ {t} : thread'[r] = thread[r]
  BY DEF ProvInv, ProvTyped, ProvStepped
<1>2. ProvTyped'
  BY <1>1 DEF ProvInv, ProvTyped, RecordsTyped, Grown
<1>3. ASSUME NEW r \in Threads PROVE Sound(thread[r])'
  <2>1. CASE r = t
    BY <1>1, <2>1 DEF Sound, Starting, Completing, OnPlatform
  <2>2. CASE r # t
    <3> DEFINE l == thread[r]
    <3>1. PICK m : m = thread[r]
      OBVIOUS
    <3>2. Sound(m)
      BY <3>1 DEF ProvInv
    <3>3. Sound(m)'
      BY <3>2, SoundOn
    <3>4. thread'[r] = m
      BY <1>1, <2>2, <3>1
    <3> QED
      BY <3>3, <3>4 DEF Sound, Starting, Completing, OnPlatform
  <2> QED
    BY <2>1, <2>2
<1>4. AloneReuses'
  <2> SUFFICES ASSUME ~overlapped' PROVE AloneReuses'
    BY DEF AloneReuses
  <2>1. ~overlapped
    BY DEF ProvStepped
  <2>2. \A r \in Threads \ {t} : thread[r].pc = "idle" /\ thread'[r].pc = "idle"
    BY <1>1, <2>1 DEF ProvInv, AloneReuses, ProvStepped, Prov!At
  <2>3. \A r \in Threads : UpToDate(thread[r])'
    <3> SUFFICES ASSUME NEW r \in Threads PROVE UpToDate(thread[r])'
      OBVIOUS
    <3>1. CASE r = t
      BY <1>1, <2>1, <3>1 DEF UpToDate
    <3>2. CASE r # t
      BY <2>2, <3>2 DEF UpToDate
    <3> QED
      BY <3>1, <3>2
  <2> QED
    BY <2>1, <2>2, <2>3 DEF AloneReuses, Prov!At
<1> QED
  BY <1>2, <1>3, <1>4 DEF ProvInv

\* One that leaves the records alone.
LEMMA ProvLocalStep ==
    ASSUME ProvInv, NEW t \in Threads, NEW n, ProvStepped(t, n),
           UNCHANGED <<groups, accounts, sessions, flows>>,
           Sound(n), ~overlapped => UpToDate(n)
    PROVE  ProvInv'
<1>1. Grown /\ RecordsTyped'
  BY DEF Grown, RecordsTyped, ProvInv, ProvTyped
<1>2. Sound(n)' /\ Belong' /\ FlowsMatch'
  BY <1>1, SoundOn DEF ProvInv, Belong, FlowsMatch, IssuedFor, Serves
<1>3. ~overlapped => UpToDate(n)' /\ OneEach'
  BY DEF ProvInv, AloneReuses, OneEach, UpToDate, Prov!OwnGroups, Prov!Named
<1> QED
  BY <1>1, <1>2, <1>3, ProvStep

\* A request begins, and may overlap with others.
LEMMA ProvBegins ==
    ASSUME ProvInv, NEW t \in Threads, NEW n \in Worker, Prov!Begin(t, n),
           UNCHANGED <<groups, accounts, sessions, flows>>,
           Sound(n), n.pc \in {"group", "platform"}
    PROVE  ProvInv'
<1>1. /\ thread' \in [Threads -> Worker] /\ thread'[t] = n
      /\ \A r \in Threads \ {t} : thread'[r] = thread[r]
  BY DEF ProvInv, ProvTyped, Prov!Begin, Prov!Become
<1>2. ProvTyped' /\ Belong' /\ FlowsMatch'
  BY <1>1 DEF ProvInv, ProvTyped, Belong, FlowsMatch, IssuedFor, Serves
<1>3. ASSUME NEW r \in Threads PROVE Sound(thread[r])'
  <2>1. PICK m : m = IF r = t THEN n ELSE thread[r]
    OBVIOUS
  <2>2. Sound(m)' /\ thread'[r] = m
    BY <1>1, <2>1, SoundOn DEF Grown, ProvInv
  <2> QED
    BY <2>2 DEF Sound, Starting, Completing, OnPlatform
<1>4. AloneReuses'
  <2> SUFFICES ASSUME ~overlapped' PROVE AloneReuses'
    BY DEF AloneReuses
  <2>1. ~overlapped /\ \A r \in Threads : thread[r].pc = "idle"
    BY DEF Prov!Begin, Prov!At
  <2>2. \A r \in Threads \ {t} : thread'[r].pc = "idle"
    BY <1>1, <2>1
  <2>3. OneEach'
    BY <2>1 DEF ProvInv, AloneReuses, OneEach
  <2>4. \A r \in Threads : UpToDate(thread[r])'
    BY <1>1, <2>2 DEF UpToDate
  <2> QED
    BY <2>2, <2>3, <2>4 DEF AloneReuses, Prov!At
<1> QED
  BY <1>2, <1>3, <1>4 DEF ProvInv

-----------------------------------------------------------------------------
(* Init, and the steps that write no record.                               *)

LEMMA ProvInit ==
    ASSUME Prov!ProvisioningAssumption, Prov!Init PROVE ProvInv
<1>1. /\ groups = FirstGroups /\ accounts \in FirstAccounts
      /\ sessions = <<>> /\ flows = <<>> /\ thread = [t \in Threads |-> Prov!Idle]
  BY DEF Prov!Init
<1>2. /\ accounts \in Seq([name : Emails, platform : Platforms, type : Prov!Types,
                           groups : SUBSET DOMAIN groups, code : {Prov!None}])
      /\ \A a \in DOMAIN accounts : \A g \in accounts[a].groups :
            groups[g].platform = accounts[a].platform
  BY <1>1 DEF Prov!ProvisioningAssumption
<1>3. groups \in Seq(Group)
  <2>1. groups \in Seq([name : {FirstGroups[g].name : g \in DOMAIN FirstGroups},
                        platform : Platforms])
    BY <1>1 DEF Prov!ProvisioningAssumption
  <2>2. [name : {FirstGroups[g].name : g \in DOMAIN FirstGroups}, platform : Platforms]
            \subseteq Group
    BY DEF Group
  <2> QED
    BY <2>1, <2>2, SeqOfMore
<1>4. accounts \in Seq(Account)
  <2>1. DOMAIN groups \subseteq Nat
    BY <1>3
  <2>2. [name : Emails, platform : Platforms, type : Prov!Types,
         groups : SUBSET DOMAIN groups, code : {Prov!None}] \subseteq Account
    BY <2>1 DEF Account, Prov!None
  <2> QED
    BY <1>2, <2>2, SeqOfMore
<1>5. \A t \in Threads : thread[t] = Prov!Idle
  BY <1>1
<1>6. ProvTyped
  BY <1>1, <1>3, <1>4, IdleWorker DEF ProvTyped, Prov!ProvisioningAssumption
<1>0. ASSUME NEW a \in DOMAIN accounts
      PROVE  accounts[a].code = Prov!None /\ accounts[a].groups \subseteq DOMAIN groups
  <2> DEFINE First == [name : Emails, platform : Platforms, type : Prov!Types,
                       groups : SUBSET DOMAIN groups, code : {Prov!None}]
  <2>1. accounts \in Seq(First)
    BY <1>2
  <2> HIDE DEF First
  <2>2. accounts[a] \in First
    BY <2>1
  <2> QED
    BY <2>2 DEF First
<1>7. Belong /\ FlowsMatch
  BY <1>0, <1>1, <1>2 DEF Belong, FlowsMatch, Serves
<1>8. \A t \in Threads : Sound(thread[t]) /\ UpToDate(thread[t])
  BY <1>5, IdleWorker DEF Sound, UpToDate
<1>9. OneEach
  BY <1>0, <1>1 DEF OneEach, Prov!ProvisioningAssumption
<1> QED
  BY <1>5, <1>6, <1>7, <1>8, <1>9, IdleWorker DEF ProvInv, AloneReuses, Prov!At

\* The worker of a thread.
LEMMA WorkerTyped ==
    ASSUME ProvInv, NEW t \in Threads
    PROVE  thread[t] \in Worker /\ Sound(thread[t])
BY DEF ProvInv, ProvTyped

\* A call raises: what follows reads nothing.
LEMMA RaisedSoundly ==
    ASSUME ProvInv, NEW t \in Threads, ~Prov!At(t, "idle"), UNCHANGED overlapped,
           Prov!Raised(t)
    PROVE  \E n : ProvStepped(t, n) /\ Sound(n) /\ n.pc \in {"idle", "fail"}
<1> DEFINE l == thread[t]
<1>1. l \in Worker /\ Sound(l) /\ l.pc # "idle"
  BY WorkerTyped DEF Prov!At
<1>2. CASE l.kind = "paste"
  <2> DEFINE n == [l EXCEPT !.pc = "fail"]
  <2>1. n \in Worker /\ n.pc = "fail" /\ n.kind = "paste" /\ n.platform = l.platform
        /\ n.email = l.email /\ n.flow = l.flow /\ n.group = l.group /\ n.code = l.code
    BY <1>1, <1>2 DEF Worker
  <2>2. Completing(l)
    BY <1>1, <1>2 DEF Sound, Starting
  <2>3. Sound(n)
    BY <1>1, <2>1, <2>2 DEF Sound, Completing, OnPlatform
  <2>4. ProvStepped(t, n)
    BY <1>2, <2>1 DEF ProvStepped, Prov!Raised, Prov!Goto, Prov!Become
  <2> QED
    BY <2>1, <2>3, <2>4
<1>3. CASE l.kind # "paste"
  <2>1. ProvStepped(t, Prov!Idle)
    BY <1>3, IdleWorker DEF ProvStepped, Prov!Raised, Prov!Become
  <2> QED
    BY <2>1, IdleWorker DEF Sound
<1> QED
  BY <1>2, <1>3

LEMMA ResolveGroupHolds ==
    ASSUME ProvInv, NEW t \in Threads, Prov!ResolveGroup(t) PROVE ProvInv'
<1> DEFINE l == thread[t]
           own == Prov!OwnGroups(l.email, l.platform)
           landing == {g \in Landing : groups[g].platform = l.platform}
           found == IF own # {} THEN own ELSE landing
<1>1. l \in Worker /\ Sound(l) /\ l.pc = "group"
  BY WorkerTyped DEF Prov!ResolveGroup, Prov!At
<1>2. Starting(l) /\ l.email \in Emails /\ l.platform \in Platforms /\ l.kind # "paste"
  BY <1>1 DEF Sound, Starting, Completing
<1>3. UNCHANGED <<groups, accounts, sessions, flows, overlapped>>
  BY DEF Prov!ResolveGroup, Prov!upstream
<1>4. CASE found = {} /\ Prov!Goto(t, "create group")
  <2> DEFINE n == [l EXCEPT !.pc = "create group"]
  <2>1. /\ n \in Worker /\ n.pc = "create group" /\ n.kind = l.kind /\ n.email = l.email
        /\ n.platform = l.platform /\ n.code = l.code /\ n.account = l.account
    BY <1>1 DEF Worker
  <2>2. ProvStepped(t, n)
    BY <1>1, <1>3, <1>4, <2>1 DEF ProvStepped, Prov!Goto, Prov!Become, Prov!At
  <2>3. Sound(n) /\ UpToDate(n)
    BY <1>1, <1>2, <1>4, <2>1 DEF Sound, Starting, OnPlatform, UpToDate
  <2> QED
    BY <1>3, <2>2, <2>3, ProvLocalStep
<1>5. ASSUME NEW g \in found, Prov!Become(t, [l EXCEPT !.group = g, !.pc = "find"])
      PROVE  ProvInv'
  <2> DEFINE n == [l EXCEPT !.group = g, !.pc = "find"]
  <2>1. Serves(g, l.platform)
    BY DEF Serves, Prov!OwnGroups, ProvInv, ProvTyped
  <2>2. g \in Nat
    BY <2>1 DEF Serves, ProvInv, ProvTyped
  <2>3. /\ n \in Worker /\ n.pc = "find" /\ n.kind = l.kind /\ n.email = l.email
        /\ n.platform = l.platform /\ n.code = l.code /\ n.account = l.account /\ n.group = g
    BY <1>1, <2>2 DEF Worker
  <2>4. ProvStepped(t, n)
    BY <1>1, <1>3, <1>5, <2>3 DEF ProvStepped, Prov!Become, Prov!At
  <2>5. Sound(n) /\ UpToDate(n)
    BY <1>1, <1>2, <2>1, <2>3 DEF Sound, Starting, OnPlatform, UpToDate
  <2> QED
    BY <1>3, <2>4, <2>5, ProvLocalStep
<1> QED
  BY <1>4, <1>5 DEF Prov!ResolveGroup

LEMMA FindAccountHolds ==
    ASSUME ProvInv, NEW t \in Threads, Prov!FindAccount(t) PROVE ProvInv'
<1> DEFINE l == thread[t]
           named == Prov!Named(l.email, l.platform)
<1>1. l \in Worker /\ Sound(l) /\ l.pc = "find"
  BY WorkerTyped DEF Prov!FindAccount, Prov!At
<1>2. /\ l.email \in Emails /\ l.platform \in Platforms /\ Serves(l.group, l.platform)
      /\ Starting(l) \/ Completing(l)
  BY <1>1 DEF Sound, OnPlatform
<1>3. UNCHANGED <<groups, accounts, sessions, flows, overlapped>>
  BY DEF Prov!FindAccount, Prov!upstream
<1>4. ASSUME Prov!Goto(t, Prov!IfMissing(l)), named = {} \/ l.kind = "apikey"
      PROVE  ProvInv'
  <2> DEFINE n == [l EXCEPT !.pc = Prov!IfMissing(l)]
  <2>1. Prov!IfMissing(l) \in {"url", "create account"}
    BY DEF Prov!IfMissing
  <2>2. /\ n \in Worker /\ n.pc = Prov!IfMissing(l) /\ n.kind = l.kind /\ n.email = l.email
        /\ n.platform = l.platform /\ n.code = l.code /\ n.account = l.account
        /\ n.group = l.group /\ n.flow = l.flow
    BY <1>1, <2>1 DEF Worker
  <2>3. ProvStepped(t, n)
    BY <1>1, <1>3, <1>4, <2>2 DEF ProvStepped, Prov!Goto, Prov!Become, Prov!At
  <2>4. Starting(n) \/ Completing(n)
    <3> HIDE DEF n
    <3>1. CASE Starting(l)
      <4>1. l.kind \in {"oauth", "apikey"} /\ l.account = Prov!None /\ l.code = Prov!None
        BY <1>1, <3>1 DEF Starting
      <4>2. \/ n.pc = "url" /\ l.kind = "oauth"
            \/ n.pc = "create account" /\ l.kind = "apikey"
        BY <2>2, <4>1 DEF Prov!IfMissing
      <4> QED
        BY <2>2, <4>1, <4>2 DEF Starting
    <3>2. CASE Completing(l)
      BY <2>2, <3>2 DEF Completing, Prov!IfMissing
    <3> QED
      BY <1>2, <3>1, <3>2
  <2>5. Sound(n)
    BY <1>2, <2>1, <2>2, <2>4 DEF Sound, OnPlatform
  <2>6. UpToDate(n)
    BY <1>4, <2>1, <2>2 DEF UpToDate
  <2> QED
    BY <1>3, <2>3, <2>5, <2>6, ProvLocalStep
<1>5. ASSUME NEW a \in named, Prov!Reusable(l.kind, a),
             Prov!Become(t, [l EXCEPT !.account = a, !.bindings = accounts[a].groups,
                                      !.pc = Prov!IfFound(l, a)])
      PROVE  ProvInv'
  <2> DEFINE n == [l EXCEPT !.account = a, !.bindings = accounts[a].groups,
                            !.pc = Prov!IfFound(l, a)]
  <2>1. Prov!IfFound(l, a) \in {"configure", "save", "read bindings"}
    BY DEF Prov!IfFound
  <2>2. a \in DOMAIN accounts /\ accounts[a].platform = l.platform
    BY DEF Prov!Named
  <2>3. a \in Nat \ {0} /\ accounts[a].groups \subseteq Nat
    BY <2>2, RecordsAre DEF ProvInv
  <2>4. /\ n \in Worker /\ n.pc = Prov!IfFound(l, a) /\ n.kind = l.kind /\ n.email = l.email
        /\ n.platform = l.platform /\ n.code = l.code /\ n.account = a
        /\ n.group = l.group /\ n.flow = l.flow /\ n.bindings = accounts[a].groups
    BY <1>1, <2>1, <2>3 DEF Worker
  <2>5. ProvStepped(t, n)
    BY <1>1, <1>3, <1>5, <2>4 DEF ProvStepped, Prov!Become, Prov!At
  <2>6. Starting(n) \/ Completing(n)
    BY <1>1, <1>2, <2>4 DEF Starting, Completing, Prov!IfFound
  <2>7. \A g \in accounts[a].groups : Serves(g, l.platform)
    BY <2>2 DEF ProvInv, Belong
  <2>8. Sound(n)
    BY <1>2, <2>1, <2>2, <2>4, <2>6, <2>7 DEF Sound, OnPlatform
  <2>9. UpToDate(n)
    BY <1>5, <2>1, <2>4 DEF UpToDate, Prov!Reusable
  <2> QED
    BY <1>3, <2>5, <2>8, <2>9, ProvLocalStep
<1> QED
  BY <1>4, <1>5 DEF Prov!FindAccount, Prov!Reusable

LEMMA LookUpPlatformHolds ==
    ASSUME ProvInv, OAuthPlatforms \subseteq Platforms, DefaultPlatform \in Platforms,
           NEW t \in Threads, Prov!LookUpPlatform(t)
    PROVE  ProvInv'
<1> DEFINE l == thread[t]
           succ(p) == IF p \in OAuthPlatforms THEN "exchange" ELSE "fail"
<1>1. l \in Worker /\ Sound(l) /\ l.pc = "platform"
  BY WorkerTyped DEF Prov!LookUpPlatform, Prov!At
<1>2. Completing(l) /\ l.email \in Emails
  BY <1>1 DEF Sound, Starting
<1>3. UNCHANGED <<groups, accounts, sessions, flows, overlapped>>
  BY DEF Prov!LookUpPlatform, Prov!upstream
<1>4. l.group \in DOMAIN groups
  BY <1>2 DEF Completing, ProvInv, FlowsMatch
<1>5. groups[l.group].platform \in Platforms
  BY <1>4, RecordsAre DEF ProvInv
<1>6. PICK p \in Platforms : Prov!Become(t, [l EXCEPT !.platform = p, !.pc = succ(p)])
  BY <1>5 DEF Prov!LookUpPlatform
<1> DEFINE n == [l EXCEPT !.platform = p, !.pc = succ(p)]
<1>7. /\ n \in Worker /\ n.pc = succ(p) /\ n.kind = l.kind /\ n.email = l.email
      /\ n.platform = p /\ n.code = l.code /\ n.group = l.group /\ n.flow = l.flow
  BY <1>1 DEF Worker
<1>8. ProvStepped(t, n)
  BY <1>1, <1>3, <1>6, <1>7 DEF ProvStepped, Prov!Become, Prov!At
<1>9. Sound(n) /\ UpToDate(n)
  <2>1. succ(p) \in {"exchange", "fail"}
    OBVIOUS
  <2> HIDE DEF n, succ
  <2> QED
    BY <1>2, <1>7, <2>1 DEF Sound, Completing, OnPlatform, UpToDate
<1> QED
  BY <1>3, <1>8, <1>9, ProvLocalStep

LEMMA ReadBindingsHolds ==
    ASSUME ProvInv, NEW t \in Threads, Prov!ReadBindings(t) PROVE ProvInv'
<1> DEFINE l == thread[t]
           bound == accounts[l.account].groups
           n == [l EXCEPT !.bindings = bound, !.pc = "bind"]
<1>1. l \in Worker /\ Sound(l) /\ l.pc = "read bindings"
  BY WorkerTyped DEF Prov!ReadBindings, Prov!At
<1>2. /\ Completing(l) /\ l.email \in Emails /\ l.platform \in Platforms
      /\ Serves(l.group, l.platform)
      /\ l.account \in DOMAIN accounts /\ accounts[l.account].platform = l.platform
  BY <1>1 DEF Sound, Starting, OnPlatform
<1>3. UNCHANGED <<groups, accounts, sessions, flows, overlapped>>
  BY DEF Prov!ReadBindings, Prov!upstream
<1>4. bound \subseteq Nat
  BY <1>2, RecordsAre DEF ProvInv
<1>5. /\ n \in Worker /\ n.pc = "bind" /\ n.kind = l.kind /\ n.email = l.email
      /\ n.platform = l.platform /\ n.code = l.code /\ n.group = l.group /\ n.flow = l.flow
      /\ n.account = l.account /\ n.bindings = bound
  BY <1>1, <1>4 DEF Worker
<1>6. ProvStepped(t, n)
  BY <1>1, <1>3, <1>5 DEF ProvStepped, Prov!ReadBindings, Prov!Become, Prov!At
<1>7. \A g \in bound : Serves(g, l.platform)
  BY <1>2 DEF ProvInv, Belong
<1>8. Sound(n) /\ UpToDate(n)
  BY <1>2, <1>5, <1>7 DEF Sound, Completing, OnPlatform, UpToDate
<1> QED
  BY <1>3, <1>6, <1>8, ProvLocalStep

-----------------------------------------------------------------------------
(* The steps that write.                                                   *)

LEMMA BelongOn ==
    ASSUME Grown, Belong, UNCHANGED accounts PROVE Belong'
BY DEF Grown, Belong, Serves, IssuedFor

LEMMA FlowsMatchOn ==
    ASSUME Grown, FlowsMatch, DOMAIN flows' = DOMAIN flows PROVE FlowsMatch'
<1> SUFFICES ASSUME NEW f \in DOMAIN flows
             PROVE  /\ flows'[f].group \in DOMAIN groups'
                    /\ flows'[f].session # Prov!None =>
                          /\ IssuedFor(flows[f].session, flows[f].email)'
                          /\ Serves(flows[f].group, sessions[flows[f].session].platform)'
  BY DEF FlowsMatch
<1>1. /\ flows'[f].email = flows[f].email /\ flows'[f].group = flows[f].group
      /\ flows'[f].session = flows[f].session
  BY DEF Grown
<1>2. flows[f].group \in DOMAIN groups
  BY DEF FlowsMatch
<1>3. CASE flows[f].session # Prov!None
  <2>1. /\ IssuedFor(flows[f].session, flows[f].email)
        /\ Serves(flows[f].group, sessions[flows[f].session].platform)
    BY <1>3 DEF FlowsMatch
  <2> QED
    BY <1>1, <1>2, <2>1 DEF Grown, Serves, IssuedFor
<1>4. CASE flows[f].session = Prov!None
  BY <1>1, <1>2, <1>4 DEF Grown
<1> QED
  BY <1>3, <1>4

LEMMA OneEachOn ==
    ASSUME Grown, OneEach, DOMAIN groups' = DOMAIN groups, DOMAIN accounts' = DOMAIN accounts
    PROVE  OneEach'
BY DEF Grown, OneEach

LEMMA CreateGroupHolds ==
    ASSUME ProvInv, NEW t \in Threads, Prov!CreateGroup(t) PROVE ProvInv'
<1> DEFINE l == thread[t]
           new == [name |-> l.email, platform |-> l.platform]
           n == [l EXCEPT !.group = Len(groups) + 1, !.pc = "find"]
<1>1. l \in Worker /\ Sound(l) /\ l.pc = "create group"
  BY WorkerTyped DEF Prov!CreateGroup, Prov!At
<1>2. Starting(l) /\ l.email \in Emails /\ l.platform \in Platforms /\ l.kind # "paste"
  BY <1>1 DEF Sound, Starting, Completing
<1>3. /\ groups' = Append(groups, new)
      /\ UNCHANGED <<accounts, sessions, flows, overlapped>>
  BY DEF Prov!CreateGroup
<1>4. new \in Group /\ groups \in Seq(Group)
  BY <1>2 DEF Group, ProvInv, ProvTyped
<1>5. /\ groups' \in Seq(Group) /\ DOMAIN groups' = DOMAIN groups \cup {Len(groups) + 1}
      /\ Len(groups) + 1 \notin DOMAIN groups /\ Len(groups) + 1 \in Nat
      /\ groups'[Len(groups) + 1] = new
      /\ \A g \in DOMAIN groups : groups'[g] = groups[g]
  BY <1>3, <1>4, AppendAdds
<1>6. Grown /\ RecordsTyped'
  BY <1>3, <1>5 DEF Grown, RecordsTyped, ProvInv, ProvTyped
<1>7. Belong' /\ FlowsMatch'
  BY <1>3, <1>6, BelongOn, FlowsMatchOn DEF ProvInv
<1>8. ~overlapped => OneEach'
  <2> SUFFICES ASSUME ~overlapped PROVE OneEach'
    OBVIOUS
  <2>1. OneEach /\ UpToDate(l)
    BY DEF ProvInv, AloneReuses
  <2>2. \A g \in DOMAIN groups : groups[g] # new
    <3>1. {g \in DOMAIN groups : groups[g].name = l.email /\ groups[g].platform = l.platform} = {}
      BY <1>1, <2>1 DEF UpToDate, Prov!OwnGroups
    <3>2. new.name = l.email /\ new.platform = l.platform
      OBVIOUS
    <3> HIDE DEF new
    <3> QED
      BY <3>1, <3>2
  <2> HIDE DEF new
  <2> QED
    BY <1>3, <1>5, <2>1, <2>2 DEF OneEach
<1>9. CASE Prov!Become(t, n)
  <2>1. /\ n \in Worker /\ n.pc = "find" /\ n.kind = l.kind /\ n.email = l.email
        /\ n.platform = l.platform /\ n.code = l.code /\ n.account = l.account
        /\ n.group = Len(groups) + 1
    BY <1>1, <1>5 DEF Worker
  <2>2. ProvStepped(t, n)
    BY <1>1, <1>3, <1>9, <2>1 DEF ProvStepped, Prov!Become, Prov!At
  <2>3. PICK m : m = n
    OBVIOUS
  <2>4. Serves(m.group, m.platform)' /\ Starting(m)' /\ m.email \in Emails /\ m.pc = "find"
        /\ m.platform \in Platforms /\ m.kind # "paste"
    <3>1. PICK i : i = Len(groups) + 1
      OBVIOUS
    <3>2. m.group = i /\ Serves(i, m.platform)'
      BY <1>5, <2>1, <2>3, <3>1 DEF Serves
    <3> QED
      BY <1>1, <1>2, <2>1, <2>3, <3>2 DEF Starting
  <2>5. Sound(m)' /\ UpToDate(m)'
    BY <2>4 DEF Sound, OnPlatform, UpToDate
  <2> QED
    BY <1>6, <1>7, <1>8, <2>2, <2>3, <2>5, ProvStep
<1>10. CASE Prov!Raised(t)
  <2>1. PICK m : ProvStepped(t, m) /\ Sound(m) /\ m.pc \in {"idle", "fail"}
    BY <1>1, <1>3, <1>10, RaisedSoundly DEF Prov!At
  <2>2. Sound(m)' /\ UpToDate(m)'
    BY <1>6, <2>1, SoundOn DEF UpToDate
  <2> QED
    BY <1>6, <1>7, <1>8, <2>1, <2>2, ProvStep
<1> QED
  BY <1>9, <1>10 DEF Prov!CreateGroup

\* An account is written anew, with the groups it may be in.
LEMMA AccountWritten ==
    ASSUME ProvInv, NEW a \in DOMAIN accounts, NEW r \in Account,
           accounts' = [accounts EXCEPT ![a] = r],
           r.name = accounts[a].name, r.platform = accounts[a].platform,
           r.code = accounts[a].code,
           \A g \in r.groups : Serves(g, r.platform),
           UNCHANGED <<groups, sessions, flows>>
    PROVE  Grown /\ RecordsTyped' /\ Belong' /\ FlowsMatch' /\ (OneEach => OneEach')
<1>1. /\ accounts' \in Seq(Account) /\ DOMAIN accounts' = DOMAIN accounts /\ accounts'[a] = r
      /\ \A b \in DOMAIN accounts : b # a => accounts'[b] = accounts[b]
  BY ExceptChanges DEF ProvInv, ProvTyped
<1>2. Grown /\ RecordsTyped'
  BY <1>1 DEF Grown, RecordsTyped, ProvInv, ProvTyped
<1>3. Belong'
  BY <1>1 DEF ProvInv, Belong, Serves, IssuedFor
<1>4. FlowsMatch' /\ (OneEach => OneEach')
  BY <1>1, <1>2, FlowsMatchOn, OneEachOn DEF ProvInv
<1> QED
  BY <1>2, <1>3, <1>4

\* A worker whose call answered goes on to store the flow.
LEMMA GoesOnToSave ==
    ASSUME ProvInv, NEW t \in Threads, Prov!Goto(t, "save"), UNCHANGED overlapped,
           thread[t].pc \in {"configure", "bind"}
    PROVE  \E n : ProvStepped(t, n) /\ Sound(n) /\ n.pc = "save"
<1> DEFINE l == thread[t]
           n == [l EXCEPT !.pc = "save"]
<1>1. l \in Worker /\ Sound(l)
  BY WorkerTyped
<1>2. /\ n \in Worker /\ n.pc = "save" /\ n.kind = l.kind /\ n.email = l.email
      /\ n.platform = l.platform /\ n.code = l.code /\ n.group = l.group /\ n.flow = l.flow
      /\ n.account = l.account
  BY <1>1 DEF Worker
<1>3. ProvStepped(t, n)
  BY <1>2 DEF ProvStepped, Prov!Goto, Prov!Become, Prov!At
<1>4. /\ Starting(l) \/ Completing(l)
      /\ l.email \in Emails /\ l.platform \in Platforms /\ Serves(l.group, l.platform)
      /\ l.account \in DOMAIN accounts
  BY <1>1 DEF Sound, OnPlatform
<1>5. l.account # Prov!None
  BY <1>4, RecordsAre DEF ProvInv, Prov!None
<1>6. Starting(n) \/ Completing(n)
  BY <1>2, <1>4, <1>5 DEF Starting, Completing
<1>7. Sound(n)
  BY <1>2, <1>4, <1>6 DEF Sound, OnPlatform
<1> QED
  BY <1>2, <1>3, <1>7

LEMMA WriterHolds ==
    ASSUME ProvInv, NEW t \in Threads, thread[t].pc \in {"configure", "bind"},
           NEW r \in Account,
           accounts' = [accounts EXCEPT ![thread[t].account] = r],
           r.name = accounts[thread[t].account].name,
           r.platform = accounts[thread[t].account].platform,
           r.code = accounts[thread[t].account].code,
           r.groups = thread[t].bindings \cup {thread[t].group},
           Prov!Goto(t, "save") \/ Prov!Raised(t),
           UNCHANGED <<groups, sessions, flows, overlapped>>
    PROVE  ProvInv'
<1> DEFINE l == thread[t]
<1>1. /\ l.account \in DOMAIN accounts /\ accounts[l.account].platform = l.platform
      /\ Serves(l.group, l.platform) /\ \A g \in l.bindings : Serves(g, l.platform)
  BY WorkerTyped DEF Sound, OnPlatform
<1>2. Grown /\ RecordsTyped' /\ Belong' /\ FlowsMatch' /\ (OneEach => OneEach')
  BY <1>1, AccountWritten
<1>3. \E n : ProvStepped(t, n) /\ Sound(n) /\ n.pc \in {"save", "idle", "fail"}
  BY GoesOnToSave, RaisedSoundly DEF Prov!At
<1>4. PICK n : ProvStepped(t, n) /\ Sound(n) /\ n.pc \in {"save", "idle", "fail"}
  BY <1>3
<1>5. Sound(n)' /\ UpToDate(n)'
  BY <1>2, <1>4, SoundOn DEF UpToDate
<1>6. ~overlapped => OneEach'
  BY <1>2 DEF ProvInv, AloneReuses
<1> QED
  BY <1>2, <1>4, <1>5, <1>6, ProvStep

LEMMA ConfigureHolds ==
    ASSUME ProvInv, NEW t \in Threads, Prov!Configure(t) PROVE ProvInv'
<1> DEFINE l == thread[t]
           a == accounts[l.account]
           r == Prov!Configured(l)
<1>1. l \in Worker /\ Sound(l) /\ l.pc = "configure"
  BY WorkerTyped DEF Prov!Configure, Prov!At
<1>2. l.account \in DOMAIN accounts /\ l.kind \in Prov!Types
  BY <1>1 DEF Sound, OnPlatform, Starting, Completing, Prov!Types
<1>3. a \in Account
  BY <1>2, RecordsAre DEF ProvInv
<1>4. /\ r \in Account /\ r.name = a.name /\ r.platform = a.platform /\ r.code = a.code
      /\ r.groups = l.bindings \cup {l.group}
  BY <1>1, <1>2, <1>3 DEF Prov!Configured, Account, Worker
<1> QED
  BY <1>1, <1>4, WriterHolds DEF Prov!Configure

LEMMA BindHolds ==
    ASSUME ProvInv, NEW t \in Threads, Prov!Bind(t) PROVE ProvInv'
<1> DEFINE l == thread[t]
           a == accounts[l.account]
           r == [a EXCEPT !.groups = l.bindings \cup {l.group}]
<1>1. l \in Worker /\ Sound(l) /\ l.pc = "bind"
  BY WorkerTyped DEF Prov!Bind, Prov!At
<1>2. l.account \in DOMAIN accounts
  BY <1>1 DEF Sound, OnPlatform
<1>3. a \in Account
  BY <1>2, RecordsAre DEF ProvInv
<1>4. /\ r \in Account /\ r.name = a.name /\ r.platform = a.platform /\ r.code = a.code
      /\ r.groups = l.bindings \cup {l.group}
  BY <1>1, <1>3 DEF Account, Worker
<1>5. accounts' = [accounts EXCEPT ![l.account] = r]
  BY DEF Prov!Bind
<1> HIDE DEF r
<1> QED
  BY <1>1, <1>4, <1>5, WriterHolds DEF Prov!Bind

LEMMA GenerateUrlHolds ==
    ASSUME ProvInv, NEW t \in Threads, Prov!GenerateUrl(t) PROVE ProvInv'
<1> DEFINE l == thread[t]
           new == [platform |-> l.platform, whose |-> l.email, spent |-> FALSE]
           i == Len(sessions) + 1
           n == [l EXCEPT !.flow = i, !.pc = "save"]
<1>1. l \in Worker /\ Sound(l) /\ l.pc = "url"
  BY WorkerTyped DEF Prov!GenerateUrl, Prov!At
<1>2. /\ Starting(l) /\ l.email \in Emails /\ l.platform \in Platforms /\ l.kind = "oauth"
      /\ Serves(l.group, l.platform)
  BY <1>1 DEF Sound, Starting, Completing, OnPlatform
<1>3. /\ sessions' = Append(sessions, new) /\ Prov!Become(t, n)
      /\ UNCHANGED <<groups, accounts, flows, overlapped>>
  BY DEF Prov!GenerateUrl
<1>4. new \in Handoff /\ sessions \in Seq(Handoff)
  BY <1>2 DEF Handoff, ProvInv, ProvTyped
<1>5. /\ sessions' \in Seq(Handoff) /\ DOMAIN sessions' = DOMAIN sessions \cup {i}
      /\ i \notin DOMAIN sessions /\ i \in Nat /\ sessions'[i] = new
      /\ \A s \in DOMAIN sessions : sessions'[s] = sessions[s]
  BY <1>3, <1>4, AppendAdds
<1>6. Grown /\ RecordsTyped'
  BY <1>3, <1>5 DEF Grown, RecordsTyped, ProvInv, ProvTyped
<1>7. Belong' /\ FlowsMatch' /\ (OneEach => OneEach')
  BY <1>3, <1>6, BelongOn, FlowsMatchOn, OneEachOn DEF ProvInv
<1>8. /\ n \in Worker /\ n.pc = "save" /\ n.kind = l.kind /\ n.email = l.email
      /\ n.platform = l.platform /\ n.code = l.code /\ n.account = l.account
      /\ n.group = l.group /\ n.flow = i
  BY <1>1, <1>5 DEF Worker
<1>9. ProvStepped(t, n)
  BY <1>1, <1>3, <1>8 DEF ProvStepped, Prov!Become, Prov!At
<1>10. PICK m : m = n
  OBVIOUS
<1>11. /\ Serves(m.group, m.platform) /\ m.email \in Emails /\ m.platform \in Platforms
       /\ m.pc = "save" /\ m.kind = "oauth" /\ m.code = Prov!None
       /\ m.flow \in DOMAIN sessions' /\ sessions'[m.flow].whose = m.email
       /\ sessions'[m.flow].platform = m.platform
  <2>1. sessions'[i].whose = l.email /\ sessions'[i].platform = l.platform
    BY <1>5
  <2>2. l.code = Prov!None
    BY <1>2 DEF Starting
  <2> HIDE DEF n, i
  <2> QED
    BY <1>2, <1>5, <1>8, <1>10, <2>1, <2>2
<1>12. Starting(m)' /\ OnPlatform(m)'
  BY <1>3, <1>11 DEF Starting, OnPlatform, IssuedFor, Serves
<1>13. Sound(m)' /\ UpToDate(m)'
  BY <1>11, <1>12 DEF Sound, UpToDate
<1> QED
  BY <1>6, <1>7, <1>9, <1>10, <1>13, ProvStep DEF ProvInv, AloneReuses

LEMMA CreateAccountHolds ==
    ASSUME ProvInv, NEW t \in Threads, Prov!CreateAccount(t) PROVE ProvInv'
<1> DEFINE l == thread[t]
           new == [name |-> l.email, platform |-> l.platform, groups |-> {l.group},
                   type |-> IF l.kind = "paste" THEN "oauth" ELSE l.kind, code |-> l.code]
           i == Len(accounts) + 1
           n == [l EXCEPT !.account = i, !.pc = "save"]
<1>1. l \in Worker /\ Sound(l) /\ l.pc = "create account"
  BY WorkerTyped DEF Prov!CreateAccount, Prov!At
<1>2. /\ Starting(l) \/ Completing(l)
      /\ l.email \in Emails /\ l.platform \in Platforms /\ Serves(l.group, l.platform)
  BY <1>1 DEF Sound, OnPlatform
<1>3. /\ accounts' = Append(accounts, new)
      /\ Prov!Become(t, n) \/ Prov!Raised(t)
      /\ UNCHANGED <<groups, sessions, flows, overlapped>>
  BY DEF Prov!CreateAccount
<1>4. new \in Account /\ accounts \in Seq(Account)
  BY <1>1, <1>2 DEF Account, Worker, ProvInv, ProvTyped, Starting, Completing, Prov!Types
<1>5. /\ accounts' \in Seq(Account) /\ DOMAIN accounts' = DOMAIN accounts \cup {i}
      /\ i \notin DOMAIN accounts /\ i \in Nat \ {0} /\ accounts'[i] = new
      /\ \A a \in DOMAIN accounts : accounts'[a] = accounts[a]
  BY <1>3, <1>4, AppendAdds
<1>6. Grown /\ RecordsTyped'
  BY <1>3, <1>5 DEF Grown, RecordsTyped, ProvInv, ProvTyped
<1>7. l.code # Prov!None => IssuedFor(l.code, l.email) /\ l.kind = "paste"
  BY <1>2 DEF Starting, Completing, ProvInv, FlowsMatch
<1>8. Belong'
  <2>1. /\ new.code # Prov!None => IssuedFor(new.code, new.name)
        /\ \A g \in new.groups : Serves(g, new.platform)
    BY <1>2, <1>7
  <2> HIDE DEF new
  <2> QED
    BY <1>3, <1>5, <2>1 DEF ProvInv, Belong, IssuedFor, Serves
<1>9. FlowsMatch'
  BY <1>3, <1>6, FlowsMatchOn DEF ProvInv
<1>10. ~overlapped => OneEach'
  <2> SUFFICES ASSUME ~overlapped PROVE OneEach'
    OBVIOUS
  <2>1. OneEach /\ UpToDate(l)
    BY DEF ProvInv, AloneReuses
  <2>2. ASSUME l.code # Prov!None, NEW a \in DOMAIN accounts
        PROVE  ~(accounts[a].name = l.email /\ accounts[a].platform = l.platform)
    BY <1>1, <1>7, <2>1, <2>2 DEF UpToDate, Prov!Named
  <2>3. new.name = l.email /\ new.platform = l.platform /\ new.code = l.code
    OBVIOUS
  <2> HIDE DEF new
  <2> QED
    BY <1>3, <1>5, <2>1, <2>2, <2>3 DEF OneEach
<1>11. CASE Prov!Become(t, n)
  <2>1. /\ n \in Worker /\ n.pc = "save" /\ n.kind = l.kind /\ n.email = l.email
        /\ n.platform = l.platform /\ n.code = l.code /\ n.account = i
        /\ n.group = l.group /\ n.flow = l.flow
    BY <1>1, <1>5 DEF Worker
  <2>2. ProvStepped(t, n)
    BY <1>1, <1>3, <1>11, <2>1 DEF ProvStepped, Prov!Become, Prov!At
  <2>3. Starting(n) \/ Completing(n)
    BY <1>1, <1>2, <1>5, <2>1 DEF Starting, Completing, Prov!None
  <2>4. Sound(n)
    BY <1>2, <2>1, <2>3 DEF Sound, OnPlatform
  <2>5. PICK m : m = n
    OBVIOUS
  <2>6. Sound(m)' /\ UpToDate(m)'
    BY <1>6, <2>1, <2>4, <2>5, SoundOn DEF UpToDate
  <2> QED
    BY <1>6, <1>8, <1>9, <1>10, <2>2, <2>5, <2>6, ProvStep
<1>12. CASE Prov!Raised(t)
  <2>1. PICK m : ProvStepped(t, m) /\ Sound(m) /\ m.pc \in {"idle", "fail"}
    BY <1>1, <1>3, <1>12, RaisedSoundly DEF Prov!At
  <2>2. Sound(m)' /\ UpToDate(m)'
    BY <1>6, <2>1, SoundOn DEF UpToDate
  <2> QED
    BY <1>6, <1>8, <1>9, <1>10, <2>1, <2>2, ProvStep
<1> QED
  BY <1>3, <1>11, <1>12

LEMMA SaveFlowHolds ==
    ASSUME ProvInv, NEW t \in Threads, Prov!SaveFlow(t) PROVE ProvInv'
<1> DEFINE l == thread[t]
           new == IF l.account = Prov!None THEN Prov!PendingFlow(l) ELSE Prov!CompletedFlow(l)
           i == Len(flows) + 1
<1>1. l \in Worker /\ Sound(l) /\ l.pc = "save" /\ l.kind # "paste"
  BY WorkerTyped DEF Prov!SaveFlow, Prov!At
<1>2. Starting(l) /\ l.email \in Emails /\ Serves(l.group, l.platform)
  BY <1>1 DEF Sound, Completing, OnPlatform
<1>3. /\ flows' = Append(flows, new) /\ Prov!Become(t, Prov!Idle)
      /\ UNCHANGED <<groups, accounts, sessions, overlapped>>
  BY DEF Prov!SaveFlow, Prov!upstream
<1>4. /\ new \in Flow /\ flows \in Seq(Flow) /\ new.group = l.group /\ new.email = l.email
      /\ new.session # Prov!None => new.session = l.flow /\ l.account = Prov!None
  BY <1>1, <1>2
     DEF Flow, Worker, ProvInv, ProvTyped, Prov!PendingFlow, Prov!CompletedFlow, Prov!None
<1> HIDE DEF new
<1>5. /\ flows' \in Seq(Flow) /\ DOMAIN flows' = DOMAIN flows \cup {i}
      /\ flows'[i] = new /\ \A f \in DOMAIN flows : flows'[f] = flows[f]
  BY <1>3, <1>4, AppendAdds
<1>6. Grown /\ RecordsTyped'
  BY <1>3, <1>5 DEF Grown, RecordsTyped, ProvInv, ProvTyped
<1>7. Belong' /\ (OneEach => OneEach')
  BY <1>3, <1>6, BelongOn, OneEachOn DEF ProvInv
<1>8. FlowsMatch'
  <2>1. /\ new.group \in DOMAIN groups
        /\ new.session # Prov!None =>
              /\ IssuedFor(new.session, new.email)
              /\ Serves(new.group, sessions[new.session].platform)
    BY <1>1, <1>2, <1>4 DEF Starting, Serves
  <2> QED
    BY <1>3, <1>5, <2>1 DEF ProvInv, FlowsMatch, IssuedFor, Serves
<1>9. ProvStepped(t, Prov!Idle)
  BY <1>1, <1>3, IdleWorker DEF ProvStepped, Prov!Become, Prov!At
<1>10. Sound(Prov!Idle)' /\ UpToDate(Prov!Idle)'
  BY IdleWorker DEF Sound, UpToDate
<1> QED
  BY <1>6, <1>7, <1>8, <1>9, <1>10, ProvStep DEF ProvInv, AloneReuses

LEMMA PasteHolds ==
    ASSUME ProvInv, NEW t \in Threads, NEW s \in DOMAIN sessions, NEW bare \in BOOLEAN,
           Prov!Paste(t, s, bare)
    PROVE  ProvInv'
<1>1. PICK f \in Prov!FlowOf(s, bare) :
         Prov!Begin(t, [Prov!Idle EXCEPT !.kind = "paste", !.email = flows[f].email,
                              !.group = flows[f].group, !.flow = f, !.code = s,
                              !.known = flows[f].account, !.pc = "platform"])
  BY DEF Prov!Paste
<1> DEFINE n == [Prov!Idle EXCEPT !.kind = "paste", !.email = flows[f].email,
                      !.group = flows[f].group, !.flow = f, !.code = s,
                      !.known = flows[f].account, !.pc = "platform"]
<1>2. f \in DOMAIN flows /\ flows[f].session = s
  BY DEF Prov!FlowOf
<1>3. s \in Nat \ {0} /\ f \in Nat /\ flows[f] \in Flow
  BY <1>2, RecordsAre DEF ProvInv
<1>4. flows[f].email \in Emails /\ flows[f].group \in Nat /\ flows[f].account \in Nat
  BY <1>3 DEF Flow
<1>5. /\ n \in Worker /\ n.pc = "platform" /\ n.kind = "paste" /\ n.email = flows[f].email
      /\ n.group = flows[f].group /\ n.flow = f /\ n.code = s
  BY <1>3, <1>4, IdleWorker DEF Worker, Prov!Idle
<1>6. Prov!Begin(t, n) /\ UNCHANGED <<groups, accounts, sessions, flows>>
  BY <1>1 DEF Prov!Paste, Prov!upstream
<1> HIDE DEF n
<1>7. Sound(n)
  BY <1>2, <1>3, <1>4, <1>5 DEF Sound, Completing, OnPlatform, Prov!None
<1> QED
  BY <1>5, <1>6, <1>7, ProvBegins

LEMMA StartHolds ==
    ASSUME ProvInv, NEW t \in Threads, NEW e \in Emails, NEW p \in Platforms,
           Prov!StartOAuth(t, e, p) \/ Prov!StartApiKey(t, e, p)
    PROVE  ProvInv'
<1>1. PICK k \in {"oauth", "apikey"} :
         Prov!Begin(t, [Prov!Idle EXCEPT !.kind = k, !.email = e, !.platform = p,
                                         !.pc = "group"])
  BY DEF Prov!StartOAuth, Prov!StartApiKey
<1> DEFINE n == [Prov!Idle EXCEPT !.kind = k, !.email = e, !.platform = p, !.pc = "group"]
<1>2. /\ n \in Worker /\ n.pc = "group" /\ n.kind = k /\ n.email = e /\ n.platform = p
      /\ n.code = Prov!None /\ n.account = Prov!None
  BY IdleWorker DEF Worker, Prov!Idle
<1>3. Prov!Begin(t, n) /\ UNCHANGED <<groups, accounts, sessions, flows>>
  BY <1>1 DEF Prov!StartOAuth, Prov!StartApiKey, Prov!upstream
<1> HIDE DEF n
<1>4. Sound(n)
  BY <1>2 DEF Sound, Starting, OnPlatform
<1> QED
  BY <1>2, <1>3, <1>4, ProvBegins

\* A session is spent.
LEMMA SessionSpent ==
    ASSUME ProvInv, NEW s \in DOMAIN sessions, sessions' = [sessions EXCEPT ![s].spent = TRUE],
           UNCHANGED <<groups, accounts, flows>>
    PROVE  Grown /\ RecordsTyped' /\ Belong' /\ FlowsMatch' /\ (OneEach => OneEach')
<1> DEFINE r == [sessions[s] EXCEPT !.spent = TRUE]
<1>1. sessions[s] \in Handoff
  BY RecordsAre DEF ProvInv
<1>2. /\ r \in Handoff /\ r.platform = sessions[s].platform /\ r.whose = sessions[s].whose
  BY <1>1 DEF Handoff
<1>3. sessions' = [sessions EXCEPT ![s] = r]
  OBVIOUS
<1> HIDE DEF r
<1>4. /\ sessions' \in Seq(Handoff) /\ DOMAIN sessions' = DOMAIN sessions /\ sessions'[s] = r
      /\ \A c \in DOMAIN sessions : c # s => sessions'[c] = sessions[c]
  <2>1. sessions \in Seq(Handoff)
    BY DEF ProvInv, ProvTyped
  <2>2. PICK spent : spent = [sessions EXCEPT ![s] = r]
    OBVIOUS
  <2>3. /\ spent \in Seq(Handoff) /\ DOMAIN spent = DOMAIN sessions /\ spent[s] = r
        /\ \A c \in DOMAIN sessions : c # s => spent[c] = sessions[c]
    BY <1>2, <2>1, <2>2
  <2>4. sessions' = spent
    BY <1>3, <2>2
  <2> QED
    BY <2>3, <2>4
<1>5. Grown /\ RecordsTyped'
  BY <1>2, <1>4 DEF Grown, RecordsTyped, ProvInv, ProvTyped
<1> QED
  BY <1>5, BelongOn, FlowsMatchOn, OneEachOn DEF ProvInv

\* The session of the flow that is being completed.
LEMMA SessionOfFlow ==
    ASSUME ProvInv, NEW l, Completing(l)
    PROVE  /\ flows[l.flow].session \in DOMAIN sessions
           /\ Serves(l.group, sessions[flows[l.flow].session].platform)
BY DEF Completing, ProvInv, FlowsMatch, IssuedFor

LEMMA ExchangeHolds ==
    ASSUME ProvInv, NEW t \in Threads, Prov!Exchange(t) PROVE ProvInv'
<1> DEFINE l == thread[t]
           s == flows[l.flow].session
           succ == IF sessions[s].spent \/ sessions[s].platform # l.platform
                   THEN "fail" ELSE "find"
           n == [l EXCEPT !.pc = succ]
<1>1. l \in Worker /\ Sound(l) /\ l.pc = "exchange"
  BY WorkerTyped DEF Prov!Exchange, Prov!At
<1>2. Completing(l) /\ l.email \in Emails /\ l.platform \in Platforms
  BY <1>1 DEF Sound, Starting
<1>3. s \in DOMAIN sessions /\ Serves(l.group, sessions[s].platform)
  BY <1>2, SessionOfFlow
<1>4. /\ sessions' = [sessions EXCEPT ![s].spent = TRUE] /\ Prov!Goto(t, succ)
      /\ UNCHANGED <<groups, accounts, flows, overlapped>>
  BY DEF Prov!Exchange
<1>5. Grown /\ RecordsTyped' /\ Belong' /\ FlowsMatch' /\ (OneEach => OneEach')
  BY <1>3, <1>4, SessionSpent
<1>6. succ \in {"fail", "find"} /\ (succ = "find" => sessions[s].platform = l.platform)
  OBVIOUS
<1> HIDE DEF succ
<1>7. /\ n \in Worker /\ n.pc = succ /\ n.kind = l.kind /\ n.email = l.email
      /\ n.platform = l.platform /\ n.code = l.code /\ n.group = l.group /\ n.flow = l.flow
  BY <1>1, <1>6 DEF Worker
<1>8. ProvStepped(t, n)
  BY <1>1, <1>4, <1>7 DEF ProvStepped, Prov!Goto, Prov!Become, Prov!At
<1> HIDE DEF n
<1>9. Sound(n)
  BY <1>2, <1>3, <1>6, <1>7 DEF Sound, Completing, OnPlatform
<1>10. PICK m : m = n
  OBVIOUS
<1>11. Sound(m)' /\ UpToDate(m)'
  BY <1>5, <1>6, <1>7, <1>9, <1>10, SoundOn DEF UpToDate
<1> QED
  BY <1>5, <1>8, <1>10, <1>11, ProvStep DEF ProvInv, AloneReuses

\* The flow is stored as it was read, with its outcome.
LEMMA OutcomeHolds ==
    ASSUME ProvInv, NEW t \in Threads, thread[t].pc # "idle", thread[t].kind = "paste",
           NEW status \in {"completed", "failed"}, NEW account \in Nat,
           flows' = [flows EXCEPT ![thread[t].flow].status = status,
                                  ![thread[t].flow].account = account],
           Prov!Become(t, Prov!Idle), UNCHANGED <<groups, accounts, sessions, overlapped>>
    PROVE  ProvInv'
<1> DEFINE f == thread[t].flow
           r == [flows[f] EXCEPT !.status = status, !.account = account]
<1>1. Completing(thread[t])
  BY WorkerTyped DEF Sound, Starting
<1>2. f \in DOMAIN flows /\ flows[f] \in Flow
  BY <1>1, RecordsAre DEF Completing, ProvInv
<1>3. /\ r \in Flow /\ r.email = flows[f].email /\ r.group = flows[f].group
      /\ r.session = flows[f].session
  BY <1>2 DEF Flow
<1>4. flows' = [flows EXCEPT ![f] = r]
  BY <1>2 DEF ProvInv, ProvTyped
<1> HIDE DEF r
<1>5. /\ flows' \in Seq(Flow) /\ DOMAIN flows' = DOMAIN flows /\ flows'[f] = r
      /\ \A g \in DOMAIN flows : g # f => flows'[g] = flows[g]
  BY <1>2, <1>3, <1>4, ExceptChanges DEF ProvInv, ProvTyped
<1>6. Grown /\ RecordsTyped'
  BY <1>3, <1>5 DEF Grown, RecordsTyped, ProvInv, ProvTyped
<1>7. Belong' /\ FlowsMatch' /\ (OneEach => OneEach')
  BY <1>5, <1>6, BelongOn, FlowsMatchOn, OneEachOn DEF ProvInv
<1>8. ProvStepped(t, Prov!Idle)
  BY IdleWorker DEF ProvStepped, Prov!Become, Prov!At
<1>9. Sound(Prov!Idle)' /\ UpToDate(Prov!Idle)'
  BY IdleWorker DEF Sound, UpToDate
<1> QED
  BY <1>6, <1>7, <1>8, <1>9, ProvStep DEF ProvInv, AloneReuses

LEMMA CompleteFlowHolds ==
    ASSUME ProvInv, NEW t \in Threads, Prov!CompleteFlow(t) PROVE ProvInv'
<1>1. thread[t].account \in Nat
  BY WorkerTyped DEF Worker
<1> QED
  BY <1>1, OutcomeHolds DEF Prov!CompleteFlow, Prov!At, Prov!upstream

LEMMA FailFlowHolds ==
    ASSUME ProvInv, NEW t \in Threads, Prov!FailFlow(t) PROVE ProvInv'
<1>1. thread[t].known \in Nat
  BY WorkerTyped DEF Worker
<1>2. thread[t].kind = "paste"
  BY WorkerTyped DEF Sound, Starting, Completing, Prov!FailFlow, Prov!At
<1> QED
  BY <1>1, <1>2, OutcomeHolds DEF Prov!FailFlow, Prov!At, Prov!upstream

LEMMA CallFailsHolds ==
    ASSUME ProvInv, NEW t \in Threads, Prov!CallFails(t) PROVE ProvInv'
<1> DEFINE s == flows[thread[t].flow].session
<1>1. /\ ~Prov!At(t, "idle") /\ Prov!Raised(t)
      /\ UNCHANGED <<groups, accounts, flows, overlapped>>
      /\ sessions' = IF Prov!At(t, "exchange") THEN [sessions EXCEPT ![s].spent = TRUE]
                     ELSE sessions
  BY DEF Prov!CallFails, Prov!At
<1>2. Grown /\ RecordsTyped' /\ Belong' /\ FlowsMatch' /\ (OneEach => OneEach')
  <2>1. CASE Prov!At(t, "exchange")
    <3>1. Completing(thread[t])
      BY <2>1, WorkerTyped DEF Sound, Starting, Prov!At
    <3> QED
      BY <1>1, <2>1, <3>1, SessionOfFlow, SessionSpent
  <2>2. CASE ~Prov!At(t, "exchange")
    <3>1. Grown /\ RecordsTyped'
      BY <1>1, <2>2 DEF Grown, RecordsTyped, ProvInv, ProvTyped
    <3> QED
      BY <1>1, <3>1, BelongOn, FlowsMatchOn, OneEachOn DEF ProvInv
  <2> QED
    BY <2>1, <2>2
<1>3. PICK m : ProvStepped(t, m) /\ Sound(m) /\ m.pc \in {"idle", "fail"}
  BY <1>1, RaisedSoundly
<1>4. Sound(m)' /\ UpToDate(m)'
  BY <1>2, <1>3, SoundOn DEF UpToDate
<1> QED
  BY <1>2, <1>3, <1>4, ProvStep DEF ProvInv, AloneReuses

LEMMA ProvCrashHolds ==
    ASSUME ProvInv, Prov!Crash PROVE ProvInv'
<1>1. \A t \in Threads : thread'[t] = Prov!Idle
  BY DEF Prov!Crash
<1>2. UNCHANGED <<groups, accounts, sessions, flows, overlapped>>
  BY DEF Prov!Crash, Prov!upstream
<1>3. ProvTyped'
  BY <1>1, <1>2, IdleWorker DEF Prov!Crash, ProvInv, ProvTyped
<1>4. Belong' /\ FlowsMatch' /\ (OneEach => OneEach')
  BY <1>2 DEF ProvInv, Belong, FlowsMatch, OneEach, IssuedFor, Serves
<1>5. \A t \in Threads : Sound(thread[t])' /\ UpToDate(thread[t])'
  BY <1>1, IdleWorker DEF Sound, UpToDate
<1> QED
  BY <1>1, <1>2, <1>3, <1>4, <1>5, IdleWorker DEF ProvInv, AloneReuses, Prov!At

LEMMA ProvNext ==
    ASSUME Prov!ProvisioningAssumption, ProvInv, [Prov!Next]_Prov!vars
    PROVE  ProvInv'
<1>1. ASSUME NEW t \in Threads, Prov!Step(t) PROVE ProvInv'
  <2>1. OAuthPlatforms \subseteq Platforms /\ DefaultPlatform \in Platforms
    BY DEF Prov!ProvisioningAssumption
  <2> QED
    BY <1>1, <2>1, ResolveGroupHolds, CreateGroupHolds, FindAccountHolds, ConfigureHolds,
       GenerateUrlHolds, CreateAccountHolds, SaveFlowHolds, LookUpPlatformHolds,
       ExchangeHolds, ReadBindingsHolds, BindHolds, CompleteFlowHolds, FailFlowHolds,
       CallFailsHolds
       DEF Prov!Step
<1>2. CASE UNCHANGED Prov!vars
  <2>1. UNCHANGED <<groups, accounts, sessions, flows, thread, overlapped>>
    BY <1>2 DEF Prov!vars, Prov!upstream
  <2>2. ProvTyped' /\ Belong' /\ FlowsMatch'
    BY <2>1 DEF ProvInv, ProvTyped, Belong, FlowsMatch, IssuedFor, Serves
  <2>3. ASSUME NEW t \in Threads PROVE Sound(thread[t])'
    <3>1. PICK m : m = thread[t]
      OBVIOUS
    <3>2. Sound(m)' /\ thread'[t] = m
      BY <2>1, <3>1, SoundOn DEF Grown, ProvInv
    <3> QED
      BY <3>2 DEF Sound, Starting, Completing, OnPlatform
  <2>4. AloneReuses'
    <3>1. OneEach => OneEach'
      BY <2>1 DEF OneEach
    <3>2. ASSUME NEW t \in Threads, UpToDate(thread[t]) PROVE UpToDate(thread[t])'
      BY <2>1, <3>2 DEF UpToDate, Prov!OwnGroups, Prov!Named
    <3> QED
      BY <2>1, <3>1, <3>2 DEF ProvInv, AloneReuses, Prov!At
  <2> QED
    BY <2>2, <2>3, <2>4 DEF ProvInv
<1> QED
  BY <1>1, <1>2, StartHolds, PasteHolds, ProvCrashHolds DEF Prov!Next

LEMMA AtMostOne ==
    ASSUME NEW S, \A x, y \in S : x = y PROVE Prov!Cardinality(S) <= 1
<1>1. Cardinality(S) <= 1
  <2>1. CASE S = {}
    BY <2>1, FS_EmptySet
  <2>2. ASSUME NEW x \in S PROVE Cardinality(S) <= 1
    <3>1. S = {x}
      OBVIOUS
    <3> QED
      BY <3>1, FS_Singleton
  <2> QED
    BY <2>1, <2>2
<1> QED
  BY <1>1 DEF Prov!Cardinality, Cardinality, Prov!IsFiniteSet, IsFiniteSet

LEMMA ProvMeansReuse ==
    ASSUME ProvInv
    PROVE  Prov!RetriesReuse
<1> SUFFICES ASSUME ~overlapped, NEW e \in Emails, NEW p \in Platforms
             PROVE  /\ Prov!Cardinality({g \in DOMAIN groups :
                          groups[g] = [name |-> e, platform |-> p]}) <= 1
                    /\ Prov!Cardinality({a \in Prov!Named(e, p) :
                          accounts[a].code # Prov!None}) <= 1
  BY DEF Prov!RetriesReuse
<1>1. OneEach
  BY DEF ProvInv, AloneReuses
<1>2. \A g, h \in {i \in DOMAIN groups : groups[i] = [name |-> e, platform |-> p]} : g = h
  BY <1>1 DEF OneEach
<1>3. \A a, b \in {c \in Prov!Named(e, p) : accounts[c].code # Prov!None} : a = b
  BY <1>1 DEF OneEach, Prov!Named
<1> QED
  BY <1>2, <1>3, AtMostOne

\* What a change of an account has to respect.
KeepsIts(a) ==
    /\ accounts[a].groups \subseteq accounts'[a].groups
    /\ accounts[a].type = "oauth" => accounts'[a].type = "oauth"

LEMMA ProvKeepsIts ==
    ASSUME Prov!ProvisioningAssumption, ProvInv, [Prov!Next]_Prov!vars, ~overlapped',
           NEW a \in DOMAIN accounts
    PROVE  KeepsIts(a)
<1> USE DEF KeepsIts
<1>1. accounts \in Seq(Account) /\ accounts[a] \in Account
  BY RecordsAre DEF ProvInv, ProvTyped
<1>2. CASE UNCHANGED accounts
  BY <1>2
<1>3. ASSUME NEW t \in Threads, Prov!Configure(t) PROVE KeepsIts(a)
  <2> DEFINE l == thread[t]
             b == accounts[l.account]
  <2>1. l.pc = "configure" /\ UNCHANGED overlapped
        /\ accounts' = [accounts EXCEPT ![l.account] = Prov!Configured(l)]
    BY <1>3 DEF Prov!Configure, Prov!At
  <2>2. /\ l.account \in DOMAIN accounts /\ l.kind \in {"oauth", "apikey"}
        /\ l.bindings = b.groups
        /\ l.kind = "apikey" => b.type = "apikey"
    BY <2>1, WorkerTyped
       DEF Sound, OnPlatform, Starting, Completing, ProvInv, AloneReuses, UpToDate
  <2>3. b \in Account
    BY <2>2, RecordsAre DEF ProvInv
  <2>4. /\ b.groups \subseteq Prov!Configured(l).groups
        /\ b.type = "oauth" => Prov!Configured(l).type = "oauth"
    BY <2>2, <2>3 DEF Prov!Configured, Account
  <2> QED
    BY <1>1, <2>1, <2>2, <2>4
<1>4. ASSUME NEW t \in Threads, Prov!Bind(t) PROVE KeepsIts(a)
  <2> DEFINE l == thread[t]
             b == accounts[l.account]
             r == [b EXCEPT !.groups = l.bindings \cup {l.group}]
  <2>1. l.pc = "bind" /\ UNCHANGED overlapped /\ accounts' = [accounts EXCEPT ![l.account] = r]
    BY <1>4 DEF Prov!Bind, Prov!At
  <2>2. l.account \in DOMAIN accounts /\ l.bindings = b.groups
    BY <2>1, WorkerTyped DEF Sound, OnPlatform, ProvInv, AloneReuses, UpToDate
  <2>3. b \in Account
    BY <2>2, RecordsAre DEF ProvInv
  <2>4. b.groups \subseteq r.groups /\ r.type = b.type
    BY <2>2, <2>3 DEF Account
  <2> HIDE DEF r
  <2> QED
    BY <1>1, <2>1, <2>2, <2>4
<1>5. ASSUME NEW t \in Threads, Prov!CreateAccount(t) PROVE KeepsIts(a)
  <2>1. PICK new : accounts' = Append(accounts, new)
    BY <1>5 DEF Prov!CreateAccount
  <2>2. accounts'[a] = accounts[a]
    BY <1>1, <2>1
  <2> QED
    BY <2>2
<1> QED
  BY <1>2, <1>3, <1>4, <1>5
     DEF Prov!Next, Prov!Step, Prov!vars, Prov!upstream, Prov!StartOAuth, Prov!StartApiKey,
         Prov!Paste, Prov!Crash, Prov!ResolveGroup, Prov!CreateGroup, Prov!FindAccount,
         Prov!GenerateUrl, Prov!SaveFlow, Prov!LookUpPlatform, Prov!Exchange,
         Prov!ReadBindings, Prov!CompleteFlow, Prov!FailFlow, Prov!CallFails

-----------------------------------------------------------------------------
(* Notification: what is reported has lasted, for any set of scopes, any   *)
(* duration and any number of evaluations of the rule.                     *)

RuleState == [firing : BOOLEAN, breach : Rule!Never..Rule!BreachCap,
              alert : Rule!Never..Rule!AlertCap]
Evaluation == [pc : {"idle", "collect", "read", "next", "store", "deliver"}, lag : 0..MaxLag,
               todo : SUBSET Scopes, samples : SUBSET Scopes, scope : Scopes \cup {"none"},
               next : RuleState, action : {"hold", "good", "bad"}, attempts : Nat]

-----------------------------------------------------------------------------
(* The invariant.                                                          *)

RuleTyped ==
    /\ state \in [Scopes -> RuleState]
    /\ good \in [Scopes -> 0..Rule!BreachCap]
    /\ thread \in [Threads -> Evaluation]
    /\ \A t \in Threads :
          thread[t].pc \in {"store", "deliver"} => thread[t].scope \in Scopes \ thread[t].todo

\* A breach that is stored or about to be has begun since the last good evaluation of its
\* scope, and one that was reported has lasted.
BreachSince(r, s) == r.breach # Rule!Never => r.breach <= good[s]
LongEnough(r, s, lag) == r.firing => good[s] - lag >= For

\* The scopes that an evaluation has still to decide on.
Undecided(l) ==
    IF l.pc \in {"collect", "read"} THEN Scopes
    ELSE IF l.pc \in {"next", "store", "deliver"} THEN l.todo ELSE {}

\* None of them has had an evaluation since this one began.
DecidesOnTheLatest(l) ==
    \A s \in Undecided(l) : good[s] >= l.lag /\ LongEnough(state[s], s, l.lag)

StoresWhatLasted(l) ==
    l.pc = "store" =>
        /\ BreachSince(l.next, l.scope) /\ LongEnough(l.next, l.scope, l.lag)
        /\ l.action = "bad" => l.next.firing
        /\ l.scope \notin l.samples => ~l.next.firing /\ l.next.breach = Rule!Never

AloneSustains ==
    ~overlapped =>
        /\ \A r, t \in Threads : ~Rule!At(r, "idle") /\ ~Rule!At(t, "idle") => r = t
        /\ \A s \in Scopes : BreachSince(state[s], s) /\ LongEnough(state[s], s, 0)
        /\ \A t \in Threads : DecidesOnTheLatest(thread[t]) /\ StoresWhatLasted(thread[t])

RuleInv == RuleTyped /\ AloneSustains

-----------------------------------------------------------------------------
(* Every step.                                                             *)

LEMMA BoundsTyped ==
    ASSUME Rule!NotificationAssumption
    PROVE  /\ For \in Nat /\ MaxLag \in Nat /\ Rule!Never = -1
           /\ Rule!BreachCap = For + MaxLag /\ Rule!BreachCap \in Nat
           /\ Rule!AlertCap \in Nat /\ MaxLag <= Rule!AlertCap
BY DEF Rule!NotificationAssumption, Rule!Never, Rule!BreachCap, Rule!AlertCap

\* An age grows up to its cap, and one that is not larger does not get so.
LEMMA OlderTyped ==
    ASSUME NEW cap \in Nat, NEW age \in Rule!Never..cap
    PROVE  /\ Rule!Older(age, cap) \in Rule!Never..cap
           /\ Rule!Older(age, cap) = Rule!Never <=> age = Rule!Never
           /\ \A b \in 0..cap : age <= b => Rule!Older(age, cap) <= Rule!Older(b, cap)
BY DEF Rule!Older, Rule!Never

LEMMA OlderGrows ==
    ASSUME NEW cap \in Nat, NEW age \in 0..cap
    PROVE  /\ Rule!Older(age, cap) \in 0..cap
           /\ Rule!Older(age, cap) >= age
           /\ Rule!Older(age, cap) = IF age = cap THEN age ELSE age + 1
BY DEF Rule!Older, Rule!Never

LEMMA CalmTyped ==
    ASSUME Rule!NotificationAssumption, NEW r \in RuleState
    PROVE  /\ Rule!Calm(r) \in RuleState
           /\ ~Rule!Calm(r).firing /\ Rule!Calm(r).breach = Rule!Never
<1>1. Rule!Never \in Rule!Never..Rule!BreachCap
  BY BoundsTyped
<1> QED
  BY <1>1 DEF Rule!Calm, RuleState

LEMMA IdleEvaluation ==
    ASSUME Rule!NotificationAssumption
    PROVE  Rule!Idle \in Evaluation /\ Rule!Idle.pc = "idle" /\ Rule!Idle.lag = 0
<1>1. Rule!NoState \in RuleState
  BY BoundsTyped DEF Rule!NoState, RuleState
<1> QED
  BY <1>1, BoundsTyped DEF Rule!Idle, Evaluation

LEMMA RuleInit ==
    ASSUME Rule!NotificationAssumption, Rule!Init PROVE RuleInv
<1>1. /\ state = [s \in Scopes |-> Rule!NoState]
      /\ good = [s \in Scopes |-> Rule!BreachCap]
      /\ \A t \in Threads : thread[t] = Rule!Idle
      /\ thread = [t \in Threads |-> Rule!Idle]
  BY DEF Rule!Init
<1>2. Rule!NoState \in RuleState /\ ~Rule!NoState.firing /\ Rule!NoState.breach = Rule!Never
  BY BoundsTyped DEF Rule!NoState, RuleState
<1>3. RuleTyped
  BY <1>1, <1>2, IdleEvaluation, BoundsTyped DEF RuleTyped
<1>4. \A s \in Scopes : state[s] = Rule!NoState
  BY <1>1
<1> QED
  BY <1>1, <1>2, <1>3, <1>4, IdleEvaluation
     DEF RuleInv, AloneSustains, BreachSince, LongEnough, DecidesOnTheLatest, StoresWhatLasted,
         Undecided, Rule!At

\* A step of an evaluation that stores nothing.
RuleStepped(t, n) ==
    /\ n \in Evaluation /\ thread' = [thread EXCEPT ![t] = n]
    /\ n.pc \in {"store", "deliver"} => n.scope \in Scopes \ n.todo
    /\ ~Rule!At(t, "idle")
    /\ UNCHANGED <<state, good, overlapped>>

LEMMA RuleStep ==
    ASSUME RuleInv, NEW t \in Threads, NEW n, RuleStepped(t, n),
           ~overlapped => DecidesOnTheLatest(n) /\ StoresWhatLasted(n)
    PROVE  RuleInv'
<1>1. /\ thread' \in [Threads -> Evaluation] /\ thread'[t] = n
      /\ \A r \in Threads \ {t} : thread'[r] = thread[r]
  BY DEF RuleInv, RuleTyped, RuleStepped
<1>2. RuleTyped'
  BY <1>1 DEF RuleInv, RuleTyped, RuleStepped
<1>3. AloneSustains'
  <2> SUFFICES ASSUME ~overlapped' PROVE AloneSustains'
    BY DEF AloneSustains
  <2>1. ~overlapped /\ UNCHANGED <<state, good>>
    BY DEF RuleStepped
  <2>2. \A r \in Threads \ {t} : thread[r].pc = "idle"
    BY <2>1 DEF RuleInv, AloneSustains, RuleStepped, Rule!At
  <2>3. \A s \in Scopes : BreachSince(state[s], s)' /\ LongEnough(state[s], s, 0)'
    BY <2>1 DEF RuleInv, AloneSustains, BreachSince, LongEnough
  <2>4. \A r \in Threads : DecidesOnTheLatest(thread[r])' /\ StoresWhatLasted(thread[r])'
    <3> SUFFICES ASSUME NEW r \in Threads
                 PROVE  DecidesOnTheLatest(thread[r])' /\ StoresWhatLasted(thread[r])'
      OBVIOUS
    <3>1. PICK m : m = IF r = t THEN n ELSE thread[r]
      OBVIOUS
    <3>2. DecidesOnTheLatest(m) /\ StoresWhatLasted(m) /\ thread'[r] = m
      BY <1>1, <2>1, <3>1 DEF RuleInv, AloneSustains
    <3> QED
      BY <2>1, <3>2
         DEF DecidesOnTheLatest, StoresWhatLasted, Undecided, BreachSince, LongEnough
  <2> QED
    BY <1>1, <2>2, <2>3, <2>4 DEF AloneSustains, Rule!At
<1> QED
  BY <1>2, <1>3 DEF RuleInv

\* One after which it decides on nothing but what it had to decide on, with its lag.
LEMMA RuleNarrows ==
    ASSUME RuleInv, NEW t \in Threads, NEW n, RuleStepped(t, n), n.lag = thread[t].lag,
           Undecided(n) \subseteq Undecided(thread[t]), n.pc # "store"
    PROVE  RuleInv'
BY RuleStep DEF RuleInv, AloneSustains, DecidesOnTheLatest, StoresWhatLasted

LEMMA EvaluationTyped ==
    ASSUME RuleInv, NEW t \in Threads
    PROVE  /\ thread[t] \in Evaluation
           /\ thread[t].pc \in {"store", "deliver"} => thread[t].scope \in Scopes \ thread[t].todo
BY DEF RuleInv, RuleTyped

LEMMA RuleBecomesIdle ==
    ASSUME Rule!NotificationAssumption, RuleInv, NEW t \in Threads, ~Rule!At(t, "idle"),
           Rule!Become(t, Rule!Idle), UNCHANGED <<state, good, overlapped>>
    PROVE  RuleInv'
<1>1. RuleStepped(t, Rule!Idle)
  BY IdleEvaluation DEF RuleStepped, Rule!Become
<1> QED
  BY <1>1, IdleEvaluation, RuleStep DEF DecidesOnTheLatest, StoresWhatLasted, Undecided

LEMMA CollectHolds ==
    ASSUME RuleInv, NEW t \in Threads, Rule!Collect(t) \/ Rule!CollectFails(t) PROVE RuleInv'
<1> DEFINE n == [thread[t] EXCEPT !.pc = "read"]
<1>1. /\ thread' = [thread EXCEPT ![t] = n] /\ thread[t].pc = "collect"
      /\ UNCHANGED <<state, good, overlapped>>
  BY DEF Rule!Collect, Rule!CollectFails, Rule!Become, Rule!At
<1>2. n \in Evaluation /\ n.pc = "read" /\ n.lag = thread[t].lag
  BY EvaluationTyped DEF Evaluation
<1> HIDE DEF n
<1> QED
  BY <1>1, <1>2, RuleNarrows DEF RuleStepped, Undecided, Rule!At

LEMMA ReadSamplesHolds ==
    ASSUME RuleInv, NEW t \in Threads, Rule!ReadSamples(t) PROVE RuleInv'
<1> DEFINE known == {s \in Scopes : ~Rule!Expired(t, s)}
           read == {s \in known : sample[s].value = "bad"}
           n == [thread[t] EXCEPT !.pc = "next", !.todo = known, !.samples = read]
<1>1. /\ thread' = [thread EXCEPT ![t] = n] /\ thread[t].pc = "read"
      /\ UNCHANGED <<state, good, overlapped>>
  BY DEF Rule!ReadSamples, Rule!Become, Rule!At
<1>2. known \in SUBSET Scopes /\ read \in SUBSET Scopes
  OBVIOUS
<1> HIDE DEF known, read
<1>3. n \in Evaluation /\ n.pc = "next" /\ n.lag = thread[t].lag /\ n.todo = known
  BY <1>2, EvaluationTyped DEF Evaluation
<1> HIDE DEF n
<1> QED
  BY <1>1, <1>2, <1>3, RuleNarrows DEF RuleStepped, Undecided, Rule!At

LEMMA DeliveryHolds ==
    ASSUME RuleInv, NEW t \in Threads, Rule!Deliver(t) \/ Rule!DeliveryFails(t) PROVE RuleInv'
<1>1. /\ thread[t].pc = "deliver" /\ UNCHANGED <<state, good, overlapped>>
      /\ \/ thread' = [thread EXCEPT ![t] = [thread[t] EXCEPT !.attempts = @ + 1]]
         \/ thread' = [thread EXCEPT ![t] = [thread[t] EXCEPT !.pc = "next", !.action = "hold"]]
  BY DEF Rule!Deliver, Rule!DeliveryFails, Rule!Become, Rule!At
<1>2. thread[t] \in Evaluation /\ thread[t].scope \in Scopes \ thread[t].todo
  BY <1>1, EvaluationTyped
<1>3. CASE thread' = [thread EXCEPT ![t] = [thread[t] EXCEPT !.attempts = @ + 1]]
  <2> DEFINE n == [thread[t] EXCEPT !.attempts = @ + 1]
  <2>1. /\ n \in Evaluation /\ n.pc = "deliver" /\ n.lag = thread[t].lag
        /\ n.todo = thread[t].todo /\ n.scope = thread[t].scope
    BY <1>1, <1>2 DEF Evaluation
  <2>2. thread' = [thread EXCEPT ![t] = n]
    BY <1>3
  <2> HIDE DEF n
  <2> QED
    BY <1>1, <1>2, <2>1, <2>2, RuleNarrows DEF RuleStepped, Undecided, Rule!At
<1>4. CASE thread' = [thread EXCEPT ![t] = [thread[t] EXCEPT !.pc = "next", !.action = "hold"]]
  <2> DEFINE n == [thread[t] EXCEPT !.pc = "next", !.action = "hold"]
  <2>1. n \in Evaluation /\ n.pc = "next" /\ n.lag = thread[t].lag /\ n.todo = thread[t].todo
    BY <1>1, <1>2 DEF Evaluation
  <2>2. thread' = [thread EXCEPT ![t] = n]
    BY <1>4
  <2> HIDE DEF n
  <2> QED
    BY <1>1, <1>2, <2>1, <2>2, RuleNarrows DEF RuleStepped, Undecided, Rule!At
<1> QED
  BY <1>1, <1>3, <1>4

LEMMA DecideHolds ==
    ASSUME Rule!NotificationAssumption, RuleInv, NEW t \in Threads, NEW s \in Scopes,
           Rule!Decide(t, s)
    PROVE  RuleInv'
<1> DEFINE l == thread[t]
           prior == state[s]
           bad == s \in l.samples
           breach == IF prior.breach = Rule!Never THEN l.lag ELSE prior.breach
           fire == bad /\ IF prior.firing THEN ~Rule!Cooling(prior, l.lag)
                          ELSE breach - l.lag >= For
           succ == IF ~bad THEN Rule!Calm(prior)
                   ELSE IF fire
                   THEN [firing |-> TRUE, breach |-> breach, alert |-> l.lag]
                   ELSE [prior EXCEPT !.breach = breach]
           action == IF fire THEN "bad" ELSE IF ~bad /\ prior.firing THEN "good" ELSE "hold"
           n == [l EXCEPT !.pc = "store", !.scope = s, !.todo = @ \ {s}, !.next = succ,
                          !.attempts = 0, !.action = action]
<1>1. /\ l.pc = "next" /\ s \in l.todo /\ thread' = [thread EXCEPT ![t] = n]
      /\ UNCHANGED <<state, good, overlapped>>
  BY DEF Rule!Decide, Rule!Become, Rule!At
<1>2. /\ l \in Evaluation /\ l.lag \in 0..MaxLag
      /\ prior \in RuleState /\ good[s] \in 0..Rule!BreachCap
  BY EvaluationTyped DEF Evaluation, RuleInv, RuleTyped
<1>3. breach \in 0..Rule!BreachCap
  BY <1>2, BoundsTyped DEF RuleState
<1>4. succ \in RuleState
  <2>1. Rule!Calm(prior) \in RuleState
    BY <1>2, CalmTyped
  <2> HIDE DEF breach, fire
  <2>2. [prior EXCEPT !.breach = breach] \in RuleState
    BY <1>2, <1>3, BoundsTyped DEF RuleState
  <2>3. [firing |-> TRUE, breach |-> breach, alert |-> l.lag] \in RuleState
    BY <1>2, <1>3, BoundsTyped DEF RuleState
  <2> QED
    BY <2>1, <2>2, <2>3
<1>5. action \in {"hold", "good", "bad"}
  OBVIOUS
<1>6. ~overlapped =>
        /\ BreachSince(succ, s) /\ LongEnough(succ, s, l.lag)
        /\ action = "bad" => succ.firing
        /\ s \notin l.samples => ~succ.firing /\ succ.breach = Rule!Never
  <2> SUFFICES ASSUME ~overlapped
               PROVE  /\ BreachSince(succ, s) /\ LongEnough(succ, s, l.lag)
                      /\ action = "bad" => succ.firing
                      /\ s \notin l.samples => ~succ.firing /\ succ.breach = Rule!Never
    OBVIOUS
  <2>1. BreachSince(prior, s) /\ good[s] >= l.lag /\ LongEnough(prior, s, l.lag)
    BY <1>1 DEF RuleInv, AloneSustains, DecidesOnTheLatest, Undecided
  <2>2. breach <= good[s]
    BY <2>1 DEF BreachSince
  <2>3. CASE ~bad
    <3>1. succ = Rule!Calm(prior) /\ action # "bad"
      BY <2>3
    <3>2. ~succ.firing /\ succ.breach = Rule!Never
      BY <1>2, <3>1, CalmTyped
    <3> QED
      BY <3>1, <3>2 DEF BreachSince, LongEnough
  <2>4. CASE fire
    <3>1. succ = [firing |-> TRUE, breach |-> breach, alert |-> l.lag] /\ bad
      BY <2>4
    <3>2. succ.firing /\ succ.breach = breach
      BY <3>1
    <3>3. good[s] - l.lag >= For
      <4>1. CASE prior.firing
        BY <2>1, <4>1 DEF LongEnough
      <4>2. CASE ~prior.firing
        <5>1. breach - l.lag >= For
          BY <2>4, <4>2
        <5> HIDE DEF breach
        <5> QED
          BY <1>2, <1>3, <2>2, <5>1, BoundsTyped
      <4> QED
        BY <4>1, <4>2
    <3> HIDE DEF breach, succ, fire
    <3> QED
      BY <2>2, <3>1, <3>2, <3>3 DEF BreachSince, LongEnough
  <2>5. CASE bad /\ ~fire
    <3>1. succ = [prior EXCEPT !.breach = breach] /\ action # "bad"
      BY <2>5
    <3>2. succ.firing = prior.firing /\ succ.breach = breach
      BY <1>2, <3>1 DEF RuleState
    <3> HIDE DEF breach, succ, fire
    <3> QED
      BY <2>1, <2>2, <2>5, <3>1, <3>2 DEF BreachSince, LongEnough
  <2> QED
    BY <2>3, <2>4, <2>5
<1> HIDE DEF succ, action, breach, fire, bad
<1>7. /\ n \in Evaluation /\ n.pc = "store" /\ n.scope = s /\ n.todo = l.todo \ {s}
      /\ n.next = succ /\ n.action = action /\ n.lag = l.lag /\ n.samples = l.samples
  BY <1>2, <1>4, <1>5 DEF Evaluation
<1> HIDE DEF n
<1>8. RuleStepped(t, n)
  BY <1>1, <1>7 DEF RuleStepped, Rule!At
<1>9. ~overlapped => DecidesOnTheLatest(n)
  BY <1>1, <1>7 DEF RuleInv, AloneSustains, DecidesOnTheLatest, Undecided
<1>10. ~overlapped => StoresWhatLasted(n)
  BY <1>6, <1>7 DEF StoresWhatLasted
<1> QED
  BY <1>8, <1>9, <1>10, RuleStep

LEMMA StoreHolds ==
    ASSUME Rule!NotificationAssumption, RuleInv, NEW t \in Threads, Rule!Store(t)
    PROVE  RuleInv'
<1>0. PICK l, k : l = thread[t] /\ k = l.scope
  OBVIOUS
<1> DEFINE n == [l EXCEPT !.pc = IF l.action = "hold" THEN "next" ELSE "deliver"]
<1>1. /\ l.pc = "store" /\ thread' = [thread EXCEPT ![t] = n]
      /\ state' = [state EXCEPT ![k] = l.next]
      /\ good' = IF k \in l.samples THEN good ELSE [good EXCEPT ![k] = l.lag]
      /\ UNCHANGED overlapped
  BY <1>0 DEF Rule!Store, Rule!Become, Rule!At
<1>2. l \in Evaluation /\ k \in Scopes \ l.todo /\ l.next \in RuleState /\ l.lag \in 0..MaxLag
  BY <1>0, <1>1, EvaluationTyped DEF Evaluation
<1>3. /\ n \in Evaluation /\ n.pc \in {"next", "deliver"} /\ n.scope = k /\ n.todo = l.todo
      /\ n.lag = l.lag
  BY <1>0, <1>2 DEF Evaluation
<1> HIDE DEF n
<1>4. /\ thread' \in [Threads -> Evaluation] /\ thread'[t] = n
      /\ \A r \in Threads \ {t} : thread'[r] = thread[r]
  BY <1>1, <1>3 DEF RuleInv, RuleTyped
<1>5. /\ state' \in [Scopes -> RuleState] /\ state'[k] = l.next
      /\ \A s \in Scopes \ {k} : state'[s] = state[s]
  BY <1>1, <1>2 DEF RuleInv, RuleTyped
<1>6. /\ good' \in [Scopes -> 0..Rule!BreachCap]
      /\ good'[k] = IF k \in l.samples THEN good[k] ELSE l.lag
      /\ \A s \in Scopes \ {k} : good'[s] = good[s]
  BY <1>1, <1>2, BoundsTyped DEF RuleInv, RuleTyped
<1>7. RuleTyped'
  BY <1>2, <1>3, <1>4, <1>5, <1>6 DEF RuleInv, RuleTyped
<1>8. AloneSustains'
  <2> SUFFICES ASSUME ~overlapped' PROVE AloneSustains'
    BY DEF AloneSustains
  <2>1. ~overlapped
    BY <1>1
  <2>2. \A r \in Threads \ {t} : thread'[r].pc = "idle"
    BY <1>0, <1>1, <1>4, <2>1 DEF RuleInv, AloneSustains, Rule!At
  <2>3. StoresWhatLasted(l) /\ DecidesOnTheLatest(l)
    BY <1>0, <2>1 DEF RuleInv, AloneSustains
  <2>4. BreachSince(state[k], k)' /\ LongEnough(state[k], k, 0)'
    <3>1. CASE k \in l.samples
      <4>1. good'[k] = good[k] /\ good[k] \in Nat /\ For \in Nat
        BY <1>2, <1>6, <3>1, BoundsTyped DEF RuleInv, RuleTyped
      <4>2. BreachSince(l.next, k) /\ LongEnough(l.next, k, l.lag)
        BY <1>0, <1>1, <2>3 DEF StoresWhatLasted
      <4> QED
        BY <1>2, <1>5, <4>1, <4>2 DEF BreachSince, LongEnough
    <3>2. CASE k \notin l.samples
      BY <1>0, <1>1, <1>5, <2>3, <3>2 DEF StoresWhatLasted, BreachSince, LongEnough
    <3> QED
      BY <3>1, <3>2
  <2>5. ASSUME NEW s \in Scopes PROVE BreachSince(state[s], s)' /\ LongEnough(state[s], s, 0)'
    <3>1. CASE s = k
      BY <2>4, <3>1
    <3>2. CASE s # k
      BY <1>5, <1>6, <2>1, <3>2 DEF RuleInv, AloneSustains, BreachSince, LongEnough
    <3> QED
      BY <3>1, <3>2
  <2>6. DecidesOnTheLatest(thread[t])'
    <3>1. Undecided(n) = l.todo /\ Undecided(l) = l.todo
      BY <1>1, <1>3 DEF Undecided
    <3> SUFFICES ASSUME NEW s \in l.todo
                 PROVE  good'[s] >= l.lag /\ LongEnough(state[s], s, l.lag)'
      BY <1>3, <1>4, <3>1 DEF DecidesOnTheLatest, Undecided, LongEnough
    <3>2. s \in Scopes \ {k}
      BY <1>0, <1>2 DEF Evaluation
    <3>3. good[s] >= l.lag /\ LongEnough(state[s], s, l.lag)
      BY <2>3, <3>1 DEF DecidesOnTheLatest
    <3> QED
      BY <1>3, <1>5, <1>6, <3>2, <3>3 DEF LongEnough
  <2>7. StoresWhatLasted(thread[t])'
    BY <1>3, <1>4 DEF StoresWhatLasted
  <2>8. ASSUME NEW r \in Threads \ {t}
        PROVE  DecidesOnTheLatest(thread[r])' /\ StoresWhatLasted(thread[r])'
    BY <2>2 DEF DecidesOnTheLatest, StoresWhatLasted, Undecided
  <2> QED
    BY <2>2, <2>5, <2>6, <2>7, <2>8 DEF AloneSustains, Rule!At
<1> QED
  BY <1>7, <1>8 DEF RuleInv

LEMMA RuleBegins ==
    ASSUME Rule!NotificationAssumption, RuleInv, NEW t \in Threads, Rule!Begin(t)
    PROVE  RuleInv'
<1> DEFINE n == [Rule!Idle EXCEPT !.pc = "collect"]
<1>1. thread' = [thread EXCEPT ![t] = n] /\ UNCHANGED <<state, good>>
  BY DEF Rule!Begin, Rule!Become
<1>2. n \in Evaluation /\ n.pc = "collect" /\ n.lag = 0
  BY IdleEvaluation DEF Evaluation
<1> HIDE DEF n
<1>3. /\ thread' \in [Threads -> Evaluation] /\ thread'[t] = n
      /\ \A r \in Threads \ {t} : thread'[r] = thread[r]
  BY <1>1, <1>2 DEF RuleInv, RuleTyped
<1>4. RuleTyped'
  BY <1>1, <1>2, <1>3 DEF RuleInv, RuleTyped
<1>5. AloneSustains'
  <2> SUFFICES ASSUME ~overlapped' PROVE AloneSustains'
    BY DEF AloneSustains
  <2>1. ~overlapped /\ \A r \in Threads : thread[r].pc = "idle"
    BY DEF Rule!Begin, Rule!At
  <2>2. \A r \in Threads \ {t} : thread'[r].pc = "idle"
    BY <1>3, <2>1
  <2>3. \A s \in Scopes : BreachSince(state[s], s)' /\ LongEnough(state[s], s, 0)'
    BY <1>1, <2>1 DEF RuleInv, AloneSustains, BreachSince, LongEnough
  <2>4. \A s \in Scopes : good[s] \in Nat
    BY BoundsTyped DEF RuleInv, RuleTyped
  <2>5. DecidesOnTheLatest(thread[t])' /\ StoresWhatLasted(thread[t])'
    BY <1>1, <1>2, <1>3, <2>3, <2>4
       DEF DecidesOnTheLatest, StoresWhatLasted, Undecided, LongEnough
  <2>6. ASSUME NEW r \in Threads \ {t}
        PROVE  DecidesOnTheLatest(thread[r])' /\ StoresWhatLasted(thread[r])'
    BY <2>2 DEF DecidesOnTheLatest, StoresWhatLasted, Undecided
  <2> QED
    BY <2>2, <2>3, <2>5, <2>6 DEF AloneSustains, Rule!At
<1> QED
  BY <1>4, <1>5 DEF RuleInv

\* An evaluation a minute later.
Aged(l) ==
    IF l.pc = "idle" THEN l
    ELSE [l EXCEPT !.lag = @ + 1, !.next.breach = Rule!Older(@, Rule!BreachCap),
                   !.next.alert = Rule!Older(@, Rule!AlertCap)]

LEMMA AgedTyped ==
    ASSUME Rule!NotificationAssumption, NEW l \in Evaluation, l.pc = "idle" \/ l.lag < MaxLag
    PROVE  /\ Aged(l) \in Evaluation /\ Aged(l).pc = l.pc /\ Aged(l).todo = l.todo
           /\ Aged(l).scope = l.scope /\ Aged(l).samples = l.samples
           /\ Aged(l).action = l.action
           /\ l.pc # "idle" =>
                 /\ Aged(l).lag = l.lag + 1 /\ Aged(l).next.firing = l.next.firing
                 /\ Aged(l).next.breach = Rule!Older(l.next.breach, Rule!BreachCap)
<1>1. CASE l.pc = "idle"
  BY <1>1 DEF Aged
<1>2. CASE l.pc # "idle"
  <2> DEFINE succ == [l.next EXCEPT !.breach = Rule!Older(@, Rule!BreachCap),
                                    !.alert = Rule!Older(@, Rule!AlertCap)]
             n == [l EXCEPT !.lag = @ + 1, !.next = succ]
  <2>1. l.next \in RuleState /\ l.lag \in 0..MaxLag
    BY DEF Evaluation
  <2>2. /\ Rule!Older(l.next.breach, Rule!BreachCap) \in Rule!Never..Rule!BreachCap
        /\ Rule!Older(l.next.alert, Rule!AlertCap) \in Rule!Never..Rule!AlertCap
    BY <2>1, BoundsTyped, OlderTyped DEF RuleState
  <2>3. /\ succ \in RuleState /\ succ.firing = l.next.firing
        /\ succ.breach = Rule!Older(l.next.breach, Rule!BreachCap)
    BY <2>1, <2>2 DEF RuleState
  <2>4. Aged(l) = n
    BY <1>2, <2>1 DEF Aged, Evaluation, RuleState
  <2>5. l.lag + 1 \in 0..MaxLag
    BY <1>2, <2>1, BoundsTyped
  <2> HIDE DEF succ
  <2>6. /\ n \in Evaluation /\ n.pc = l.pc /\ n.todo = l.todo /\ n.scope = l.scope
        /\ n.samples = l.samples /\ n.action = l.action /\ n.lag = l.lag + 1 /\ n.next = succ
    BY <2>3, <2>5 DEF Evaluation
  <2> QED
    BY <2>3, <2>4, <2>6
<1> QED
  BY <1>1, <1>2

LEMMA MinuteHolds ==
    ASSUME Rule!NotificationAssumption, RuleInv, Rule!Minute PROVE RuleInv'
<1>1. /\ state \in [Scopes -> RuleState] /\ good \in [Scopes -> 0..Rule!BreachCap]
      /\ thread \in [Threads -> Evaluation]
  BY DEF RuleInv, RuleTyped
<1>2. ASSUME NEW t \in Threads
      PROVE  thread'[t] = Aged(thread[t]) /\ (thread[t].pc = "idle" \/ thread[t].lag < MaxLag)
  BY DEF Rule!Minute, Aged, Rule!At
<1>3. ASSUME NEW s \in Scopes
      PROVE  /\ state'[s] = [state[s] EXCEPT !.breach = Rule!Older(@, Rule!BreachCap),
                                             !.alert = Rule!Older(@, Rule!AlertCap)]
             /\ good'[s] = Rule!Older(good[s], Rule!BreachCap)
  BY <1>1 DEF Rule!Minute
<1>4. ASSUME NEW s \in Scopes
      PROVE  /\ state'[s] \in RuleState /\ state'[s].firing = state[s].firing
             /\ state'[s].breach = Rule!Older(state[s].breach, Rule!BreachCap)
             /\ good'[s] \in 0..Rule!BreachCap /\ good'[s] >= good[s]
             /\ good'[s] = IF good[s] = Rule!BreachCap THEN good[s] ELSE good[s] + 1
  <2>1. state[s] \in RuleState /\ good[s] \in 0..Rule!BreachCap
    BY <1>1
  <2>2. /\ Rule!Older(state[s].breach, Rule!BreachCap) \in Rule!Never..Rule!BreachCap
        /\ Rule!Older(state[s].alert, Rule!AlertCap) \in Rule!Never..Rule!AlertCap
    BY <2>1, BoundsTyped, OlderTyped DEF RuleState
  <2>3. /\ state'[s] \in RuleState /\ state'[s].firing = state[s].firing
        /\ state'[s].breach = Rule!Older(state[s].breach, Rule!BreachCap)
    BY <1>3, <2>1, <2>2 DEF RuleState
  <2>4. /\ good'[s] \in 0..Rule!BreachCap /\ good'[s] >= good[s]
        /\ good'[s] = IF good[s] = Rule!BreachCap THEN good[s] ELSE good[s] + 1
    <3>1. good'[s] = Rule!Older(good[s], Rule!BreachCap)
      BY <1>3
    <3> QED
      BY <2>1, <3>1, BoundsTyped, OlderGrows
  <2> QED
    BY <2>3, <2>4
<1>5. ASSUME NEW t \in Threads
      PROVE  /\ thread'[t] \in Evaluation /\ thread'[t].pc = thread[t].pc
             /\ thread'[t].todo = thread[t].todo /\ thread'[t].scope = thread[t].scope
             /\ thread'[t].samples = thread[t].samples /\ thread'[t].action = thread[t].action
             /\ thread[t].pc # "idle" =>
                   /\ thread'[t].lag = thread[t].lag + 1
                   /\ thread'[t].next.firing = thread[t].next.firing
                   /\ thread'[t].next.breach =
                         Rule!Older(thread[t].next.breach, Rule!BreachCap)
             /\ thread[t].pc # "idle" => thread[t].lag \in 0..(MaxLag - 1)
  BY <1>1, <1>2, BoundsTyped, AgedTyped DEF Evaluation
<1>6. RuleTyped'
  <2>1. /\ state' \in [Scopes -> RuleState] /\ good' \in [Scopes -> 0..Rule!BreachCap]
        /\ thread' \in [Threads -> Evaluation]
    BY <1>4, <1>5 DEF Rule!Minute
  <2> QED
    BY <1>5, <2>1 DEF RuleInv, RuleTyped
<1>7. AloneSustains'
  <2> SUFFICES ASSUME ~overlapped' PROVE AloneSustains'
    BY DEF AloneSustains
  <2>1. ~overlapped
    BY DEF Rule!Minute
  <2>2. ASSUME NEW s \in Scopes PROVE BreachSince(state[s], s)' /\ LongEnough(state[s], s, 0)'
    <3>1. BreachSince(state[s], s) /\ LongEnough(state[s], s, 0)
      BY <2>1 DEF RuleInv, AloneSustains
    <3>2. state[s].breach \in Rule!Never..Rule!BreachCap /\ good[s] \in 0..Rule!BreachCap
      BY <1>1 DEF RuleState
    <3>3. BreachSince(state[s], s)'
      <4>1. /\ good'[s] = Rule!Older(good[s], Rule!BreachCap)
            /\ state'[s].breach = Rule!Older(state[s].breach, Rule!BreachCap)
        BY <1>3, <1>4
      <4> QED
        BY <3>1, <3>2, <4>1, BoundsTyped, OlderTyped DEF BreachSince
    <3>4. LongEnough(state[s], s, 0)'
      BY <1>4, <3>1, <3>2, BoundsTyped DEF LongEnough
    <3> QED
      BY <3>3, <3>4
  \* Where good stops growing it is as large as it need be.
  <2>3. ASSUME NEW t \in Threads, thread[t].pc # "idle", NEW s \in Scopes
        PROVE  /\ good[s] - thread[t].lag >= For => good'[s] - thread'[t].lag >= For
               /\ good[s] >= thread[t].lag => good'[s] >= thread'[t].lag
    <3>1. /\ thread[t].lag \in 0..(MaxLag - 1) /\ thread'[t].lag = thread[t].lag + 1
          /\ good[s] \in 0..Rule!BreachCap
      BY <1>1, <1>5, <2>3
    <3> QED
      BY <1>4, <3>1, BoundsTyped
  <2>4. ASSUME NEW t \in Threads PROVE DecidesOnTheLatest(thread[t])'
    <3>1. DecidesOnTheLatest(thread[t])
      BY <2>1 DEF RuleInv, AloneSustains
    <3>2. Undecided(thread'[t]) = Undecided(thread[t]) /\ Undecided(thread[t]) \subseteq Scopes
      BY <1>1, <1>5 DEF Undecided, Evaluation
    <3>3. Undecided(thread[t])' = Undecided(thread'[t])
      BY DEF Undecided
    <3>4. ASSUME NEW s \in Undecided(thread[t])
          PROVE  good'[s] >= thread'[t].lag /\ LongEnough(state[s], s, thread[t].lag)'
      <4>1. thread[t].pc # "idle" /\ s \in Scopes
        BY <3>2, <3>4 DEF Undecided
      <4> QED
        BY <1>4, <2>3, <3>1, <4>1 DEF DecidesOnTheLatest, LongEnough
    <3> QED
      BY <3>2, <3>3, <3>4 DEF DecidesOnTheLatest
  <2>5. ASSUME NEW t \in Threads PROVE StoresWhatLasted(thread[t])'
    <3> SUFFICES ASSUME thread'[t].pc = "store" PROVE StoresWhatLasted(thread[t])'
      BY DEF StoresWhatLasted
    <3> DEFINE l == thread[t]
               k == l.scope
    <3>1. l.pc = "store" /\ k \in Scopes /\ StoresWhatLasted(l)
      BY <1>5, <2>1, EvaluationTyped DEF RuleInv, AloneSustains
    <3>2. l.next \in RuleState
      BY <1>1 DEF Evaluation
    <3>3. l.next.breach \in Rule!Never..Rule!BreachCap /\ good[k] \in 0..Rule!BreachCap
      BY <1>1, <3>1, <3>2 DEF RuleState
    <3>4. Rule!Older(l.next.breach, Rule!BreachCap) = Rule!Never <=> l.next.breach = Rule!Never
      BY <3>3, BoundsTyped, OlderTyped
    <3>5. l.next.breach # Rule!Never => Rule!Older(l.next.breach, Rule!BreachCap) <= good'[k]
      <4>1. good'[k] = Rule!Older(good[k], Rule!BreachCap)
        BY <1>3, <3>1
      <4>2. l.next.breach # Rule!Never => l.next.breach <= good[k]
        BY <3>1 DEF StoresWhatLasted, BreachSince
      <4> QED
        BY <3>3, <4>1, <4>2, BoundsTyped, OlderTyped
    <3>6. thread'[t].next.firing => good'[k] - thread'[t].lag >= For
      BY <1>5, <2>3, <3>1 DEF StoresWhatLasted, LongEnough
    <3> QED
      BY <1>5, <3>1, <3>4, <3>5, <3>6 DEF StoresWhatLasted, BreachSince, LongEnough
  <2>6. \A r, t \in Threads : ~Rule!At(r, "idle")' /\ ~Rule!At(t, "idle")' => r = t
    BY <1>5, <2>1 DEF RuleInv, AloneSustains, Rule!At
  <2> QED
    BY <2>2, <2>4, <2>5, <2>6 DEF AloneSustains
<1> QED
  BY <1>6, <1>7 DEF RuleInv

LEMMA RuleNext ==
    ASSUME Rule!NotificationAssumption, RuleInv, [Rule!Next]_Rule!vars PROVE RuleInv'
<1>1. ASSUME NEW s \in Scopes, Rule!Change(s) PROVE RuleInv'
  BY <1>1
     DEF Rule!Change, RuleInv, RuleTyped, AloneSustains, BreachSince, LongEnough,
         DecidesOnTheLatest, StoresWhatLasted, Undecided, Rule!At
<1>2. ASSUME NEW t \in Threads, Rule!End(t) \/ Rule!Stops(t) PROVE RuleInv'
  BY <1>2, RuleBecomesIdle DEF Rule!End, Rule!Stops, Rule!At
<1>3. CASE UNCHANGED Rule!vars
  BY <1>3
     DEF Rule!vars, RuleInv, RuleTyped, AloneSustains, BreachSince, LongEnough,
         DecidesOnTheLatest, StoresWhatLasted, Undecided, Rule!At
<1> QED
  BY <1>1, <1>2, <1>3, MinuteHolds, RuleBegins, CollectHolds, ReadSamplesHolds, DecideHolds,
     StoreHolds, DeliveryHolds
     DEF Rule!Next, Rule!Step

-----------------------------------------------------------------------------
(* DataRetention: clean-ups keep the newest, and readers never go back,    *)
(* for any sets of sources and scopes, any limits and any number of threads*)
(* that collect and clean up at once.                                      *)

Stamped == [key : Keep!Keys, scope : 0..NScopes, observed : Nat]
Cleaner == [pc : {"idle", "collect", "clean", "shrink", "commit"}, began : Nat,
            cleans : BOOLEAN, todo : SUBSET Sources, gone : SUBSET Stamped]

-----------------------------------------------------------------------------
(* The invariant.                                                          *)

KeepTyped ==
    /\ begun \in Nat /\ newest \in [Keep!Keys -> Nat]
    /\ rows \subseteq Stamped
    /\ thread \in [Threads -> Cleaner]
    /\ \A t \in Threads : thread[t].pc \in {"idle", "collect", "clean"} => thread[t].gone = {}

\* Nothing is newer than the newest, nor than the moment.
Dated ==
    /\ \A r \in rows : r.observed <= newest[r.key]
    /\ \A t \in Threads : \A r \in thread[t].gone : r.observed <= newest[r.key]
    /\ \A k \in Keep!Keys : newest[k] <= begun
    /\ \A t \in Threads : ~Keep!At(t, "idle") => thread[t].began <= begun

\* What a collection has still to store is stored for the first time at its moment.
StoredOnce ==
    /\ \A t \in Threads : \A u \in Threads \ {t} :
          ~Keep!At(t, "idle") /\ ~Keep!At(u, "idle") => thread[t].began # thread[u].began
    /\ \A t \in Threads : Keep!At(t, "collect") =>
          \A k \in thread[t].todo \cup {Keep!Metric} : newest[k] # thread[t].began

\* The row that a clean-up protects is none that another one has deleted.
Topmost(r) == \A s \in rows : s.key = r.key => ~Keep!Before(r, s)
TopIsKept ==
    \A k \in Keep!Keys \ aged : newest[k] # Keep!Never =>
        \E r \in rows : /\ r.key = k /\ r.observed = newest[k] /\ Topmost(r)
                        /\ \A t \in Threads : r \notin thread[t].gone

\* What a clean-up has left of a scope is newer than what it has deleted.
OldestFirst ==
    \A t \in Threads : \A r \in thread[t].gone : \A s \in rows :
        /\ r.key \notin late /\ s.key = r.key /\ s.scope = r.scope /\ s.observed < r.observed
        => s \in thread[t].gone

KeepInv == KeepTyped /\ Dated /\ StoredOnce /\ TopIsKept /\ OldestFirst

-----------------------------------------------------------------------------
(* Lemmas about numbers and rows.                                          *)

\* A bounded set of numbers has a largest one: the least distance from the bound.
LEMMA LargestExists ==
    ASSUME NEW N \in Nat, NEW S \in SUBSET (0..N), S # {}
    PROVE  \E x \in S : \A y \in S : y <= x
<1> DEFINE less == OpToRel(<, Nat)
           T == {N - x : x \in S}
<1>1. \E m \in T : \A k \in T : <<k, m>> \notin less
  <2>1. T \subseteq Nat /\ T # {}
    <3>1. \A x \in S : N - x \in Nat
      OBVIOUS
    <3>2. PICK x \in S : TRUE
      OBVIOUS
    <3>3. N - x \in T
      OBVIOUS
    <3> QED
      BY <3>1, <3>3
  <2>2. IsWellFoundedOn(less, Nat)
    BY NatLessThanWellFounded
  <2> HIDE DEF T, less
  <2> QED
    BY <2>1, <2>2, WFMin
<1>2. PICK m \in T : \A k \in T : <<k, m>> \notin less
  BY <1>1
<1>3. PICK x \in S : m = N - x
  OBVIOUS
<1>4. ASSUME NEW y \in S PROVE y <= x
  <2>1. N - y \in Nat /\ N - x \in Nat /\ N - y \in T
    OBVIOUS
  <2>2. ~(N - y < N - x)
    BY <1>2, <1>3, <2>1 DEF OpToRel
  <2> QED
    BY <2>1, <2>2
<1> QED
  BY <1>4

LEMMA StampedFields ==
    ASSUME KeepInv, NEW r \in rows
    PROVE  r.key \in Keep!Keys /\ r.scope \in 0..NScopes /\ r.observed \in Nat
  BY DEF KeepInv, KeepTyped, Stamped

LEMMA GoneFields ==
    ASSUME KeepInv, NEW t \in Threads, NEW r \in thread[t].gone
    PROVE  /\ r \in Stamped
           /\ r.key \in Keep!Keys /\ r.scope \in 0..NScopes /\ r.observed \in Nat
  BY DEF KeepInv, KeepTyped, Stamped, Cleaner

LEMMA CleanerFields ==
    ASSUME KeepInv, NEW t \in Threads
    PROVE  /\ thread[t].pc \in {"idle", "collect", "clean", "shrink", "commit"}
           /\ thread[t].began \in Nat /\ thread[t].todo \in SUBSET Sources
           /\ thread[t].gone \in SUBSET Stamped
  BY DEF KeepInv, KeepTyped, Cleaner

\* A thread that changes no row, no history and no moment needs only to keep to its own lines.
LEMMA OwnStep ==
    ASSUME KeepInv, NEW t \in Threads, NEW local \in Cleaner,
           thread' = [thread EXCEPT ![t] = local],
           UNCHANGED <<begun, newest, late>>,
           rows' \subseteq rows, \A r \in rows \ rows' : r \in thread[t].gone,
           aged \subseteq aged',
           local.pc # "collect",
           local.pc # "idle" => ~Keep!At(t, "idle") /\ local.began = thread[t].began,
           local.pc \in {"idle", "collect", "clean"} => local.gone = {},
           \A r \in local.gone : r \in rows \/ r \in thread[t].gone,
           \A r \in local.gone : r \in thread[t].gone \/ r.key \in aged' \/ ~Topmost(r),
           \A r \in local.gone : \A s \in rows' :
              /\ r.key \notin late /\ s.key = r.key /\ s.scope = r.scope
              /\ s.observed < r.observed
              => s \in local.gone
    PROVE  KeepInv'
<1>1. /\ thread'[t] = local
      /\ \A u \in Threads \ {t} : thread'[u] = thread[u]
      /\ thread' \in [Threads -> Cleaner]
  BY DEF KeepInv, KeepTyped
<1>2. KeepTyped'
  BY <1>1 DEF KeepInv, KeepTyped, Keep!Keys
<1>3. Dated'
  <2>1. \A r \in rows' : r.observed <= newest'[r.key]
    BY DEF KeepInv, Dated
  <2>2. \A u \in Threads : \A r \in thread'[u].gone : r.observed <= newest'[r.key]
    BY <1>1 DEF KeepInv, Dated
  <2>3. \A u \in Threads : ~Keep!At(u, "idle")' => thread'[u].began <= begun'
    BY <1>1 DEF KeepInv, Dated, Keep!At
  <2> QED
    BY <2>1, <2>2, <2>3 DEF KeepInv, Dated, Keep!Keys
<1>4. StoredOnce'
  <2>1. \A u \in Threads :
           ~Keep!At(u, "idle")' => ~Keep!At(u, "idle") /\ thread'[u].began = thread[u].began
    BY <1>1 DEF Keep!At
  <2>2. \A u \in Threads : Keep!At(u, "collect")' => u # t
    BY <1>1 DEF Keep!At
  <2> QED
    BY <1>1, <2>1, <2>2 DEF KeepInv, StoredOnce, Keep!At, Keep!Metric
<1>5. TopIsKept'
  <2> SUFFICES ASSUME NEW k \in Keep!Keys \ aged', newest[k] # Keep!Never
               PROVE  \E r \in rows' : /\ r.key = k /\ r.observed = newest[k] /\ Topmost(r)'
                                       /\ \A u \in Threads : r \notin thread'[u].gone
    BY DEF TopIsKept, Keep!Keys, Keep!Never, Keep!Metric
  <2>1. PICK r \in rows : /\ r.key = k /\ r.observed = newest[k] /\ Topmost(r)
                          /\ \A u \in Threads : r \notin thread[u].gone
    BY DEF KeepInv, TopIsKept
  <2>2. r \in rows' /\ Topmost(r)'
    BY <2>1 DEF Topmost, Keep!Before
  <2>3. \A u \in Threads : r \notin thread'[u].gone
    BY <1>1, <2>1
  <2> QED
    BY <2>1, <2>2, <2>3
<1>6. OldestFirst'
  <2> SUFFICES ASSUME NEW u \in Threads, NEW r \in thread'[u].gone, NEW s \in rows',
                      r.key \notin late, s.key = r.key, s.scope = r.scope,
                      s.observed < r.observed
               PROVE  s \in thread'[u].gone
    BY DEF OldestFirst
  <2>1. CASE u = t
    BY <1>1, <2>1
  <2>2. CASE u # t
    BY <1>1, <2>2 DEF KeepInv, OldestFirst
  <2> QED
    BY <2>1, <2>2
<1> QED
  BY <1>2, <1>3, <1>4, <1>5, <1>6 DEF KeepInv

\* Storing rows under a moment that their key has not yet been stored at.
LEMMA StoreKeeps ==
    ASSUME Keep!RetentionAssumption, KeepInv, NEW t \in Threads, Keep!At(t, "collect"),
           NEW k \in Keep!Keys, NEW S \in SUBSET (0..NScopes),
           k \in thread[t].todo \cup {Keep!Metric},
           Keep!Store(k, {Keep!Row(k, i, thread[t].began) : i \in S}, thread[t].began),
           NEW local \in Cleaner, thread' = [thread EXCEPT ![t] = local],
           UNCHANGED <<begun, aged>>,
           local.gone = {},
           local.pc # "idle" => local.began = thread[t].began,
           local.pc = "collect" => local.todo = thread[t].todo \ {k} /\ k # Keep!Metric
    PROVE  KeepInv'
<1> DEFINE moment == thread[t].began
           new == {Keep!Row(k, i, moment) : i \in S}
<1>1. /\ thread'[t] = local
      /\ \A u \in Threads \ {t} : thread'[u] = thread[u]
      /\ thread' \in [Threads -> Cleaner]
  BY DEF KeepInv, KeepTyped
<1>2. /\ moment \in Nat /\ moment <= begun /\ newest[k] \in Nat /\ newest[k] # moment
      /\ begun \in Nat
  <2>1. moment \in Nat /\ newest[k] \in Nat /\ begun \in Nat
    BY CleanerFields DEF KeepInv, KeepTyped
  <2>2. moment <= begun /\ newest[k] # moment
    BY DEF KeepInv, Dated, StoredOnce, Keep!At
  <2> QED
    BY <2>1, <2>2
<1>3. /\ new \subseteq Stamped
      /\ \A r \in new : r.key = k /\ r.observed = moment /\ r.scope \in S
  BY <1>2 DEF Keep!Row, Stamped
<1>4. /\ thread[t].gone = {} /\ local.gone = {}
      /\ \A u \in Threads : thread'[u].gone = thread[u].gone
  BY <1>1 DEF KeepInv, KeepTyped, Keep!At
<1>5. rows' = rows \cup new
  BY DEF Keep!Store
<1>6. \/ S = {} /\ new = {} /\ newest' = newest /\ late' = late
      \/ S # {} /\ moment < newest[k] /\ newest' = newest /\ late' = late \cup {k}
      \/ S # {} /\ newest[k] < moment /\ newest' = [newest EXCEPT ![k] = moment] /\ late' = late
  <2>1. S = {} <=> new = {}
    OBVIOUS
  <2>2. [newest EXCEPT ![k] = newest[k]] = newest
    BY DEF KeepInv, KeepTyped
  <2>3. /\ newest' = IF new = {} THEN newest
                     ELSE [newest EXCEPT ![k] = IF newest[k] > moment THEN newest[k] ELSE moment]
        /\ late' = IF new = {} \/ newest[k] <= moment THEN late ELSE late \cup {k}
    BY DEF Keep!Store, Keep!Later
  <2> HIDE DEF new, moment
  <2>4. CASE S = {}
    BY <2>1, <2>3, <2>4
  <2>5. CASE S # {} /\ moment < newest[k]
    BY <1>2, <2>1, <2>2, <2>3, <2>5
  <2>6. CASE S # {} /\ newest[k] < moment
    <3>1. newest[k] <= moment /\ (IF newest[k] > moment THEN newest[k] ELSE moment) = moment
      BY <1>2, <2>6
    <3> QED
      BY <2>1, <2>3, <2>6, <3>1
  <2> QED
    BY <1>2, <2>4, <2>5, <2>6
<1>7. /\ newest' \in [Keep!Keys -> Nat]
      /\ \A q \in Keep!Keys \ {k} : newest'[q] = newest[q]
      /\ newest[k] <= newest'[k] /\ newest'[k] <= begun
      /\ newest'[k] \in {newest[k], moment}
      /\ S # {} => moment <= newest'[k]
  <2>1. newest \in [Keep!Keys -> Nat] /\ newest[k] <= begun
    BY DEF KeepInv, KeepTyped, Dated
  <2> QED
    BY <1>2, <1>6, <2>1
<1> HIDE DEF new, moment
<1>8. KeepTyped'
  <2>1. rows' \subseteq Stamped /\ begun' \in Nat
    BY <1>3, <1>5 DEF KeepInv, KeepTyped
  <2>2. \A u \in Threads : thread'[u].pc \in {"idle", "collect", "clean"} => thread'[u].gone = {}
    BY <1>1 DEF KeepInv, KeepTyped
  <2> QED
    BY <1>1, <1>7, <2>1, <2>2 DEF KeepTyped, Keep!Keys, Keep!Metric
<1>9. Dated'
  <2>1. \A q \in Keep!Keys : newest[q] <= newest'[q] /\ newest[q] \in Nat /\ newest'[q] \in Nat
    BY <1>7 DEF KeepInv, KeepTyped
  <2>2. ASSUME NEW r \in rows' PROVE r.observed <= newest'[r.key]
    <3>1. CASE r \in rows
      <4>1. r.observed <= newest[r.key] /\ r.key \in Keep!Keys /\ r.observed \in Nat
        BY <3>1, StampedFields DEF KeepInv, Dated
      <4> QED
        BY <2>1, <4>1
    <3>2. CASE r \in new
      BY <1>3, <1>7, <3>2
    <3> QED
      BY <1>5, <3>1, <3>2
  <2>3. ASSUME NEW u \in Threads, NEW r \in thread'[u].gone PROVE r.observed <= newest'[r.key]
    <3>1. r \in thread[u].gone
      BY <1>4
    <3>2. r.observed <= newest[r.key] /\ r.key \in Keep!Keys /\ r.observed \in Nat
      BY <3>1, GoneFields DEF KeepInv, Dated
    <3> QED
      BY <2>1, <3>2
  <2>4. \A q \in Keep!Keys : newest'[q] <= begun'
    BY <1>7 DEF KeepInv, Dated
  <2>5. \A u \in Threads : ~Keep!At(u, "idle")' => thread'[u].began <= begun'
    BY <1>1, <1>2 DEF KeepInv, Dated, Keep!At, moment
  <2> QED
    BY <2>2, <2>3, <2>4, <2>5 DEF Dated, Keep!Keys, Keep!Metric
<1>10. StoredOnce'
  <2>1. \A u \in Threads :
           ~Keep!At(u, "idle")' => ~Keep!At(u, "idle") /\ thread'[u].began = thread[u].began
    BY <1>1 DEF Keep!At
  <2>2. ASSUME NEW u \in Threads, Keep!At(u, "collect")',
               NEW q \in thread'[u].todo \cup {Keep!Metric}
        PROVE  newest'[q] # thread'[u].began
    <3>1. /\ Keep!At(u, "collect") /\ q \in thread[u].todo \cup {Keep!Metric}
          /\ thread'[u].began = thread[u].began /\ (u = t => q # k)
      BY <1>1, <2>1, <2>2 DEF Keep!At, Keep!Metric
    <3>2. newest[q] # thread[u].began
      BY <3>1 DEF KeepInv, StoredOnce
    <3>3. q \in Keep!Keys
      BY <3>1, CleanerFields DEF Keep!Keys
    <3>4. CASE q # k
      BY <1>7, <3>1, <3>2, <3>3, <3>4
    <3>5. CASE q = k
      <4>1. u # t /\ thread[u].began # moment
        BY <3>1, <3>5 DEF KeepInv, StoredOnce, Keep!At, moment
      <4> QED
        BY <1>7, <3>1, <3>2, <3>5, <4>1
    <3> QED
      BY <3>4, <3>5
  <2> QED
    BY <2>1, <2>2 DEF KeepInv, StoredOnce, Keep!At, Keep!Metric
<1>11. TopIsKept'
  <2> SUFFICES ASSUME NEW q \in Keep!Keys \ aged, newest'[q] # Keep!Never
               PROVE  \E r \in rows' : /\ r.key = q /\ r.observed = newest'[q] /\ Topmost(r)'
                                       /\ \A u \in Threads : r \notin thread'[u].gone
    BY DEF TopIsKept, Keep!Keys, Keep!Never, Keep!Metric
  <2>1. CASE newest'[q] = newest[q]
    <3>1. PICK r \in rows : /\ r.key = q /\ r.observed = newest[q] /\ Topmost(r)
                            /\ \A u \in Threads : r \notin thread[u].gone
      BY <2>1 DEF KeepInv, TopIsKept
    <3>2. ASSUME NEW s \in rows', s.key = r.key PROVE ~Keep!Before(r, s)
      <4>1. CASE s \in rows
        BY <3>1, <3>2, <4>1 DEF Topmost
      <4>2. CASE s \in new
        <5>1. q = k /\ s.observed = moment /\ r.observed = newest[k]
          BY <1>3, <3>1, <3>2, <4>2
        <5>2. moment < newest[k]
          BY <1>2, <1>3, <1>6, <1>7, <2>1, <4>2, <5>1
        <5> QED
          BY <1>2, <5>1, <5>2 DEF Keep!Before
      <4> QED
        BY <1>5, <4>1, <4>2
    <3>3. Topmost(r)'
      BY <3>2 DEF Topmost, Keep!Before
    <3> QED
      BY <1>4, <1>5, <2>1, <3>1, <3>3
  <2>2. CASE newest'[q] # newest[q]
    <3>1. q = k /\ newest'[q] = moment /\ newest[k] < moment /\ S # {}
      BY <1>2, <1>6, <1>7, <2>2
    <3>2. PICK i \in S : \A j \in S : j <= i
      <4>1. NScopes \in Nat
        BY DEF Keep!RetentionAssumption
      <4> QED
        BY <3>1, <4>1, LargestExists
    <3>3. PICK r \in new : r = Keep!Row(k, i, moment)
      BY DEF new
    <3>4. r.key = k /\ r.observed = moment /\ r.scope = i
      BY <3>3 DEF Keep!Row
    <3>5. ASSUME NEW s \in rows', s.key = r.key PROVE ~Keep!Before(r, s)
      <4>1. CASE s \in rows
        <5>1. s.observed <= newest[k] /\ s.observed \in Nat
          BY <3>4, <3>5, <4>1, StampedFields DEF KeepInv, Dated
        <5> QED
          BY <1>2, <3>1, <3>4, <5>1 DEF Keep!Before
      <4>2. CASE s \in new
        <5>1. s.observed = moment /\ s.scope \in S
          BY <1>3, <4>2
        <5>2. s.scope <= i /\ s.scope \in 0..NScopes /\ i \in 0..NScopes
          BY <3>2, <5>1
        <5>3. NScopes \in Nat
          BY DEF Keep!RetentionAssumption
        <5> QED
          BY <1>2, <3>4, <5>1, <5>2, <5>3 DEF Keep!Before
      <4> QED
        BY <1>5, <4>1, <4>2
    <3>6. ASSUME NEW u \in Threads PROVE r \notin thread'[u].gone
      <4>1. SUFFICES ASSUME r \in thread[u].gone PROVE FALSE
        BY <1>4
      <4>2. r.observed <= newest[r.key]
        BY <4>1 DEF KeepInv, Dated
      <4> QED
        BY <1>2, <3>1, <3>4, <4>2
    <3>7. Topmost(r)'
      BY <3>5 DEF Topmost, Keep!Before
    <3> QED
      BY <1>5, <3>1, <3>4, <3>6, <3>7
  <2> QED
    BY <2>1, <2>2
<1>12. OldestFirst'
  <2> SUFFICES ASSUME NEW u \in Threads, NEW r \in thread'[u].gone, NEW s \in rows',
                      r.key \notin late', s.key = r.key, s.scope = r.scope,
                      s.observed < r.observed
               PROVE  s \in thread'[u].gone
    BY DEF OldestFirst
  <2>1. r \in thread[u].gone /\ r.key \notin late
    BY <1>4, <1>6
  <2>2. CASE s \in rows
    BY <1>4, <2>1, <2>2 DEF KeepInv, OldestFirst
  <2>3. CASE s \in new
    <3>1. r.key = k /\ s.observed = moment /\ S # {}
      BY <1>3, <2>3
    <3>2. newest[k] < moment
      BY <1>6, <3>1
    <3>3. r.observed <= newest[k] /\ r.observed \in Nat
      BY <2>1, <3>1, GoneFields DEF KeepInv, Dated
    <3> QED
      BY <1>2, <3>1, <3>2, <3>3
  <2> QED
    BY <1>5, <2>2, <2>3
<1> QED
  BY <1>8, <1>9, <1>10, <1>11, <1>12 DEF KeepInv

-----------------------------------------------------------------------------
(* Every step keeps the invariant.                                         *)

LEMMA KeepInit ==
    ASSUME Keep!RetentionAssumption, Keep!Init
    PROVE  KeepInv
<1>1. Keep!Idle \in Cleaner
  BY DEF Keep!Idle, Keep!Never, Cleaner
<1>2. KeepTyped
  BY <1>1 DEF Keep!Init, KeepTyped, Keep!Idle, Keep!Never
<1>3. Dated /\ StoredOnce /\ TopIsKept /\ OldestFirst
  BY DEF Keep!Init, Dated, StoredOnce, TopIsKept, OldestFirst, Keep!Idle, Keep!Never, Keep!At
<1> QED
  BY <1>2, <1>3 DEF KeepInv

LEMMA KeepBegin ==
    ASSUME KeepInv, NEW t \in Threads, NEW cleans \in BOOLEAN, Keep!Begin(t, cleans)
    PROVE  KeepInv'
<1>1. PICK local \in Cleaner :
          /\ thread' = [thread EXCEPT ![t] = local]
          /\ local.pc = "collect" /\ local.began = begun + 1 /\ local.gone = {}
  <2> DEFINE e(m) == [Keep!Idle EXCEPT !.pc = "collect", !.began = m, !.cleans = cleans,
                                       !.todo = Sources]
  <2>1. begun' = begun + 1 /\ thread' = [thread EXCEPT ![t] = e(begun')]
    BY DEF Keep!Begin, Keep!Become
  <2>2. ASSUME NEW m \in Nat
        PROVE  e(m) \in Cleaner /\ e(m).pc = "collect" /\ e(m).began = m /\ e(m).gone = {}
    BY DEF Keep!Idle, Keep!Never, Cleaner
  <2>3. begun + 1 \in Nat
    BY DEF KeepInv, KeepTyped
  <2> HIDE DEF e
  <2> QED
    BY <2>1, <2>2, <2>3
<1>2. /\ thread'[t] = local
      /\ \A u \in Threads \ {t} : thread'[u] = thread[u]
      /\ thread' \in [Threads -> Cleaner]
  BY <1>1 DEF KeepInv, KeepTyped
<1>3. /\ begun \in Nat /\ begun' = begun + 1 /\ newest' = newest /\ rows' = rows
      /\ aged' = aged /\ late' = late
  BY DEF Keep!Begin, KeepInv, KeepTyped
<1>4. thread[t].gone = {} /\ \A u \in Threads : thread'[u].gone = thread[u].gone
  BY <1>1, <1>2 DEF KeepInv, KeepTyped, Keep!Begin, Keep!At
<1>5. KeepTyped'
  BY <1>1, <1>2, <1>3 DEF KeepInv, KeepTyped, Keep!Keys, Keep!Metric
<1>6. \A k \in Keep!Keys : newest[k] \in Nat /\ newest[k] <= begun
  BY DEF KeepInv, KeepTyped, Dated
<1>7. \A u \in Threads \ {t} :
          /\ thread[u].began \in Nat
          /\ ~Keep!At(u, "idle") => thread[u].began <= begun
  BY CleanerFields DEF KeepInv, Dated
<1>8. Dated'
  <2>1. \A k \in Keep!Keys : newest'[k] <= begun'
    BY <1>3, <1>6
  <2>2. \A u \in Threads : ~Keep!At(u, "idle")' => thread'[u].began <= begun'
    BY <1>1, <1>2, <1>3, <1>7 DEF Keep!At
  <2> QED
    BY <1>3, <1>4, <2>1, <2>2 DEF KeepInv, Dated, Keep!Keys, Keep!Metric
<1>9. StoredOnce'
  <2>1. ASSUME NEW u \in Threads, NEW v \in Threads \ {u},
               ~Keep!At(u, "idle")', ~Keep!At(v, "idle")'
        PROVE  thread'[u].began # thread'[v].began
    <3>1. CASE u # t /\ v # t
      BY <1>2, <2>1, <3>1 DEF KeepInv, StoredOnce, Keep!At
    <3>2. CASE u = t
      BY <1>1, <1>2, <1>3, <1>7, <2>1, <3>2 DEF Keep!At
    <3>3. CASE v = t
      BY <1>1, <1>2, <1>3, <1>7, <2>1, <3>3 DEF Keep!At
    <3> QED
      BY <3>1, <3>2, <3>3
  <2>2. ASSUME NEW u \in Threads, Keep!At(u, "collect")',
               NEW k \in thread'[u].todo \cup {Keep!Metric}
        PROVE  newest'[k] # thread'[u].began
    <3>1. CASE u # t
      BY <1>2, <1>3, <2>2, <3>1 DEF KeepInv, StoredOnce, Keep!At, Keep!Metric
    <3>2. CASE u = t
      <4>1. k \in Keep!Keys
        BY <1>2, <3>2 DEF Cleaner, Keep!Keys, Keep!Metric
      <4> QED
        BY <1>1, <1>2, <1>3, <1>6, <3>2, <4>1
    <3> QED
      BY <3>1, <3>2
  <2> QED
    BY <2>1, <2>2 DEF StoredOnce, Keep!Metric
<1>10. TopIsKept' /\ OldestFirst'
  BY <1>3, <1>4 DEF KeepInv, TopIsKept, OldestFirst, Topmost, Keep!Before, Keep!Keys, Keep!Metric,
     Keep!Never
<1> QED
  BY <1>5, <1>8, <1>9, <1>10 DEF KeepInv

LEMMA KeepSaveSnapshot ==
    ASSUME Keep!RetentionAssumption, KeepInv,
           NEW t \in Threads, NEW s \in Sources, Keep!SaveSnapshot(t, s)
    PROVE  KeepInv'
<1>1. {Keep!Row(s, i, thread[t].began) : i \in {0}} = {Keep!Row(s, Keep!NoScope, thread[t].began)}
  BY DEF Keep!NoScope
<1>2. thread[t] \in Cleaner /\ thread[t].gone = {} /\ thread[t].pc = "collect"
  BY DEF KeepInv, KeepTyped, Keep!SaveSnapshot, Keep!At
<1>3. PICK local \in Cleaner :
          /\ thread' = [thread EXCEPT ![t] = local]
          /\ local.gone = {} /\ local.began = thread[t].began
          /\ local.todo = thread[t].todo \ {s}
  <2> DEFINE l == [thread[t] EXCEPT !.todo = @ \ {s}]
  <2>1. /\ l \in Cleaner
        /\ l.gone = {} /\ l.began = thread[t].began /\ l.todo = thread[t].todo \ {s}
    BY <1>2 DEF Cleaner
  <2>2. thread' = [thread EXCEPT ![t] = l]
    BY DEF Keep!SaveSnapshot, Keep!Become
  <2> QED
    BY <2>1, <2>2
<1>4. /\ Keep!At(t, "collect") /\ s \in thread[t].todo /\ UNCHANGED <<begun, aged>>
      /\ Keep!Store(s, {Keep!Row(s, i, thread[t].began) : i \in {0}}, thread[t].began)
  BY <1>1 DEF Keep!SaveSnapshot
<1>5. s \in Keep!Keys /\ s # Keep!Metric /\ {0} \in SUBSET (0..NScopes)
  BY DEF Keep!RetentionAssumption, Keep!Keys
<1> QED
  BY <1>3, <1>4, <1>5, StoreKeeps

LEMMA KeepSaveSamples ==
    ASSUME Keep!RetentionAssumption, KeepInv, NEW t \in Threads, Keep!SaveSamples(t)
    PROVE  KeepInv'
<1>1. PICK S \in SUBSET Keep!AllScopes :
          Keep!Store(Keep!Metric, {Keep!Row(Keep!Metric, i, thread[t].began) : i \in S},
                     thread[t].began)
  BY DEF Keep!SaveSamples
<1>2. thread[t] \in Cleaner /\ thread[t].gone = {} /\ thread[t].pc = "collect"
  BY DEF KeepInv, KeepTyped, Keep!SaveSamples, Keep!At
<1>3. PICK local \in Cleaner :
          /\ thread' = [thread EXCEPT ![t] = local]
          /\ local.gone = {} /\ local.pc \in {"idle", "clean"}
          /\ local.pc # "idle" => local.began = thread[t].began
  <2> DEFINE l == IF thread[t].cleans THEN [thread[t] EXCEPT !.pc = "clean"] ELSE Keep!Idle
  <2>1. /\ l \in Cleaner /\ l.gone = {} /\ l.pc \in {"idle", "clean"}
        /\ l.pc # "idle" => l.began = thread[t].began
    BY <1>2 DEF Cleaner, Keep!Idle, Keep!Never
  <2>2. thread' = [thread EXCEPT ![t] = l]
    BY DEF Keep!SaveSamples, Keep!Become
  <2> QED
    BY <2>1, <2>2
<1>4. Keep!At(t, "collect") /\ UNCHANGED <<begun, aged>>
  BY DEF Keep!SaveSamples
<1>5. Keep!Metric \in Keep!Keys /\ S \in SUBSET (0..NScopes)
  BY DEF Keep!RetentionAssumption, Keep!Keys, Keep!AllScopes
<1> QED
  BY <1>1, <1>3, <1>4, <1>5, StoreKeeps

LEMMA KeepDeleteByAge ==
    ASSUME Keep!RetentionAssumption, KeepInv, NEW t \in Threads, Keep!DeleteByAge(t)
    PROVE  KeepInv'
<1>1. PICK byAge \in BOOLEAN, bySize \in BOOLEAN :
          LET out == IF byAge THEN Keep!Outdated(t) ELSE {}
          IN  /\ Keep!Become(t, [thread[t] EXCEPT !.gone = out,
                                     !.pc = IF bySize THEN "shrink" ELSE "commit"])
              /\ aged' = aged \cup {r.key : r \in out}
  BY DEF Keep!DeleteByAge
<1> DEFINE out == IF byAge THEN Keep!Outdated(t) ELSE {}
<1>2. /\ thread[t] \in Cleaner /\ thread[t].gone = {} /\ thread[t].pc = "clean"
      /\ rows \subseteq Stamped
  BY DEF KeepInv, KeepTyped, Keep!DeleteByAge, Keep!At
<1>3. out \subseteq rows /\ out \subseteq Stamped
  BY <1>2 DEF Keep!Outdated, Keep!Visible
<1>4. ASSUME NEW r \in out, NEW s \in rows, s.observed < r.observed PROVE s \in out
  <2>1. byAge /\ r \in rows /\ s \in Keep!Visible(t) /\ r.observed < thread[t].began - Retention
    BY <1>2, <1>4 DEF Keep!Outdated, Keep!Visible
  <2>2. s.observed \in Nat /\ r.observed \in Nat /\ thread[t].began \in Nat /\ Retention \in Nat
    BY <2>1, StampedFields, CleanerFields DEF Keep!RetentionAssumption
  <2>3. s.observed < thread[t].began - Retention
    BY <1>4, <2>1, <2>2
  <2> QED
    BY <2>1, <2>3 DEF Keep!Outdated
<1>5. PICK local \in Cleaner :
          /\ thread' = [thread EXCEPT ![t] = local]
          /\ local.gone = out /\ local.pc \in {"shrink", "commit"}
          /\ local.began = thread[t].began
  <2> DEFINE l == [thread[t] EXCEPT !.gone = out, !.pc = IF bySize THEN "shrink" ELSE "commit"]
  <2>1. thread' = [thread EXCEPT ![t] = l]
    BY <1>1 DEF Keep!Become
  <2> HIDE DEF out
  <2>2. /\ l \in Cleaner /\ l.gone = out /\ l.pc \in {"shrink", "commit"}
        /\ l.began = thread[t].began
    BY <1>2, <1>3 DEF Cleaner
  <2> QED
    BY <2>1, <2>2
<1>6. aged' = aged \cup {r.key : r \in out}
  BY <1>1
<1>7. UNCHANGED <<begun, rows, newest, late>>
  BY DEF Keep!DeleteByAge
<1> HIDE DEF out
<1> QED
  BY <1>2, <1>3, <1>4, <1>5, <1>6, <1>7, OwnStep DEF Keep!At

LEMMA KeepDeleteOldest ==
    ASSUME KeepInv, NEW t \in Threads, Keep!DeleteOldest(t)
    PROVE  KeepInv'
<1>1. PICK r \in Keep!Oldest(Keep!Visible(t) \ Keep!Protected(Keep!Visible(t))) :
          Keep!Become(t, [thread[t] EXCEPT !.gone = @ \cup {r}])
  BY DEF Keep!DeleteOldest
<1>2. thread[t] \in Cleaner /\ thread[t].pc = "shrink" /\ rows \subseteq Stamped
  BY DEF KeepInv, KeepTyped, Keep!DeleteOldest, Keep!At
<1>3. r \in rows /\ r \in Keep!Visible(t) /\ r \notin Keep!Protected(Keep!Visible(t))
  BY DEF Keep!Oldest, Keep!Visible
<1>4. ~Topmost(r)
  BY <1>3 DEF Keep!Protected, Keep!Visible, Topmost
<1>5. ASSUME NEW s \in rows, s.key = r.key, s.observed < r.observed
      PROVE  s \in thread[t].gone
  <2>1. s.observed \in Nat /\ r.observed \in Nat
    BY <1>3, StampedFields
  <2>2. SUFFICES ASSUME s \in Keep!Visible(t) PROVE FALSE
    BY DEF Keep!Visible
  <2>3. s \in Keep!Protected(Keep!Visible(t))
    BY <1>1, <1>5, <2>1, <2>2 DEF Keep!Oldest
  <2> QED
    BY <1>3, <1>5, <2>3 DEF Keep!Protected, Keep!Before
<1>6. PICK local \in Cleaner :
          /\ thread' = [thread EXCEPT ![t] = local]
          /\ local.gone = thread[t].gone \cup {r} /\ local.pc = "shrink"
          /\ local.began = thread[t].began
  <2> DEFINE l == [thread[t] EXCEPT !.gone = @ \cup {r}]
  <2>1. /\ l \in Cleaner /\ l.gone = thread[t].gone \cup {r} /\ l.pc = "shrink"
        /\ l.began = thread[t].began
    BY <1>2, <1>3 DEF Cleaner
  <2>2. thread' = [thread EXCEPT ![t] = l]
    BY <1>1 DEF Keep!Become
  <2> QED
    BY <2>1, <2>2
<1>7. UNCHANGED <<begun, rows, newest, aged, late>>
  BY DEF Keep!DeleteOldest
<1>8. ASSUME NEW p \in local.gone, NEW s \in rows',
             p.key \notin late, s.key = p.key, s.scope = p.scope, s.observed < p.observed
      PROVE  s \in local.gone
  <2>1. CASE p = r
    BY <1>5, <1>6, <1>7, <1>8, <2>1
  <2>2. CASE p # r
    BY <1>6, <1>7, <1>8, <2>2 DEF KeepInv, OldestFirst
  <2> QED
    BY <2>1, <2>2
<1> QED
  BY <1>2, <1>3, <1>4, <1>6, <1>7, <1>8, OwnStep DEF Keep!At

LEMMA KeepIdle ==
    ASSUME KeepInv, NEW t \in Threads, Keep!NoLimits(t) \/ Keep!Stops(t) \/ Keep!Commit(t)
    PROVE  KeepInv'
<1>1. PICK local \in Cleaner :
          thread' = [thread EXCEPT ![t] = local] /\ local.gone = {} /\ local.pc = "idle"
  <2>1. Keep!Idle \in Cleaner /\ Keep!Idle.gone = {} /\ Keep!Idle.pc = "idle"
    BY DEF Keep!Idle, Keep!Never, Cleaner
  <2>2. thread' = [thread EXCEPT ![t] = Keep!Idle]
    BY DEF Keep!NoLimits, Keep!Stops, Keep!Commit, Keep!Become
  <2> QED
    BY <2>1, <2>2
<1>2. UNCHANGED <<begun, newest, aged, late>>
  BY DEF Keep!NoLimits, Keep!Stops, Keep!Commit
<1>3. rows' \subseteq rows /\ \A r \in rows \ rows' : r \in thread[t].gone
  BY DEF Keep!NoLimits, Keep!Stops, Keep!Commit
<1> QED
  BY <1>1, <1>2, <1>3, OwnStep

LEMMA KeepShrunk ==
    ASSUME KeepInv, NEW t \in Threads, Keep!Shrunk(t)
    PROVE  KeepInv'
<1>1. thread[t] \in Cleaner /\ thread[t].pc = "shrink"
  BY DEF KeepInv, KeepTyped, Keep!Shrunk, Keep!At
<1>2. PICK local \in Cleaner :
          /\ thread' = [thread EXCEPT ![t] = local]
          /\ local.gone = thread[t].gone /\ local.pc = "commit"
          /\ local.began = thread[t].began
  <2> DEFINE l == [thread[t] EXCEPT !.pc = "commit"]
  <2>1. /\ l \in Cleaner /\ l.gone = thread[t].gone /\ l.pc = "commit"
        /\ l.began = thread[t].began
    BY <1>1 DEF Cleaner
  <2>2. thread' = [thread EXCEPT ![t] = l]
    BY DEF Keep!Shrunk, Keep!Become
  <2> QED
    BY <2>1, <2>2
<1>3. UNCHANGED <<begun, rows, newest, aged, late>>
  BY DEF Keep!Shrunk
<1>4. \A r \in local.gone : \A s \in rows' :
        /\ r.key \notin late /\ s.key = r.key /\ s.scope = r.scope /\ s.observed < r.observed
        => s \in local.gone
  BY <1>2, <1>3 DEF KeepInv, OldestFirst
<1> QED
  BY <1>1, <1>2, <1>3, <1>4, OwnStep DEF Keep!At

LEMMA KeepNext ==
    ASSUME Keep!RetentionAssumption, KeepInv, [Keep!Next]_Keep!vars
    PROVE  KeepInv'
<1>1. ASSUME NEW t \in Threads, NEW cleans \in BOOLEAN, Keep!Begin(t, cleans) PROVE KeepInv'
  BY <1>1, KeepBegin
<1>2. ASSUME NEW t \in Threads, NEW s \in Sources, Keep!SaveSnapshot(t, s) PROVE KeepInv'
  BY <1>2, KeepSaveSnapshot
<1>3. ASSUME NEW t \in Threads,
             Keep!SaveSamples(t) \/ Keep!DeleteByAge(t) \/ Keep!DeleteOldest(t) \/ Keep!Shrunk(t)
      PROVE  KeepInv'
  BY <1>3, KeepSaveSamples, KeepDeleteByAge, KeepDeleteOldest, KeepShrunk
<1>4. ASSUME NEW t \in Threads, Keep!NoLimits(t) \/ Keep!Stops(t) \/ Keep!Commit(t)
      PROVE  KeepInv'
  BY <1>4, KeepIdle
<1>5. CASE UNCHANGED Keep!vars
  BY <1>5 DEF Keep!vars, KeepInv, KeepTyped, Dated, StoredOnce, TopIsKept, Topmost, OldestFirst,
     Keep!At, Keep!Keys, Keep!Metric, Keep!Never, Keep!Before
<1> QED
  BY <1>1, <1>2, <1>3, <1>4, <1>5 DEF Keep!Next

\* Only a commit takes rows away, and with a row it takes what is older of its scope.
LEMMA KeepForward ==
    ASSUME Keep!RetentionAssumption, KeepInv, [Keep!Next]_Keep!vars
    PROVE  Keep!GoesForward
<1> SUFFICES ASSUME NEW k \in Keep!Keys \ late', NEW scope \in Keep!AllScopes \cup {Keep!NoScope},
                    NEW m \in Keep!Latest(k, scope), NEW n,
                    n \in Keep!Latest(k, scope)'
             PROVE  n >= m
  BY DEF Keep!GoesForward
<1>1. PICK a \in rows : a.key = k /\ a.scope = scope /\ a.observed = m
  BY DEF Keep!Latest, Keep!Moments
<1>2. PICK b \in rows' : b.key = k /\ b.scope = scope /\ b.observed = n
  BY DEF Keep!Latest, Keep!Moments
<1>3. \A s \in rows' : s.key = k /\ s.scope = scope => s.observed <= n
  BY DEF Keep!Latest, Keep!Moments
<1>4. m \in Nat /\ n \in Nat
  <2>1. rows' \subseteq Stamped
    BY KeepNext DEF KeepInv, KeepTyped
  <2> QED
    BY <1>1, <1>2, <2>1, StampedFields DEF Stamped
<1>5. CASE rows \subseteq rows'
  BY <1>1, <1>3, <1>4, <1>5
<1>6. CASE \E t \in Threads : Keep!Commit(t)
  <2>1. PICK t \in Threads : rows' = rows \ thread[t].gone /\ late' = late
    BY <1>6 DEF Keep!Commit
  <2>2. CASE a \in rows'
    BY <1>1, <1>3, <1>4, <2>2
  <2>3. CASE a \in thread[t].gone
    <3>1. b \in rows /\ b \notin thread[t].gone
      BY <2>1
    <3>2. ~(b.observed < a.observed)
      BY <1>1, <1>2, <2>1, <2>3, <3>1 DEF KeepInv, OldestFirst
    <3> QED
      BY <1>1, <1>2, <1>4, <3>2
  <2> QED
    BY <1>1, <2>1, <2>2, <2>3
<1>7. rows \subseteq rows' \/ \E t \in Threads : Keep!Commit(t)
  <2>1. ASSUME NEW t \in Threads, NEW s \in Sources, Keep!SaveSnapshot(t, s)
        PROVE  rows \subseteq rows'
    BY <2>1 DEF Keep!SaveSnapshot, Keep!Store
  <2>2. ASSUME NEW t \in Threads, Keep!SaveSamples(t) PROVE rows \subseteq rows'
    BY <2>2 DEF Keep!SaveSamples, Keep!Store
  <2>3. ASSUME NEW t \in Threads,
               \/ \E cleans \in BOOLEAN : Keep!Begin(t, cleans)
               \/ Keep!DeleteByAge(t) \/ Keep!NoLimits(t) \/ Keep!DeleteOldest(t)
               \/ Keep!Shrunk(t) \/ Keep!Stops(t)
        PROVE  rows' = rows
    BY <2>3 DEF Keep!Begin, Keep!DeleteByAge, Keep!NoLimits, Keep!DeleteOldest, Keep!Shrunk,
       Keep!Stops
  <2>4. CASE UNCHANGED Keep!vars
    BY <2>4 DEF Keep!vars
  <2> QED
    BY <2>1, <2>2, <2>3, <2>4 DEF Keep!Next
<1> QED
  BY <1>5, <1>6, <1>7

-----------------------------------------------------------------------------
(* Schedulers: the gate holds, for any set of schedulers, any order of     *)
(* starting and stopping them and any number of refreshes.                 *)

Turns ==
    \/ Sched!Start \/ Sched!FirstTickEnds \/ Sched!Serve \/ Sched!Shutdown
    \/ Sched!WarmupJoined \/ Sched!Stop \/ Sched!Exit \/ Sched!WarmupChecks \/ Sched!WarmupRefreshes
    \/ \E s \in Sched!AllNames : Sched!Step(s) \/ Sched!Configure(s)

LEMMA NextIsTurns == Sched!Next => Turns
BY DEF Sched!Next, Sched!Main, Sched!Warmup, Turns

\* An order is a function from its positions to the schedulers.
LEMMA OrdersAre ==
    /\ Refreshes \in Nat
    /\ Len(StartOrder) \in Nat /\ Len(StopOrder) = Len(StartOrder)
    /\ \A i \in 1..Len(StartOrder) : StartOrder[i] \in Sched!AllNames /\ StopOrder[i] \in Sched!AllNames
<1>1. /\ StartOrder \in Seq(Sched!AllNames) /\ StopOrder \in Seq(Sched!AllNames)
      /\ Len(StopOrder) = Len(StartOrder) /\ Refreshes \in Nat
  BY ServicesAssumption DEF Sched!SchedulersAssumption
<1> HIDE DEF Sched!AllNames
<1> QED
  BY <1>1

-----------------------------------------------------------------------------
(* The gate.                                                               *)

\* The gate is open only when the warm-up has ended, which begins when every scheduler was
\* started; behind it, whoever is gated waits for it.
GateInv ==
    /\ Sched!TypeOK
    /\ warmup = "refresh" => refreshed < Refreshes
    /\ ready => warmup = "ended"
    /\ main \in {"starting", "ticking"} => warmup = "none"
    /\ \A s \in Gated \cap Sched!AllNames : loop[s] \in {"wait", "tick"} => ready

LEMMA GateInit == Sched!Init => GateInv
<1> SUFFICES ASSUME Sched!Init PROVE GateInv
  OBVIOUS
<1>1. /\ main = "starting" /\ next = 1 /\ shutdown = FALSE /\ warmup = "none"
      /\ refreshed = 0 /\ ready = FALSE /\ enabled \in [Sched!AllNames -> BOOLEAN]
  BY DEF Sched!Init
<1>2. stop \in [Sched!AllNames -> BOOLEAN]
  BY DEF Sched!Init
<1>3. loop \in [Sched!AllNames -> {"none", "gate", "wait", "tick", "ended"}]
      /\ \A s \in Sched!AllNames : loop[s] = "none"
  BY DEF Sched!Init
<1>4. next \in 1..(Len(StartOrder) + 1) /\ refreshed \in 0..Refreshes
  BY <1>1, OrdersAre
<1>5. Sched!TypeOK
  BY <1>1, <1>2, <1>3, <1>4 DEF Sched!TypeOK
<1> QED
  BY <1>1, <1>3, <1>5 DEF GateInv

LEMMA GateNext == GateInv /\ [Sched!Next]_Sched!vars => GateInv'
<1> SUFFICES ASSUME GateInv, [Sched!Next]_Sched!vars PROVE GateInv'
  OBVIOUS
<1> USE DEF GateInv, Sched!TypeOK
<1>1. CASE Sched!Start
  <2>1. next \in 1..Len(StartOrder)
    BY <1>1, OrdersAre DEF Sched!Start
  <2>2. /\ next' \in 1..(Len(StartOrder) + 1)
        /\ StartOrder[next] \in Sched!AllNames
    BY <1>1, <2>1, OrdersAre DEF Sched!Start
  <2>3. main \in {"starting"} /\ main' \in {"starting", "ticking"}
    BY <1>1 DEF Sched!Start
  <2>4. loop' \in [Sched!AllNames -> {"none", "gate", "wait", "tick", "ended"}]
    BY <1>1, <2>2 DEF Sched!Start
  <2>5. \A s \in Gated \cap Sched!AllNames : loop'[s] \in {"wait", "tick"} => loop[s] \in {"wait", "tick"}
    BY <1>1, <2>2 DEF Sched!Start
  <2> QED
    BY <1>1, <2>2, <2>3, <2>4, <2>5 DEF Sched!Start
<1>2. CASE Sched!FirstTickEnds
  BY <1>2 DEF Sched!FirstTickEnds
<1>3. CASE Sched!Serve
  BY <1>3 DEF Sched!Serve
<1>4. CASE Sched!Shutdown
  BY <1>4 DEF Sched!Shutdown
<1>5. CASE Sched!WarmupJoined
  BY <1>5, OrdersAre DEF Sched!WarmupJoined
<1>6. CASE Sched!Stop
  <2>1. next \in 1..Len(StartOrder)
    BY <1>6, OrdersAre DEF Sched!Stop
  <2>2. next' \in 1..(Len(StartOrder) + 1) /\ StopOrder[next] \in Sched!AllNames
    BY <1>6, <2>1, OrdersAre DEF Sched!Stop
  <2> QED
    BY <1>6, <2>2 DEF Sched!Stop
<1>7. CASE Sched!Exit
  BY <1>7 DEF Sched!Exit
<1>8. CASE Sched!WarmupChecks
  <2>1. warmup = "check" /\ UNCHANGED <<main, next, shutdown, refreshed, stop, loop, enabled>>
    BY <1>8 DEF Sched!WarmupChecks
  <2>2. /\ warmup' \in {"refresh", "aborted", "ended"}
        /\ warmup' = "refresh" => refreshed # Refreshes
        /\ warmup' = "aborted" => shutdown
    BY <1>8, <2>1 DEF Sched!WarmupChecks
  <2>3. ready' \in BOOLEAN
    BY <1>8, <2>1 DEF Sched!WarmupChecks, Sched!Opens
  <2>4. ready' => warmup' = "ended"
    <3>1. ~ready
      BY <2>1
    <3>2. ready' => warmup' # "refresh" /\ ~shutdown
      BY <1>8, <3>1, Zenon DEF Sched!WarmupChecks, Sched!Opens
    <3> QED
      BY <2>2, <3>2
  <2>5. warmup' = "refresh" => refreshed' < Refreshes
    BY <2>1, <2>2, OrdersAre
  <2>6. main' \notin {"starting", "ticking"}
    BY <2>1
  <2>7. \A s \in Gated \cap Sched!AllNames : loop'[s] \notin {"wait", "tick"}
    BY <2>1
  <2>8. Sched!TypeOK'
    BY <2>1, <2>2, <2>3
  <2> QED
    BY <2>4, <2>5, <2>6, <2>7, <2>8 DEF GateInv
<1>9. CASE Sched!WarmupRefreshes
  <2>1. warmup = "refresh" /\ UNCHANGED <<main, next, shutdown, stop, loop, enabled>>
    BY <1>9 DEF Sched!WarmupRefreshes
  <2>2. /\ refreshed' \in 0..Refreshes /\ warmup' \in {"check", "ended"}
    <3>1. refreshed < Refreshes /\ refreshed \in Nat /\ Refreshes \in Nat
      BY <2>1, OrdersAre
    <3>2. \/ warmup' = "check" /\ refreshed' = refreshed + 1
          \/ warmup' = "ended" /\ refreshed' = refreshed
      BY <1>9, Zenon DEF Sched!WarmupRefreshes
    <3> QED
      BY <3>1, <3>2
  <2>3. ready' \in BOOLEAN
    BY <1>9, <2>1 DEF Sched!WarmupRefreshes, Sched!Opens
  <2>4. ready' => warmup' = "ended"
    <3>1. ~ready
      BY <2>1
    <3> QED
      BY <1>9, <3>1, Zenon DEF Sched!WarmupRefreshes
  <2>5. main' \notin {"starting", "ticking"}
    BY <2>1
  <2>6. \A s \in Gated \cap Sched!AllNames : loop'[s] \notin {"wait", "tick"}
    BY <2>1
  <2>7. Sched!TypeOK'
    BY <2>1, <2>2, <2>3
  <2> QED
    BY <2>2, <2>4, <2>5, <2>6, <2>7 DEF GateInv
<1>10. ASSUME NEW s \in Sched!AllNames, Sched!Step(s) PROVE GateInv'
  <2>1. \A r \in Sched!AllNames \ {s} : loop'[r] = loop[r]
    BY <1>10 DEF Sched!Step, Sched!GateSteps, Sched!Tick, Sched!Quit, Sched!TickEnds, Sched!Goto
  <2>2. loop'[s] \in {"wait", "tick"} => ready \/ loop[s] \in {"wait", "tick"}
    BY <1>10 DEF Sched!Step, Sched!GateSteps, Sched!Tick, Sched!Quit, Sched!TickEnds, Sched!Goto
  <2>3. loop' \in [Sched!AllNames -> {"none", "gate", "wait", "tick", "ended"}]
    BY <1>10 DEF Sched!Step, Sched!GateSteps, Sched!Tick, Sched!Quit, Sched!TickEnds, Sched!Goto
  <2>4. UNCHANGED <<main, next, shutdown, warmup, refreshed, ready, stop, enabled>>
    BY <1>10 DEF Sched!Step
  <2> QED
    BY <2>1, <2>2, <2>3, <2>4
<1>11. ASSUME NEW s \in Sched!AllNames, Sched!Configure(s) PROVE GateInv'
  <2>1. enabled' \in [Sched!AllNames -> BOOLEAN]
    BY <1>11 DEF Sched!Configure
  <2> QED
    BY <1>11, <2>1 DEF Sched!Configure
<1>12. CASE UNCHANGED Sched!vars
  BY <1>12 DEF Sched!vars
<1> QED
  BY <1>1, <1>2, <1>3, <1>4, <1>5, <1>6, <1>7, <1>8, <1>9, <1>10, <1>11, <1>12, NextIsTurns
     DEF Turns

-----------------------------------------------------------------------------
(* The types: what they need besides the invariants.                       *)

AuthBounds == expired \subseteq Auth!Keys /\ requests \in 0..MaxUses

LEMMA AuthBoundsStart == ServicesAssumption /\ Auth!Init => AuthBounds
BY DEF ServicesAssumption, Auth!SessionsAssumption, Auth!Init, AuthBounds

LEMMA AuthBoundsHold ==
    ASSUME MaxUses \in Nat, AuthInv, AuthBounds, [Auth!Next]_Auth!vars
    PROVE  AuthBounds'
<1>1. issued \in Seq(Session)
  BY DEF AuthInv, RequestsTyped
<1>2. Auth!Keys \subseteq Auth!Keys'
  <2>1. \/ UNCHANGED issued
        \/ \E e : issued' = Append(issued, e)
    BY DEF Auth!Next, Auth!vars, Auth!Login, Auth!StartToken, Auth!RevokeStored,
           Auth!ForgetTokens, Auth!IssueToken, Auth!SaveToken, Auth!Present, Auth!Load,
           Auth!Remember, Auth!Answer, Auth!Logout, Auth!Revoke, Auth!CallFails, Auth!Expire,
           Auth!Crash, Auth!Issue
  <2>2. ASSUME NEW e, issued' = Append(issued, e) PROVE DOMAIN issued \subseteq DOMAIN issued'
    BY <1>1, <2>2
  <2> QED
    BY <2>1, <2>2 DEF Auth!Keys
<1>3. expired' \subseteq Auth!Keys'
  <2>1. \/ UNCHANGED expired
        \/ \E k \in Auth!Keys : expired' = expired \cup {k}
    BY DEF Auth!Next, Auth!vars, Auth!Login, Auth!StartToken, Auth!RevokeStored,
           Auth!ForgetTokens, Auth!IssueToken, Auth!SaveToken, Auth!Present, Auth!Load,
           Auth!Remember, Auth!Answer, Auth!Logout, Auth!Revoke, Auth!CallFails, Auth!Expire,
           Auth!Crash
  <2> QED
    BY <1>2, <2>1 DEF AuthBounds
<1>4. requests' \in 0..MaxUses
  <2>1. \/ UNCHANGED requests
        \/ requests < MaxUses /\ requests' = requests + 1
    BY DEF Auth!Next, Auth!vars, Auth!Login, Auth!StartToken, Auth!RevokeStored,
           Auth!ForgetTokens, Auth!IssueToken, Auth!SaveToken, Auth!Present, Auth!Load,
           Auth!Remember, Auth!Answer, Auth!Logout, Auth!Revoke, Auth!CallFails, Auth!Expire,
           Auth!Crash, Auth!Begin
  <2> QED
    BY <2>1 DEF AuthBounds
<1> QED
  BY <1>3, <1>4 DEF AuthBounds

LEMMA AuthTypes == AuthInv /\ AuthBounds => Auth!TypeOK
<1> SUFFICES ASSUME AuthInv, AuthBounds PROVE Auth!TypeOK
  OBVIOUS
<1>1. ASSUME NEW k \in Auth!Keys
      PROVE  issued[k].name \in Names /\ issued[k].purpose \in {"external", "api_token"}
  <2>1. issued[k] \in Session
    BY IssuedTyped DEF AuthInv, RequestsTyped
  <2> QED
    BY <2>1 DEF Session
<1>2. /\ memory \subseteq Auth!Keys /\ stored \subseteq Auth!Keys /\ given \subseteq Auth!Keys
      /\ \A k \in stored : issued[k].purpose = "api_token"
      /\ DOMAIN thread = Threads
  BY DEF AuthInv, RequestsTyped, Token
<1>3. revoked \subseteq Auth!Keys
  BY DEF AuthInv, RevokedIsGone
<1> QED
  BY <1>1, <1>2, <1>3 DEF AuthBounds, Auth!TypeOK

-----------------------------------------------------------------------------

DataBounds ==
    /\ view \in Data!Moments /\ viewer \in Data!Moments
    /\ \A t \in Threads : Data!At(t, "store view") => Data!Got(t, Viewed) \in Data!Moments

LEMMA DataBoundsStart == Data!OperationalDataAssumption /\ Data!Init => DataBounds
<1> SUFFICES ASSUME Data!OperationalDataAssumption, Data!Init PROVE DataBounds
  OBVIOUS
<1>1. \A t \in Threads : thread[t].pc = "idle"
  BY DEF Data!Init, Data!Idle
<1> QED
  BY <1>1, MomentsTyped DEF Data!Init, DataBounds, Data!At

LEMMA DataBoundsHold ==
    ASSUME Data!OperationalDataAssumption, DataInv, DataBounds, [Data!Next]_Data!vars
    PROVE  DataBounds'
<1>1. /\ latest \in [Data!AllSources -> [observed : Data!Moments, read : Data!Moments]]
      /\ thread \in [Threads -> Collector]
      /\ Viewed \in Data!AllSources
  BY DEF DataInv, CollectorsTyped, Data!OperationalDataAssumption, Data!AllSources
<1>2. latest[Viewed].read \in Data!Moments /\ Data!Never \in Data!Moments
  BY <1>1, MomentsTyped
<1>3. ASSUME NEW t \in Threads, Data!ReadForView(t) PROVE DataBounds'
  <2> DEFINE m == [thread[t] EXCEPT !.pc = "store view",
                                    !.got = [s \in {Viewed} |-> latest[s].read]]
  <2>1. m.got[Viewed] = latest[Viewed].read
    <3>1. m.got = [s \in {Viewed} |-> latest[s].read]
      BY <1>1 DEF Collector
    <3> QED
      BY <3>1
  <2>2. thread' = [thread EXCEPT ![t] = m] /\ UNCHANGED <<view, viewer>>
    BY <1>3 DEF Data!ReadForView, Data!Become
  <2> HIDE DEF m
  <2> QED
    BY <1>1, <1>2, <2>1, <2>2 DEF DataBounds, Data!At, Data!Got
<1>4. ASSUME NEW t \in Threads, \A u \in Threads \ {t} : thread'[u] = thread[u],
             thread'[t].pc # "store view", UNCHANGED viewer,
             view' = view \/ (Data!At(t, "store view") /\ view' = Data!Got(t, Viewed))
      PROVE  DataBounds'
  BY <1>1, <1>4 DEF DataBounds, Data!At, Data!Got
<1>5. ASSUME NEW t \in Threads, NEW mutation, NEW wants, Data!Begin(t, mutation, wants)
      PROVE  DataBounds'
  <2> DEFINE m == [Data!Idle EXCEPT !.pc = "fetch", !.mutation = mutation, !.wants = wants,
                                    !.began = clock']
  <2>1. m.pc = "fetch"
    BY DEF Data!Idle
  <2>2. thread' = [thread EXCEPT ![t] = m] /\ UNCHANGED <<view, viewer>>
    BY <1>5 DEF Data!Begin, Data!Become
  <2> HIDE DEF m
  <2>3. thread'[t].pc # "store view" /\ \A u \in Threads \ {t} : thread'[u] = thread[u]
    BY <1>1, <2>1, <2>2
  <2> QED
    BY <1>4, <2>2, <2>3
<1>6. ASSUME NEW t \in Threads,
             \/ \E s \in Data!AllSources : Data!Fetch(t, s) \/ Data!Save(t, s)
             \/ Data!EndFetch(t) \/ Data!EndSave(t) \/ Data!StoreView(t) \/ Data!Mutate(t)
             \/ Data!Stops(t)
      PROVE  DataBounds'
  <2>1. thread[t] \in Collector
    BY <1>1
  <2>2. \A u \in Threads \ {t} : thread'[u] = thread[u]
    BY <1>1, <1>6
       DEF Data!Fetch, Data!Save, Data!EndFetch, Data!EndSave, Data!StoreView, Data!Mutate,
           Data!Stops, Data!Become, Data!Goto
  <2>3. thread'[t].pc # "store view"
    <3>1. CASE \E s \in Data!AllSources : Data!Fetch(t, s)
      BY <1>1, <2>1, <3>1 DEF Data!Fetch, Data!Become, Data!At, Collector
    <3>2. CASE \E s \in Data!AllSources : Data!Save(t, s)
      <4>1. PICK s \in Data!AllSources : Data!Save(t, s)
        BY <3>2
      <4> DEFINE m == [thread[t] EXCEPT !.unsaved = thread[t].unsaved \ {s}]
      <4>2. thread' = [thread EXCEPT ![t] = m] /\ thread[t].pc = "save"
        BY <4>1 DEF Data!Save, Data!Become, Data!At
      <4>3. m.pc = thread[t].pc
        BY <2>1 DEF Collector
      <4> HIDE DEF m
      <4> QED
        BY <1>1, <4>2, <4>3
    <3>3. CASE Data!EndFetch(t)
      BY <1>1, <2>1, <3>3 DEF Data!EndFetch, Data!Become, Collector
    <3>4. CASE Data!EndSave(t)
      <4>1. \/ Data!Goto(t, "read view") \/ Data!Goto(t, "mutate")
            \/ thread' = [thread EXCEPT ![t] = Data!Idle]
        BY <3>4 DEF Data!EndSave, Data!Become
      <4>2. [thread[t] EXCEPT !.pc = "read view"].pc = "read view"
            /\ [thread[t] EXCEPT !.pc = "mutate"].pc = "mutate"
        BY <2>1 DEF Collector
      <4> QED
        BY <1>1, <4>1, <4>2, IdleCollectorTyped DEF Data!Goto, Data!Become
    <3>5. CASE Data!StoreView(t)
      BY <1>1, <2>1, <3>5 DEF Data!StoreView, Data!Become, Data!Goto, Collector
    <3>6. CASE Data!Mutate(t) \/ Data!Stops(t)
      <4>1. thread' = [thread EXCEPT ![t] = Data!Idle]
        BY <3>6 DEF Data!Mutate, Data!Stops, Data!Become
      <4> QED
        BY <1>1, <4>1, IdleCollectorTyped
    <3> QED
      BY <1>6, <3>1, <3>2, <3>3, <3>4, <3>5, <3>6
  <2>4. /\ UNCHANGED viewer
        /\ view' = view \/ (Data!At(t, "store view") /\ view' = Data!Got(t, Viewed))
    BY <1>6 DEF Data!Fetch, Data!Save, Data!EndFetch, Data!EndSave, Data!StoreView, Data!Mutate,
                Data!Stops
  <2> QED
    BY <1>4, <2>2, <2>3, <2>4
<1>7. CASE Data!ViewerReads \/ Data!ViewerStores
  BY <1>2, <1>7 DEF Data!ViewerReads, Data!ViewerStores, DataBounds, Data!At, Data!Got
<1>8. CASE UNCHANGED Data!vars
  BY <1>8 DEF Data!vars, DataBounds, Data!At, Data!Got
<1> QED
  BY <1>3, <1>5, <1>6, <1>7, <1>8 DEF Data!Next

LEMMA DataTypes == Data!OperationalDataAssumption /\ DataInv /\ DataBounds => Data!TypeOK
<1> SUFFICES ASSUME DataInv, DataBounds PROVE Data!TypeOK
  OBVIOUS
<1>1. ASSUME NEW t \in Threads
      PROVE  /\ DOMAIN thread[t].got \subseteq Data!AllSources /\ thread[t].began \in Data!Moments
             /\ thread[t].unsaved \subseteq Data!AllSources
  <2>1. thread[t] \in Collector
    BY DEF DataInv, CollectorsTyped
  <2>2. thread[t].got \in Fetches /\ thread[t].began \in Data!Moments
        /\ thread[t].unsaved \in SUBSET Data!AllSources
    BY <2>1 DEF Collector
  <2> QED
    BY <2>2 DEF Fetches
<1> QED
  BY <1>1 DEF DataInv, CollectorsTyped, DataBounds, Data!TypeOK

-----------------------------------------------------------------------------

\* Every row is of a collection that has begun.
KeepBounds ==
    /\ begun <= MaxBegun /\ aged \subseteq Keep!Keys /\ late \subseteq Keep!Keys
    /\ \A r \in rows : r.observed >= 1
    /\ \A t \in Threads : /\ ~Keep!At(t, "idle") => thread[t].began >= 1
                          /\ \A r \in thread[t].gone : r.observed >= 1

LEMMA KeepBoundsStart == Keep!RetentionAssumption /\ Keep!Init => KeepBounds
<1> SUFFICES ASSUME Keep!RetentionAssumption, Keep!Init PROVE KeepBounds
  OBVIOUS
<1>1. \A t \in Threads : thread[t].pc = "idle" /\ thread[t].gone = {}
  BY DEF Keep!Init, Keep!Idle
<1> QED
  BY <1>1 DEF Keep!Init, KeepBounds, Keep!At, Keep!RetentionAssumption

\* A step of one thread, which stores rows of its own collection.
LEMMA KeepBoundsStep ==
    ASSUME KeepInv, KeepBounds, NEW t \in Threads, NEW local,
           thread' = [thread EXCEPT ![t] = local],
           begun' <= MaxBegun, aged' \subseteq Keep!Keys, late' \subseteq Keep!Keys,
           local.pc # "idle" => local.began >= 1,
           \A r \in local.gone : r \in rows \/ r \in thread[t].gone,
           \A r \in rows' : r \in rows \/ r.observed >= 1
    PROVE  KeepBounds'
<1>1. /\ thread'[t] = local
      /\ \A u \in Threads \ {t} : thread'[u] = thread[u]
  BY DEF KeepInv, KeepTyped
<1>2. \A u \in Threads : \A r \in thread'[u].gone : r.observed >= 1
  BY <1>1 DEF KeepBounds
<1>3. \A u \in Threads : thread'[u].pc # "idle" => thread'[u].began >= 1
  BY <1>1 DEF KeepBounds, Keep!At
<1> QED
  BY <1>2, <1>3 DEF KeepBounds, Keep!At, Keep!Keys, Keep!Metric

LEMMA KeepBoundsHold ==
    ASSUME Keep!RetentionAssumption, KeepInv, KeepBounds, [Keep!Next]_Keep!vars
    PROVE  KeepBounds'
<1>1. \A t \in Threads : thread[t] \in Cleaner
  BY DEF KeepInv, KeepTyped
<1>2. /\ Keep!Idle.pc = "idle" /\ Keep!Idle.gone = {}
      /\ begun \in Nat /\ begun <= MaxBegun /\ aged \subseteq Keep!Keys /\ late \subseteq Keep!Keys
  BY DEF Keep!Idle, KeepInv, KeepTyped, KeepBounds
<1>3. ASSUME NEW t \in Threads, NEW cleans \in BOOLEAN, Keep!Begin(t, cleans) PROVE KeepBounds'
  <2> DEFINE l == [Keep!Idle EXCEPT !.pc = "collect", !.began = begun', !.cleans = cleans,
                                    !.todo = Sources]
  <2>1. l.began = begun' /\ l.gone = {}
    BY DEF Keep!Idle
  <2>2. /\ thread' = [thread EXCEPT ![t] = l] /\ begun' = begun + 1 /\ begun < MaxBegun
        /\ UNCHANGED <<rows, aged, late>>
    BY <1>3 DEF Keep!Begin, Keep!Become
  <2> HIDE DEF l
  <2>3. begun' <= MaxBegun /\ l.began >= 1
    BY <1>2, <2>1, <2>2 DEF Keep!RetentionAssumption
  <2> QED
    BY <1>2, <2>1, <2>2, <2>3, KeepBoundsStep
<1>4. ASSUME NEW t \in Threads, NEW s \in Sources, Keep!SaveSnapshot(t, s) PROVE KeepBounds'
  <2> DEFINE l == [thread[t] EXCEPT !.todo = @ \ {s}]
             r == Keep!Row(s, Keep!NoScope, thread[t].began)
  <2>1. l.began = thread[t].began /\ l.gone = thread[t].gone /\ thread[t].began >= 1
    BY <1>1, <1>4 DEF Cleaner, Keep!SaveSnapshot, Keep!At, KeepBounds
  <2>2. /\ thread' = [thread EXCEPT ![t] = l] /\ rows' = rows \cup {r}
        /\ UNCHANGED <<begun, aged>> /\ late' \subseteq late \cup {s}
    BY <1>4 DEF Keep!SaveSnapshot, Keep!Become, Keep!Store
  <2>3. r.observed = thread[t].began /\ s \in Keep!Keys
    BY DEF Keep!Row, Keep!Keys
  <2> HIDE DEF l, r
  <2> QED
    BY <1>2, <2>1, <2>2, <2>3, KeepBoundsStep
<1>5. ASSUME NEW t \in Threads, Keep!SaveSamples(t) PROVE KeepBounds'
  <2> DEFINE l == IF thread[t].cleans THEN [thread[t] EXCEPT !.pc = "clean"] ELSE Keep!Idle
             R(S) == {Keep!Row(Keep!Metric, i, thread[t].began) : i \in S}
  <2>1. /\ l.pc # "idle" => l.began = thread[t].began
        /\ \A r \in l.gone : r \in thread[t].gone
        /\ thread[t].began >= 1
    BY <1>1, <1>2, <1>5 DEF Cleaner, Keep!SaveSamples, Keep!At, KeepBounds
  <2>2. PICK S \in SUBSET Keep!AllScopes :
            /\ rows' = rows \cup R(S)
            /\ late' \subseteq late \cup {Keep!Metric}
    BY <1>5 DEF Keep!SaveSamples, Keep!Store
  <2>3. thread' = [thread EXCEPT ![t] = l] /\ UNCHANGED <<begun, aged>>
    BY <1>5 DEF Keep!SaveSamples, Keep!Become
  <2>4. \A r \in R(S) : r.observed = thread[t].began
    BY DEF Keep!Row
  <2>5. Keep!Metric \in Keep!Keys
    BY DEF Keep!Keys
  <2> HIDE DEF l, R
  <2> QED
    BY <1>2, <2>1, <2>2, <2>3, <2>4, <2>5, KeepBoundsStep
<1>6. ASSUME NEW t \in Threads, Keep!DeleteByAge(t) PROVE KeepBounds'
  <2>1. PICK out \in SUBSET rows, bySize \in BOOLEAN :
            /\ thread' = [thread EXCEPT ![t] = [thread[t] EXCEPT !.gone = out,
                                           !.pc = IF bySize THEN "shrink" ELSE "commit"]]
            /\ aged' = aged \cup {r.key : r \in out}
    BY <1>6 DEF Keep!DeleteByAge, Keep!Become, Keep!Outdated, Keep!Visible
  <2> DEFINE l == [thread[t] EXCEPT !.gone = out, !.pc = IF bySize THEN "shrink" ELSE "commit"]
  <2>2. l.began = thread[t].began /\ l.gone = out /\ thread[t].began >= 1
    BY <1>1, <1>6 DEF Cleaner, Keep!DeleteByAge, Keep!At, KeepBounds
  <2>3. aged' \subseteq Keep!Keys
    BY <1>2, <2>1, StampedFields
  <2>4. thread' = [thread EXCEPT ![t] = l] /\ UNCHANGED <<begun, rows, late>>
    BY <1>6, <2>1 DEF Keep!DeleteByAge
  <2> HIDE DEF l
  <2> QED
    BY <1>2, <2>1, <2>2, <2>3, <2>4, KeepBoundsStep
<1>7. ASSUME NEW t \in Threads, Keep!DeleteOldest(t) \/ Keep!Shrunk(t) PROVE KeepBounds'
  <2> DEFINE m(pc, more) == [thread[t] EXCEPT !.pc = pc, !.gone = thread[t].gone \cup more]
  <2>1. \E pc \in {"shrink", "commit"}, more \in SUBSET rows :
            thread' = [thread EXCEPT ![t] = m(pc, more)]
    <3>1. CASE Keep!DeleteOldest(t)
      <4>1. PICK r \in rows : Keep!Become(t, [thread[t] EXCEPT !.gone = thread[t].gone \cup {r}])
        BY <3>1 DEF Keep!DeleteOldest, Keep!Oldest, Keep!Visible
      <4>2. [thread[t] EXCEPT !.gone = thread[t].gone \cup {r}] = m("shrink", {r})
        BY <1>1, <3>1 DEF Cleaner, Keep!DeleteOldest, Keep!At
      <4>3. thread' = [thread EXCEPT ![t] = m("shrink", {r})] /\ {r} \in SUBSET rows
        BY <4>1, <4>2 DEF Keep!Become
      <4> HIDE DEF m
      <4> QED
        BY <4>3
    <3>2. CASE Keep!Shrunk(t)
      <4>1. [thread[t] EXCEPT !.pc = "commit"] = m("commit", {})
        BY <1>1 DEF Cleaner
      <4>2. thread' = [thread EXCEPT ![t] = m("commit", {})] /\ {} \in SUBSET rows
        BY <3>2, <4>1 DEF Keep!Shrunk, Keep!Become
      <4> HIDE DEF m
      <4> QED
        BY <4>2
    <3> QED
      BY <1>7, <3>1, <3>2
  <2> HIDE DEF m
  <2>4. PICK pc \in {"shrink", "commit"}, more \in SUBSET rows :
            thread' = [thread EXCEPT ![t] = m(pc, more)]
    BY <2>1
  <2> DEFINE l == [thread[t] EXCEPT !.pc = pc, !.gone = thread[t].gone \cup more]
  <2>2. l.began = thread[t].began /\ l.gone = thread[t].gone \cup more /\ thread[t].began >= 1
    BY <1>1, <1>7 DEF Cleaner, Keep!DeleteOldest, Keep!Shrunk, Keep!At, KeepBounds
  <2>3. thread' = [thread EXCEPT ![t] = l] /\ UNCHANGED <<begun, rows, aged, late>>
    BY <1>7, <2>4 DEF Keep!DeleteOldest, Keep!Shrunk, m
  <2> HIDE DEF l
  <2> QED
    BY <1>2, <2>2, <2>3, KeepBoundsStep
<1>8. ASSUME NEW t \in Threads, Keep!NoLimits(t) \/ Keep!Stops(t) \/ Keep!Commit(t)
      PROVE  KeepBounds'
  <2>1. /\ thread' = [thread EXCEPT ![t] = Keep!Idle] /\ rows' \subseteq rows
        /\ UNCHANGED <<begun, aged, late>>
    BY <1>8 DEF Keep!NoLimits, Keep!Stops, Keep!Commit, Keep!Become
  <2> QED
    BY <1>2, <2>1, KeepBoundsStep
<1>9. CASE UNCHANGED Keep!vars
  BY <1>9 DEF Keep!vars, KeepBounds, Keep!At, Keep!Keys, Keep!Metric
<1> QED
  BY <1>3, <1>4, <1>5, <1>6, <1>7, <1>8, <1>9 DEF Keep!Next

LEMMA KeepTypes == Keep!RetentionAssumption /\ KeepInv /\ KeepBounds => Keep!TypeOK
<1> SUFFICES ASSUME Keep!RetentionAssumption, KeepInv, KeepBounds PROVE Keep!TypeOK
  OBVIOUS
<1>1. begun \in Nat /\ newest \in [Keep!Keys -> Nat] /\ \A k \in Keep!Keys : newest[k] <= begun
  BY DEF KeepInv, KeepTyped, Dated
<1>2. Keep!AllScopes \cup {Keep!NoScope} = 0..NScopes
  BY DEF Keep!RetentionAssumption, Keep!AllScopes, Keep!NoScope
<1>3. ASSUME NEW r \in Stamped, r.observed <= newest[r.key], r.observed >= 1
      PROVE  /\ r.key \in Keep!Keys /\ r.scope \in 0..NScopes /\ r.observed \in 1..begun
             /\ r \in [key : Keep!Keys, scope : 0..NScopes, observed : 1..begun]
  <2>1. r.key \in Keep!Keys /\ r.scope \in 0..NScopes /\ r.observed \in Nat
        /\ r = [key |-> r.key, scope |-> r.scope, observed |-> r.observed]
    BY DEF Stamped
  <2>2. r.observed \in 1..begun
    BY <1>1, <1>3, <2>1
  <2> QED
    BY <2>1, <2>2
<1>4. \A r \in rows : r \in Stamped /\ r.observed <= newest[r.key] /\ r.observed >= 1
  BY DEF KeepInv, KeepTyped, Dated, KeepBounds
<1>5. \A t \in Threads : \A r \in thread[t].gone :
        r \in Stamped /\ r.observed <= newest[r.key] /\ r.observed >= 1
  BY GoneFields DEF KeepInv, Dated, KeepBounds
<1>6. begun \in 0..MaxBegun /\ DOMAIN newest = Keep!Keys /\ aged \subseteq Keep!Keys
      /\ late \subseteq Keep!Keys
  BY <1>1 DEF KeepBounds, Keep!RetentionAssumption
<1> QED
  BY <1>2, <1>3, <1>4, <1>5, <1>6 DEF Keep!TypeOK

-----------------------------------------------------------------------------
(* Notification: what its types need.                                      *)

\* An evaluation that delivers has something to say.
Speaks(l) == l.attempts <= MaxAttempts /\ (l.pc = "deliver" => l.action \in Rule!Values)

RuleBounds ==
    /\ world \in [Scopes -> Rule!Values] /\ told \in [Scopes -> Rule!Values]
    /\ sample \in [Scopes -> [value : Rule!Values \cup {"none"}, age : 0..Rule!SampleCap]]
    /\ failures \in 0..MaxFailures
    /\ \A t \in Threads : Speaks(thread[t])

LEMMA SampleBounds ==
    ASSUME Rule!NotificationAssumption
    PROVE  Rule!SampleCap \in Nat /\ MaxLag \in Nat /\ MaxLag <= Rule!SampleCap
           /\ MaxFailures \in Nat /\ MaxAttempts \in Nat \ {0}
BY DEF Rule!NotificationAssumption, Rule!SampleCap

LEMMA IdleSpeaks == Rule!NotificationAssumption => Speaks(Rule!Idle)
BY DEF Rule!NotificationAssumption, Speaks, Rule!Idle

LEMMA RuleBoundsStart == Rule!NotificationAssumption /\ Rule!Init => RuleBounds
<1> SUFFICES ASSUME Rule!NotificationAssumption, Rule!Init PROVE RuleBounds
  OBVIOUS
<1>1. \A t \in Threads : thread[t] = Rule!Idle
  BY DEF Rule!Init
<1>2. Rule!NoSample \in [value : Rule!Values \cup {"none"}, age : 0..Rule!SampleCap]
  BY SampleBounds DEF Rule!NoSample
<1>3. \A s \in Scopes : "good" \in Rule!Values
  BY DEF Rule!Values
<1> QED
  BY <1>1, <1>2, <1>3, IdleSpeaks, SampleBounds DEF Rule!Init, RuleBounds

\* A step of one evaluation that collects nothing.
LEMMA RuleBoundsStep ==
    ASSUME RuleInv, RuleBounds, NEW t \in Threads, NEW l, Speaks(l),
           thread' = [thread EXCEPT ![t] = l], UNCHANGED <<world, sample>>,
           failures' \in 0..MaxFailures, told' \in [Scopes -> Rule!Values]
    PROVE  RuleBounds'
<1>1. thread'[t] = l /\ \A u \in Threads \ {t} : thread'[u] = thread[u]
  BY DEF RuleInv, RuleTyped
<1>2. \A u \in Threads : Speaks(thread'[u])
  BY <1>1 DEF RuleBounds
<1>3. \A u \in Threads : Speaks(thread[u])'
  BY <1>2 DEF Speaks, Rule!Values
<1>4. world' = world /\ sample' = sample
  OBVIOUS
<1> QED
  BY <1>3, <1>4 DEF RuleBounds, Rule!Values, Rule!SampleCap

LEMMA RuleBoundsHold ==
    ASSUME Rule!NotificationAssumption, RuleInv, RuleBounds, [Rule!Next]_Rule!vars
    PROVE  RuleBounds'
<1>1. /\ \A t \in Threads : thread[t] \in Evaluation /\ Speaks(thread[t])
      /\ failures \in 0..MaxFailures /\ MaxFailures \in Nat
      /\ told \in [Scopes -> Rule!Values] /\ world \in [Scopes -> Rule!Values]
      /\ sample \in [Scopes -> [value : Rule!Values \cup {"none"}, age : 0..Rule!SampleCap]]
      /\ thread \in [Threads -> Evaluation]
  BY SampleBounds DEF RuleInv, RuleTyped, RuleBounds
<1>2. \A kind : Rule!Fails(kind) => failures' \in 0..MaxFailures
  BY <1>1 DEF Rule!Fails
<1>3. CASE Rule!Minute
  <2>1. ASSUME NEW s \in Scopes
        PROVE  sample'[s] \in [value : Rule!Values \cup {"none"}, age : 0..Rule!SampleCap]
    <3>1. Rule!Older(sample[s].age, Rule!SampleCap) \in 0..Rule!SampleCap
      BY <1>1, SampleBounds, OlderGrows
    <3>2. sample'[s] = [sample[s] EXCEPT !.age = Rule!Older(sample[s].age, Rule!SampleCap)]
      BY <1>3 DEF Rule!Minute
    <3> QED
      BY <1>1, <3>1, <3>2
  <2>2. ASSUME NEW t \in Threads PROVE Speaks(thread'[t])
    <3>1. thread'[t] = Aged(thread[t]) /\ (thread[t].pc = "idle" \/ thread[t].lag < MaxLag)
      BY <1>3 DEF Rule!Minute, Aged, Rule!At
    <3>2. Aged(thread[t]).pc = thread[t].pc /\ Aged(thread[t]).action = thread[t].action
      BY <1>1, <3>1, AgedTyped
    <3>3. Aged(thread[t]).attempts = thread[t].attempts
      BY <1>1 DEF Aged, Evaluation
    <3> QED
      BY <1>1, <3>1, <3>2, <3>3 DEF Speaks
  <2>3. \A t \in Threads : Speaks(thread[t])'
    BY <2>2 DEF Speaks, Rule!Values
  <2>4. sample' \in [Scopes -> [value : Rule!Values \cup {"none"}, age : 0..Rule!SampleCap]]
    BY <1>3, <2>1 DEF Rule!Minute
  <2> QED
    BY <1>1, <1>3, <2>3, <2>4 DEF Rule!Minute, RuleBounds, Rule!Values, Rule!SampleCap
<1>4. ASSUME NEW s \in Scopes, Rule!Change(s) PROVE RuleBounds'
  <2>1. world' \in [Scopes -> Rule!Values]
    BY <1>1, <1>4 DEF Rule!Change
  <2>2. \A t \in Threads : Speaks(thread[t])'
    BY <1>1, <1>4 DEF Rule!Change, Speaks, Rule!Values
  <2> QED
    BY <1>1, <1>4, <2>1, <2>2 DEF Rule!Change, RuleBounds, Rule!Values, Rule!SampleCap
<1>5. ASSUME NEW t \in Threads, Rule!Collect(t) \/ Rule!CollectFails(t) PROVE RuleBounds'
  <2> DEFINE l == [thread[t] EXCEPT !.pc = "read"]
  <2>1. l.attempts = thread[t].attempts /\ l.pc = "read"
    BY <1>1 DEF Evaluation
  <2>2. Speaks(l)
    BY <1>1, <2>1 DEF Speaks
  <2>3. thread' = [thread EXCEPT ![t] = l] /\ UNCHANGED <<world, told>>
    BY <1>5 DEF Rule!Collect, Rule!CollectFails, Rule!Become
  <2> HIDE DEF l
  <2>4. sample' \in [Scopes -> [value : Rule!Values \cup {"none"}, age : 0..Rule!SampleCap]]
    <3>1. CASE Rule!CollectFails(t)
      BY <1>1, <3>1 DEF Rule!CollectFails
    <3>2. CASE Rule!Collect(t)
      <4>1. thread[t].lag \in 0..Rule!SampleCap
        BY <1>1, SampleBounds DEF Evaluation
      <4>2. \A s \in Scopes : [value |-> world[s], age |-> thread[t].lag]
                 \in [value : Rule!Values \cup {"none"}, age : 0..Rule!SampleCap]
        BY <1>1, <4>1
      <4> QED
        BY <1>1, <3>2, <4>2 DEF Rule!Collect
    <3> QED
      BY <1>5, <3>1, <3>2
  <2>5. failures' \in 0..MaxFailures
    BY <1>1, <1>2, <1>5 DEF Rule!Collect, Rule!CollectFails
  <2>6. \A u \in Threads : Speaks(thread'[u])
    <3>1. thread'[t] = l /\ \A u \in Threads \ {t} : thread'[u] = thread[u]
      BY <1>1, <2>3
    <3> QED
      BY <1>1, <2>2, <3>1
  <2>7. \A u \in Threads : Speaks(thread[u])'
    BY <2>6 DEF Speaks, Rule!Values
  <2> QED
    BY <1>1, <2>3, <2>4, <2>5, <2>7 DEF RuleBounds, Rule!Values, Rule!SampleCap
<1>6. ASSUME NEW t \in Threads, Rule!Begin(t) PROVE RuleBounds'
  <2> DEFINE l == [Rule!Idle EXCEPT !.pc = "collect"]
  <2>1. Speaks(l)
    BY SampleBounds DEF Rule!Idle, Speaks
  <2>2. thread' = [thread EXCEPT ![t] = l] /\ UNCHANGED <<world, sample, told, failures>>
    BY <1>6 DEF Rule!Begin, Rule!Become
  <2> HIDE DEF l
  <2> QED
    BY <1>1, <2>1, <2>2, RuleBoundsStep
<1>7. ASSUME NEW t \in Threads, Rule!ReadSamples(t) PROVE RuleBounds'
  <2>1. PICK known, bad : thread' = [thread EXCEPT ![t] =
            [thread[t] EXCEPT !.pc = "next", !.todo = known, !.samples = bad]]
    BY <1>7 DEF Rule!ReadSamples, Rule!Become
  <2> DEFINE l == [thread[t] EXCEPT !.pc = "next", !.todo = known, !.samples = bad]
  <2>2. l.pc = "next" /\ l.attempts = thread[t].attempts
    BY <1>1 DEF Evaluation
  <2>3. Speaks(l)
    BY <1>1, <2>2 DEF Speaks
  <2>4. thread' = [thread EXCEPT ![t] = l] /\ UNCHANGED <<world, sample, told, failures>>
    BY <1>7, <2>1 DEF Rule!ReadSamples
  <2> HIDE DEF l
  <2> QED
    BY <1>1, <2>3, <2>4, RuleBoundsStep
<1>8. ASSUME NEW t \in Threads, NEW s \in Scopes, Rule!Decide(t, s) PROVE RuleBounds'
  <2>1. PICK todo, then, action : thread' = [thread EXCEPT ![t] =
            [thread[t] EXCEPT !.pc = "store", !.scope = s, !.todo = todo, !.next = then,
                              !.attempts = 0, !.action = action]]
    BY <1>8 DEF Rule!Decide, Rule!Become
  <2> DEFINE l == [thread[t] EXCEPT !.pc = "store", !.scope = s, !.todo = todo, !.next = then,
                                    !.attempts = 0, !.action = action]
  <2>2. l.pc = "store" /\ l.attempts = 0
    BY <1>1 DEF Evaluation
  <2>3. Speaks(l)
    BY <2>2, SampleBounds DEF Speaks
  <2>4. thread' = [thread EXCEPT ![t] = l] /\ UNCHANGED <<world, sample, told, failures>>
    BY <1>8, <2>1 DEF Rule!Decide
  <2> HIDE DEF l
  <2> QED
    BY <1>1, <2>3, <2>4, RuleBoundsStep
<1>9. ASSUME NEW t \in Threads, Rule!Store(t) PROVE RuleBounds'
  <2> DEFINE l == [thread[t] EXCEPT !.pc = IF thread[t].action = "hold" THEN "next" ELSE "deliver"]
  <2>1. /\ l.attempts = thread[t].attempts /\ l.action = thread[t].action
        /\ l.pc = IF thread[t].action = "hold" THEN "next" ELSE "deliver"
        /\ thread[t].action \in {"hold", "good", "bad"}
    BY <1>1 DEF Evaluation
  <2>2. Speaks(l)
    BY <1>1, <2>1 DEF Speaks, Rule!Values
  <2>3. thread' = [thread EXCEPT ![t] = l] /\ UNCHANGED <<world, sample, told, failures>>
    BY <1>9 DEF Rule!Store, Rule!Become
  <2> HIDE DEF l
  <2> QED
    BY <1>1, <2>2, <2>3, RuleBoundsStep
<1>10. ASSUME NEW t \in Threads, Rule!Deliver(t) \/ Rule!DeliveryFails(t) PROVE RuleBounds'
  <2>1. /\ told' \in [Scopes -> Rule!Values] /\ failures' \in 0..MaxFailures
        /\ thread[t].pc = "deliver" /\ UNCHANGED <<world, sample>>
    <3>1. thread[t].pc = "deliver" /\ thread[t].action \in Rule!Values
      BY <1>1, <1>10 DEF Speaks, Rule!Deliver, Rule!DeliveryFails, Rule!At
    <3> QED
      BY <1>1, <1>2, <1>10, <3>1 DEF Rule!Deliver, Rule!DeliveryFails, Rule!Hear
  <2> DEFINE done == [thread[t] EXCEPT !.pc = "next", !.action = "hold"]
             again == [thread[t] EXCEPT !.attempts = @ + 1]
  <2>2. \/ thread' = [thread EXCEPT ![t] = done]
        \/ thread[t].attempts + 1 < MaxAttempts /\ thread' = [thread EXCEPT ![t] = again]
    BY <1>10 DEF Rule!Deliver, Rule!DeliveryFails, Rule!Become
  <2>3. Speaks(done)
    <3>1. done.attempts = thread[t].attempts /\ done.pc = "next"
      BY <1>1 DEF Evaluation
    <3> QED
      BY <1>1, <3>1 DEF Speaks
  <2>4. ASSUME thread[t].attempts + 1 < MaxAttempts PROVE Speaks(again)
    <3>1. /\ again.attempts = thread[t].attempts + 1 /\ again.pc = thread[t].pc
          /\ again.action = thread[t].action
      BY <1>1 DEF Evaluation
    <3>2. thread[t].attempts \in Nat
      BY <1>1 DEF Evaluation
    <3> QED
      BY <1>1, <2>4, <3>1, <3>2, SampleBounds DEF Speaks
  <2> HIDE DEF done, again
  <2> QED
    BY <2>1, <2>2, <2>3, <2>4, RuleBoundsStep
<1>11. ASSUME NEW t \in Threads, Rule!End(t) \/ Rule!Stops(t) PROVE RuleBounds'
  <2>1. /\ thread' = [thread EXCEPT ![t] = Rule!Idle] /\ UNCHANGED <<world, sample, told>>
        /\ failures' \in 0..MaxFailures
    BY <1>1, <1>2, <1>11 DEF Rule!End, Rule!Stops, Rule!Become
  <2> QED
    BY <1>1, <2>1, IdleSpeaks, RuleBoundsStep
<1>12. CASE UNCHANGED Rule!vars
  BY <1>12 DEF Rule!vars, RuleBounds, Speaks, Rule!Values, Rule!SampleCap
<1> QED
  BY <1>3, <1>4, <1>5, <1>6, <1>7, <1>8, <1>9, <1>10, <1>11, <1>12 DEF Rule!Next, Rule!Step

LEMMA RuleTypes == Rule!NotificationAssumption /\ RuleInv /\ RuleBounds => Rule!TypeOK
<1> SUFFICES ASSUME Rule!NotificationAssumption, RuleInv, RuleBounds PROVE Rule!TypeOK
  OBVIOUS
<1>1. \A t \in Threads : thread[t].lag \in 0..MaxLag /\ thread[t].attempts \in 0..MaxAttempts
  <2> SUFFICES ASSUME NEW t \in Threads
               PROVE  thread[t].lag \in 0..MaxLag /\ thread[t].attempts \in 0..MaxAttempts
    OBVIOUS
  <2>1. thread[t] \in Evaluation /\ Speaks(thread[t])
    BY DEF RuleInv, RuleTyped, RuleBounds
  <2> QED
    BY <2>1, SampleBounds DEF Evaluation, Speaks
<1> QED
  BY <1>1 DEF RuleInv, RuleTyped, RuleBounds, RuleState, Rule!TypeOK

-----------------------------------------------------------------------------
(* Provisioning: what its types need.                                      *)

\* A request that stores a flow has the account that the flow names, and only platforms
\* with a handoff get one.
Equipped(l) ==
    /\ (l.pc = "save" /\ (l.kind = "paste" \/ l.account # Prov!None))
          => l.account \in DOMAIN accounts
    /\ (l.pc # "idle" /\ l.kind = "oauth") => l.platform \in OAuthPlatforms

HandoffsKnown == \A s \in DOMAIN sessions : sessions[s].platform \in OAuthPlatforms

FlowsComplete ==
    \A f \in DOMAIN flows :
        /\ flows[f].status = "completed" => flows[f].account \in DOMAIN accounts
        /\ flows[f].status = "pending_oauth" => flows[f].session # Prov!None

ProvBounds ==
    /\ requests \in 0..MaxFlows /\ HandoffsKnown /\ FlowsComplete
    /\ \A t \in Threads : Equipped(thread[t])

LEMMA ProvBoundsStart ==
    ASSUME Prov!ProvisioningAssumption, Prov!Init PROVE ProvBounds
<1>1. /\ \A t \in Threads : thread[t].pc = "idle"
      /\ sessions = <<>> /\ flows = <<>> /\ requests = 0
  BY DEF Prov!Init, Prov!Idle
<1>2. MaxFlows \in Nat
  BY DEF Prov!ProvisioningAssumption
<1> QED
  BY <1>1, <1>2 DEF ProvBounds, HandoffsKnown, FlowsComplete, Equipped

\* A step of one thread; where it stores nothing but accounts, the flows stay complete.
LEMMA ProvBoundsStep ==
    ASSUME ProvInv, ProvBounds, NEW t \in Threads, NEW n,
           thread' = [thread EXCEPT ![t] = n], requests' \in 0..MaxFlows,
           DOMAIN accounts \subseteq DOMAIN accounts',
           Equipped(n)', HandoffsKnown', FlowsComplete' \/ UNCHANGED flows
    PROVE  ProvBounds'
<1>1. thread'[t] = n /\ \A u \in Threads \ {t} : thread'[u] = thread[u]
  BY DEF ProvInv, ProvTyped
<1>2. ASSUME NEW u \in Threads PROVE Equipped(thread[u])'
  <2>1. CASE u = t
    BY <1>1, <2>1 DEF Equipped
  <2>2. CASE u # t
    BY <1>1, <2>2 DEF ProvBounds, Equipped, Prov!None
  <2> QED
    BY <2>1, <2>2
<1>3. FlowsComplete'
  BY DEF ProvBounds, FlowsComplete, Prov!None
<1> QED
  BY <1>2, <1>3 DEF ProvBounds

LEMMA ProvBoundsHold ==
    ASSUME Prov!ProvisioningAssumption, ProvInv, ProvBounds, [Prov!Next]_Prov!vars
    PROVE  ProvBounds'
<1>1. /\ requests \in 0..MaxFlows /\ MaxFlows \in Nat /\ HandoffsKnown /\ FlowsComplete
      /\ \A t \in Threads : thread[t] \in Worker /\ Sound(thread[t]) /\ Equipped(thread[t])
  BY WorkerTyped DEF ProvBounds, Prov!ProvisioningAssumption
\* What follows a call that raises needs nothing.
<1>2. ASSUME NEW t \in Threads, ~Prov!At(t, "idle"), Prov!Raised(t)
      PROVE  \E n : thread' = [thread EXCEPT ![t] = n] /\ Equipped(n)'
  <2>1. CASE thread[t].kind = "paste"
    <3> DEFINE n == [thread[t] EXCEPT !.pc = "fail"]
    <3>1. n.pc = "fail" /\ n.kind = "paste"
      BY <1>1, <2>1 DEF Worker
    <3>2. thread' = [thread EXCEPT ![t] = n]
      BY <1>2, <2>1 DEF Prov!Raised, Prov!Goto, Prov!Become
    <3> HIDE DEF n
    <3>3. PICK m : m = n
      OBVIOUS
    <3>4. Equipped(m)'
      BY <3>1, <3>3 DEF Equipped
    <3> QED
      BY <3>2, <3>3, <3>4
  <2>2. CASE thread[t].kind # "paste"
    <3>1. thread' = [thread EXCEPT ![t] = Prov!Idle]
      BY <1>2, <2>2 DEF Prov!Raised, Prov!Become
    <3>2. Equipped(Prov!Idle)'
      BY IdleWorker DEF Equipped
    <3> QED
      BY <3>1, <3>2
  <2> QED
    BY <2>1, <2>2
\* Nor does a step that stays on the platform and does not go on to store.
<1>3. ASSUME NEW t \in Threads, ~Prov!At(t, "idle"), NEW n, n.kind = thread[t].kind,
             n.platform = thread[t].platform \/ n.kind = "paste", n.pc # "save"
      PROVE  Equipped(n)'
  <2>1. Equipped(thread[t])
    BY <1>1
  <2> QED
    BY <1>3, <2>1 DEF Equipped, Prov!At
\* One that goes on to store has found or made its account.
<1>4. ASSUME NEW t \in Threads, ~Prov!At(t, "idle"), NEW n, n.kind = thread[t].kind,
             n.platform = thread[t].platform, n.account \in DOMAIN accounts'
      PROVE  Equipped(n)'
  <2>1. Equipped(thread[t])
    BY <1>1
  <2> QED
    BY <1>4, <2>1 DEF Equipped, Prov!At
<1>5. ASSUME NEW t \in Threads,
             Prov!ResolveGroup(t) \/ Prov!FindAccount(t) \/ Prov!LookUpPlatform(t)
             \/ Prov!ReadBindings(t)
      PROVE  ProvBounds'
  <2>1. UNCHANGED <<accounts, sessions, flows, requests>> /\ ~Prov!At(t, "idle")
    BY <1>5 DEF Prov!ResolveGroup, Prov!FindAccount, Prov!LookUpPlatform, Prov!ReadBindings,
                Prov!upstream, Prov!At
  <2>2. \E n : thread' = [thread EXCEPT ![t] = n] /\ Equipped(n)'
    <3> DEFINE l == thread[t]
    <3>1. ASSUME NEW pc, pc # "save", Prov!Goto(t, pc)
          PROVE  \E n : thread' = [thread EXCEPT ![t] = n] /\ Equipped(n)'
      <4> DEFINE n == [l EXCEPT !.pc = pc]
      <4>1. n.kind = l.kind /\ n.platform = l.platform /\ n.pc # "save"
        BY <1>1, <3>1 DEF Worker
      <4>2. thread' = [thread EXCEPT ![t] = n]
        BY <3>1 DEF Prov!Goto, Prov!Become
      <4> HIDE DEF n
      <4>3. PICK m : m = n
        OBVIOUS
      <4> QED
        BY <1>3, <2>1, <4>1, <4>2, <4>3
    <3>2. CASE Prov!ResolveGroup(t)
      <4>1. ASSUME NEW g, Prov!Become(t, [l EXCEPT !.group = g, !.pc = "find"])
            PROVE  \E n : thread' = [thread EXCEPT ![t] = n] /\ Equipped(n)'
        <5> DEFINE n == [l EXCEPT !.group = g, !.pc = "find"]
        <5>1. n.kind = l.kind /\ n.platform = l.platform /\ n.pc # "save"
          BY <1>1 DEF Worker
        <5>2. thread' = [thread EXCEPT ![t] = n]
          BY <4>1 DEF Prov!Become
        <5> HIDE DEF n
        <5>3. PICK m : m = n
          OBVIOUS
        <5> QED
          BY <1>3, <2>1, <5>1, <5>2, <5>3
      <4> QED
        BY <3>1, <3>2, <4>1 DEF Prov!ResolveGroup
    <3>3. CASE Prov!FindAccount(t)
      <4>1. Prov!IfMissing(l) # "save"
        BY DEF Prov!IfMissing
      <4>2. ASSUME NEW a \in Prov!Named(l.email, l.platform),
                   Prov!Become(t, [l EXCEPT !.account = a, !.bindings = accounts[a].groups,
                                            !.pc = Prov!IfFound(l, a)])
            PROVE  \E n : thread' = [thread EXCEPT ![t] = n] /\ Equipped(n)'
        <5> DEFINE n == [l EXCEPT !.account = a, !.bindings = accounts[a].groups,
                                  !.pc = Prov!IfFound(l, a)]
        <5>1. n.kind = l.kind /\ n.platform = l.platform /\ n.account = a
          BY <1>1 DEF Worker
        <5>2. thread' = [thread EXCEPT ![t] = n]
          BY <4>2 DEF Prov!Become
        <5>3. a \in DOMAIN accounts'
          BY <2>1 DEF Prov!Named
        <5> HIDE DEF n
        <5>4. PICK m : m = n
          OBVIOUS
        <5> QED
          BY <1>4, <2>1, <5>1, <5>2, <5>3, <5>4
      <4> QED
        BY <3>1, <3>3, <4>1, <4>2 DEF Prov!FindAccount
    <3>4. CASE Prov!LookUpPlatform(t)
      <4>1. PICK p : Prov!Become(t, [l EXCEPT !.platform = p,
                          !.pc = IF p \in OAuthPlatforms THEN "exchange" ELSE "fail"])
        BY <3>4 DEF Prov!LookUpPlatform
      <4> DEFINE n == [l EXCEPT !.platform = p,
                                !.pc = IF p \in OAuthPlatforms THEN "exchange" ELSE "fail"]
      <4>2. l.kind = "paste"
        BY <1>1, <3>4 DEF Sound, Starting, Completing, Prov!LookUpPlatform, Prov!At
      <4>3. n.kind = l.kind /\ n.pc # "save"
        BY <1>1 DEF Worker
      <4>4. thread' = [thread EXCEPT ![t] = n]
        BY <4>1 DEF Prov!Become
      <4> HIDE DEF n
      <4>5. PICK m : m = n
        OBVIOUS
      <4> QED
        BY <1>3, <2>1, <4>2, <4>3, <4>4, <4>5
    <3>5. CASE Prov!ReadBindings(t)
      <4> DEFINE n == [l EXCEPT !.bindings = accounts[l.account].groups, !.pc = "bind"]
      <4>1. n.kind = l.kind /\ n.platform = l.platform /\ n.pc # "save"
        BY <1>1 DEF Worker
      <4>2. thread' = [thread EXCEPT ![t] = n]
        BY <3>5 DEF Prov!ReadBindings, Prov!Become
      <4> HIDE DEF n
      <4>3. PICK m : m = n
        OBVIOUS
      <4> QED
        BY <1>3, <2>1, <4>1, <4>2, <4>3
    <3> QED
      BY <1>5, <3>2, <3>3, <3>4, <3>5
  <2> QED
    BY <1>1, <2>1, <2>2, ProvBoundsStep DEF HandoffsKnown
<1>6. ASSUME NEW t \in Threads, Prov!CreateGroup(t) PROVE ProvBounds'
  <2> DEFINE n == [thread[t] EXCEPT !.group = Len(groups) + 1, !.pc = "find"]
  <2>1. UNCHANGED <<accounts, sessions, flows, requests>> /\ ~Prov!At(t, "idle")
        /\ (Prov!Become(t, n) \/ Prov!Raised(t))
    BY <1>6 DEF Prov!CreateGroup, Prov!At
  <2>2. n.kind = thread[t].kind /\ n.platform = thread[t].platform /\ n.pc # "save"
    BY <1>1 DEF Worker
  <2> HIDE DEF n
  <2>3. PICK m : m = n
    OBVIOUS
  <2>4. \E k : thread' = [thread EXCEPT ![t] = k] /\ Equipped(k)'
    BY <1>2, <1>3, <2>1, <2>2, <2>3 DEF Prov!Become
  <2> QED
    BY <1>1, <2>1, <2>4, ProvBoundsStep DEF HandoffsKnown
<1>7. ASSUME NEW t \in Threads, Prov!Configure(t) \/ Prov!Bind(t) PROVE ProvBounds'
  <2> DEFINE n == [thread[t] EXCEPT !.pc = "save"]
  <2>1. /\ UNCHANGED <<sessions, flows, requests>> /\ ~Prov!At(t, "idle")
        /\ thread[t].pc \in {"configure", "bind"}
        /\ Prov!Goto(t, "save") \/ Prov!Raised(t)
    BY <1>7 DEF Prov!Configure, Prov!Bind, Prov!At
  <2>2. DOMAIN accounts' = DOMAIN accounts
    BY <1>7 DEF Prov!Configure, Prov!Bind
  <2>3. thread[t].account \in DOMAIN accounts
    BY <1>1, <2>1 DEF Sound, OnPlatform
  <2>4. n.kind = thread[t].kind /\ n.platform = thread[t].platform
        /\ n.account = thread[t].account
    BY <1>1 DEF Worker
  <2>5. Prov!Goto(t, "save") => thread' = [thread EXCEPT ![t] = n]
    BY DEF Prov!Goto, Prov!Become
  <2> HIDE DEF n
  <2>6. PICK m : m = n
    OBVIOUS
  <2>7. \E k : thread' = [thread EXCEPT ![t] = k] /\ Equipped(k)'
    BY <1>2, <1>4, <2>1, <2>2, <2>3, <2>4, <2>5, <2>6
  <2> QED
    BY <1>1, <2>1, <2>2, <2>7, ProvBoundsStep DEF HandoffsKnown
<1>8. ASSUME NEW t \in Threads, Prov!CreateAccount(t) PROVE ProvBounds'
  <2> DEFINE i == Len(accounts) + 1
             n == [thread[t] EXCEPT !.account = i, !.pc = "save"]
  <2>1. /\ UNCHANGED <<sessions, flows, requests>> /\ ~Prov!At(t, "idle")
        /\ Prov!Become(t, n) \/ Prov!Raised(t)
    BY <1>8 DEF Prov!CreateAccount, Prov!At
  <2>2. DOMAIN accounts \subseteq DOMAIN accounts' /\ i \in DOMAIN accounts'
    <3>1. PICK r : accounts' = Append(accounts, r)
      BY <1>8 DEF Prov!CreateAccount
    <3>2. accounts \in Seq(Account)
      BY DEF ProvInv, ProvTyped
    <3> QED
      BY <3>1, <3>2
  <2>3. n.kind = thread[t].kind /\ n.platform = thread[t].platform /\ n.account = i
    BY <1>1 DEF Worker
  <2> HIDE DEF n, i
  <2>4. PICK m : m = n
    OBVIOUS
  <2>5. \E k : thread' = [thread EXCEPT ![t] = k] /\ Equipped(k)'
    BY <1>2, <1>4, <2>1, <2>2, <2>3, <2>4 DEF Prov!Become
  <2> QED
    BY <1>1, <2>1, <2>2, <2>5, ProvBoundsStep DEF HandoffsKnown
<1>9. ASSUME NEW t \in Threads, Prov!GenerateUrl(t) PROVE ProvBounds'
  <2> DEFINE new == [platform |-> thread[t].platform, whose |-> thread[t].email,
                     spent |-> FALSE]
             i == Len(sessions) + 1
             n == [thread[t] EXCEPT !.flow = i, !.pc = "save"]
  <2>1. /\ UNCHANGED <<accounts, flows, requests>> /\ thread[t].pc = "url"
        /\ thread' = [thread EXCEPT ![t] = n] /\ sessions' = Append(sessions, new)
    BY <1>9 DEF Prov!GenerateUrl, Prov!At, Prov!Become
  <2>2. thread[t].kind = "oauth" /\ thread[t].account = Prov!None
    BY <1>1, <2>1 DEF Sound, Starting, Completing
  <2>3. thread[t].platform \in OAuthPlatforms
    BY <1>1, <2>1, <2>2 DEF Equipped
  <2>4. n.kind = "oauth" /\ n.platform = thread[t].platform /\ n.account = Prov!None
    BY <1>1, <2>2 DEF Worker
  <2>5. HandoffsKnown'
    <3>1. new.platform \in OAuthPlatforms
      BY <2>3
    <3>2. sessions \in Seq(Handoff)
      BY DEF ProvInv, ProvTyped
    <3> HIDE DEF new
    <3>3. ASSUME NEW s \in DOMAIN sessions' PROVE sessions'[s] = new \/ (s \in DOMAIN sessions
                                                        /\ sessions'[s] = sessions[s])
      BY <2>1, <3>2, <3>3
    <3> QED
      BY <1>1, <3>1, <3>3 DEF HandoffsKnown
  <2> HIDE DEF n, i
  <2>6. PICK m : m = n
    OBVIOUS
  <2>7. Equipped(m)'
    BY <2>3, <2>4, <2>6 DEF Equipped, Prov!None
  <2> QED
    BY <1>1, <2>1, <2>5, <2>6, <2>7, ProvBoundsStep
<1>10. ASSUME NEW t \in Threads, Prov!Exchange(t) \/ Prov!CallFails(t) PROVE ProvBounds'
  <2> DEFINE s == flows[thread[t].flow].session
  <2>1. /\ UNCHANGED <<accounts, flows, requests>> /\ ~Prov!At(t, "idle")
        /\ sessions' = [sessions EXCEPT ![s].spent = TRUE] \/ UNCHANGED sessions
    BY <1>10 DEF Prov!Exchange, Prov!CallFails, Prov!At
  <2>2. HandoffsKnown'
    <3>1. DOMAIN sessions' = DOMAIN sessions
      BY <2>1
    <3>2. ASSUME NEW c \in DOMAIN sessions PROVE sessions'[c].platform = sessions[c].platform
      <4>1. sessions[c] \in Handoff
        BY RecordsAre DEF ProvInv
      <4> QED
        BY <2>1, <4>1 DEF Handoff
    <3> QED
      BY <1>1, <3>1, <3>2 DEF HandoffsKnown
  <2>3. \E k : thread' = [thread EXCEPT ![t] = k] /\ Equipped(k)'
    <3>1. CASE Prov!CallFails(t)
      BY <1>2, <2>1, <3>1 DEF Prov!CallFails
    <3>2. CASE Prov!Exchange(t)
      <4>1. PICK pc \in {"fail", "find"} : Prov!Goto(t, pc)
        BY <3>2 DEF Prov!Exchange
      <4> DEFINE n == [thread[t] EXCEPT !.pc = pc]
      <4>2. n.kind = thread[t].kind /\ n.platform = thread[t].platform /\ n.pc # "save"
        BY <1>1 DEF Worker
      <4>3. thread' = [thread EXCEPT ![t] = n]
        BY <4>1 DEF Prov!Goto, Prov!Become
      <4> HIDE DEF n
      <4>4. PICK m : m = n
        OBVIOUS
      <4> QED
        BY <1>3, <2>1, <4>2, <4>3, <4>4
    <3> QED
      BY <1>10, <3>1, <3>2
  <2> QED
    BY <1>1, <2>1, <2>2, <2>3, ProvBoundsStep
<1>11. ASSUME NEW t \in Threads, Prov!SaveFlow(t) PROVE ProvBounds'
  <2> DEFINE l == thread[t]
             new == IF l.account = Prov!None THEN Prov!PendingFlow(l) ELSE Prov!CompletedFlow(l)
  <2>1. /\ UNCHANGED <<accounts, sessions, requests>> /\ l.pc = "save" /\ l.kind # "paste"
        /\ thread' = [thread EXCEPT ![t] = Prov!Idle] /\ flows' = Append(flows, new)
    BY <1>11 DEF Prov!SaveFlow, Prov!At, Prov!Become, Prov!upstream
  <2>2. /\ new.status = "completed" => new.account \in DOMAIN accounts
        /\ new.status = "pending_oauth" => new.session # Prov!None
    <3>1. CASE l.account = Prov!None
      <4>1. l.flow \in DOMAIN sessions
        BY <1>1, <2>1, <3>1 DEF Sound, Starting, Completing, IssuedFor
      <4>2. l.flow # Prov!None
        BY <4>1, RecordsAre DEF ProvInv, Prov!None
      <4>3. new = Prov!PendingFlow(l)
        BY <3>1
      <4> QED
        BY <4>2, <4>3 DEF Prov!PendingFlow
    <3>2. CASE l.account # Prov!None
      BY <1>1, <2>1, <3>2 DEF Prov!CompletedFlow, Equipped
    <3> QED
      BY <3>1, <3>2
  <2>3. flows \in Seq(Flow)
    BY DEF ProvInv, ProvTyped
  <2> HIDE DEF new
  <2>4. ASSUME NEW f \in DOMAIN flows'
        PROVE  flows'[f] = new \/ (f \in DOMAIN flows /\ flows'[f] = flows[f])
    BY <2>1, <2>3, <2>4
  <2>5. FlowsComplete'
    BY <1>1, <2>1, <2>2, <2>4 DEF FlowsComplete, Prov!None
  <2>6. Equipped(Prov!Idle)'
    BY IdleWorker DEF Equipped
  <2> QED
    BY <1>1, <2>1, <2>5, <2>6, ProvBoundsStep DEF HandoffsKnown
<1>12. ASSUME NEW t \in Threads, Prov!CompleteFlow(t) \/ Prov!FailFlow(t) PROVE ProvBounds'
  <2> DEFINE l == thread[t]
             f == l.flow
  <2>1. /\ UNCHANGED <<accounts, sessions, requests>> /\ l.pc \in {"save", "fail"}
        /\ thread' = [thread EXCEPT ![t] = Prov!Idle]
        /\ l.pc = "save" => l.kind = "paste"
    BY <1>12 DEF Prov!CompleteFlow, Prov!FailFlow, Prov!At, Prov!Become, Prov!upstream
  <2>2. f \in DOMAIN flows /\ flows[f] \in Flow
    <3>1. Completing(l)
      BY <1>1, <2>1 DEF Sound, Starting
    <3> QED
      BY <3>1, RecordsAre DEF Completing, ProvInv
  <2>3. PICK status \in {"completed", "failed"}, account \in {l.account, l.known} :
            /\ flows' = [flows EXCEPT ![f].status = status, ![f].account = account]
            /\ status = "completed" => account \in DOMAIN accounts
    <3>1. CASE Prov!CompleteFlow(t)
      <4>1. l.account \in DOMAIN accounts
        BY <1>1, <3>1 DEF Equipped, Prov!CompleteFlow, Prov!At
      <4>2. flows' = [flows EXCEPT ![f].status = "completed", ![f].account = l.account]
        BY <3>1 DEF Prov!CompleteFlow
      <4> QED
        BY <4>1, <4>2
    <3>2. CASE Prov!FailFlow(t)
      <4>1. flows' = [flows EXCEPT ![f].status = "failed", ![f].account = l.known]
        BY <3>2 DEF Prov!FailFlow
      <4> QED
        BY <4>1
    <3> QED
      BY <1>12, <3>1, <3>2
  <2>4. /\ DOMAIN flows' = DOMAIN flows
        /\ flows'[f] = [flows[f] EXCEPT !.status = status, !.account = account]
        /\ \A g \in DOMAIN flows \ {f} : flows'[g] = flows[g]
    BY <2>2, <2>3
  <2>5. flows'[f].status = status /\ flows'[f].account = account
    BY <2>2, <2>4 DEF Flow
  <2>6. FlowsComplete'
    BY <1>1, <2>1, <2>3, <2>4, <2>5 DEF FlowsComplete, Prov!None
  <2>7. Equipped(Prov!Idle)'
    BY IdleWorker DEF Equipped
  <2> QED
    BY <1>1, <2>1, <2>6, <2>7, ProvBoundsStep DEF HandoffsKnown
<1>13. ASSUME NEW t \in Threads, NEW n, Prov!Begin(t, n), Equipped(n)',
              UNCHANGED <<accounts, sessions, flows>>
       PROVE  ProvBounds'
  <2>1. thread' = [thread EXCEPT ![t] = n] /\ requests' \in 0..MaxFlows
    BY <1>1, <1>13 DEF Prov!Begin, Prov!Become
  <2> QED
    BY <1>1, <1>13, <2>1, ProvBoundsStep DEF HandoffsKnown
<1>14. ASSUME NEW t \in Threads, NEW e \in Emails, NEW p \in Platforms,
              Prov!StartOAuth(t, e, p) \/ Prov!StartApiKey(t, e, p)
       PROVE  ProvBounds'
  <2>1. PICK k \in {"oauth", "apikey"} :
           /\ Prov!Begin(t, [Prov!Idle EXCEPT !.kind = k, !.email = e, !.platform = p,
                                           !.pc = "group"])
           /\ k = "oauth" => p \in OAuthPlatforms
    BY <1>14 DEF Prov!StartOAuth, Prov!StartApiKey
  <2> DEFINE n == [Prov!Idle EXCEPT !.kind = k, !.email = e, !.platform = p, !.pc = "group"]
  <2>2. n.pc = "group" /\ n.kind = k /\ n.platform = p
    BY DEF Prov!Idle
  <2>3. Prov!Begin(t, n) /\ UNCHANGED <<accounts, sessions, flows>>
    BY <1>14, <2>1 DEF Prov!StartOAuth, Prov!StartApiKey, Prov!upstream
  <2> HIDE DEF n
  <2>4. PICK m : m = n
    OBVIOUS
  <2>5. Equipped(m)'
    BY <2>1, <2>2, <2>4 DEF Equipped
  <2> QED
    BY <1>13, <2>3, <2>4, <2>5
<1>15. ASSUME NEW t \in Threads, NEW s \in DOMAIN sessions, NEW bare \in BOOLEAN,
              Prov!Paste(t, s, bare)
       PROVE  ProvBounds'
  <2>1. PICK f : Prov!Begin(t, [Prov!Idle EXCEPT !.kind = "paste", !.email = flows[f].email,
                              !.group = flows[f].group, !.flow = f, !.code = s,
                              !.known = flows[f].account, !.pc = "platform"])
    BY <1>15 DEF Prov!Paste
  <2> DEFINE n == [Prov!Idle EXCEPT !.kind = "paste", !.email = flows[f].email,
                      !.group = flows[f].group, !.flow = f, !.code = s,
                      !.known = flows[f].account, !.pc = "platform"]
  <2>2. n.pc = "platform" /\ n.kind = "paste"
    BY DEF Prov!Idle
  <2>3. Prov!Begin(t, n) /\ UNCHANGED <<accounts, sessions, flows>>
    BY <1>15, <2>1 DEF Prov!Paste, Prov!upstream
  <2> HIDE DEF n
  <2>4. PICK m : m = n
    OBVIOUS
  <2>5. Equipped(m)'
    BY <2>2, <2>4 DEF Equipped
  <2> QED
    BY <1>13, <2>3, <2>4, <2>5
<1>16. CASE Prov!Crash
  <2>1. \A t \in Threads : thread'[t] = Prov!Idle
    BY <1>16 DEF Prov!Crash
  <2>2. UNCHANGED <<accounts, sessions, flows>> /\ requests' \in 0..MaxFlows
    BY <1>1, <1>16 DEF Prov!Crash, Prov!upstream
  <2>3. \A t \in Threads : Equipped(thread[t])'
    BY <2>1, IdleWorker DEF Equipped
  <2> QED
    BY <1>1, <2>2, <2>3 DEF ProvBounds, HandoffsKnown, FlowsComplete, Prov!None
<1>17. CASE UNCHANGED Prov!vars
  BY <1>17 DEF Prov!vars, Prov!upstream, ProvBounds, HandoffsKnown, FlowsComplete, Equipped,
     Prov!None
<1>18. ASSUME NEW t \in Threads, Prov!Step(t) PROVE ProvBounds'
  BY <1>5, <1>6, <1>7, <1>8, <1>9, <1>10, <1>11, <1>12, <1>18 DEF Prov!Step
<1> QED
  BY <1>14, <1>15, <1>16, <1>17, <1>18 DEF Prov!Next

LEMMA ProvTypes == ProvInv /\ ProvBounds => Prov!TypeOK
<1> SUFFICES ASSUME ProvInv, ProvBounds PROVE Prov!TypeOK
  OBVIOUS
<1>1. \A g \in DOMAIN groups : groups[g].platform \in Platforms
  BY RecordsAre DEF ProvInv
<1>2. ASSUME NEW a \in DOMAIN accounts
      PROVE  /\ accounts[a].name \in Emails /\ accounts[a].platform \in Platforms
             /\ accounts[a].type \in Prov!Types /\ accounts[a].groups \subseteq DOMAIN groups
             /\ accounts[a].code \in {Prov!None} \cup DOMAIN sessions
  <2>1. accounts[a] \in Account
    BY RecordsAre DEF ProvInv
  <2>2. accounts[a].groups \subseteq DOMAIN groups
        /\ accounts[a].code \in {Prov!None} \cup DOMAIN sessions
    BY DEF ProvInv, Belong, Serves, IssuedFor
  <2> QED
    BY <2>1, <2>2 DEF Account
<1>3. ASSUME NEW f \in DOMAIN flows
      PROVE  /\ flows[f].group \in DOMAIN groups
             /\ flows[f].status \in {"pending_oauth", "completed", "failed"}
             /\ flows[f].status = "completed" => flows[f].account \in DOMAIN accounts
             /\ flows[f].status = "pending_oauth" => flows[f].session \in DOMAIN sessions
  <2>1. flows[f] \in Flow
    BY RecordsAre DEF ProvInv
  <2>2. flows[f].group \in DOMAIN groups
        /\ (flows[f].session # Prov!None => flows[f].session \in DOMAIN sessions)
    BY DEF ProvInv, FlowsMatch, IssuedFor
  <2> QED
    BY <2>1, <2>2 DEF Flow, ProvBounds, FlowsComplete
<1>4. DOMAIN thread = Threads
  BY DEF ProvInv, ProvTyped
<1> QED
  BY <1>1, <1>2, <1>3, <1>4 DEF Prov!TypeOK, ProvBounds, HandoffsKnown

-----------------------------------------------------------------------------
(* KeyDelivery: what its types need. The resets of a quota and the         *)
(* transfers that may still hand the key over are requests, all of them.   *)

\* A transfer that may still hand a key over, and how often its quota was reset.
MayMove(l, k) ==
    l.pc \in {"list", "plan"} \/ (l.pc = "move" /\ \E d \in l.todo : d.key = k)
Movers(k) == {t \in Threads : MayMove(thread[t], k)}
ResetsOf(k) == IF k \in DOMAIN keys THEN keys[k].resets ELSE 0

\* A transfer hands a key over once at most, whatever the others do.
HandsOnce(l) ==
    /\ l.pc = "plan" => \A i, j \in l.seen : i.key = j.key => i = j
    /\ l.pc = "move" => \A c, d \in l.todo : c.key = d.key => c = d

DeliveryBounds ==
    /\ requests \in 0..MaxTransfers /\ edits \in 0..MaxEdits
    /\ \A t \in Threads : HandsOnce(thread[t])
    /\ \A k \in Nat : /\ IsFiniteSet(Movers(k))
                      /\ ResetsOf(k) + Cardinality(Movers(k)) <= requests

LEMMA DeliveryBoundsStart ==
    ASSUME Del!KeyDeliveryAssumption, Del!Init PROVE DeliveryBounds
<1>1. \A t \in Threads : thread[t].pc = "idle"
  BY IdleJobTyped DEF Del!Init
<1>2. ASSUME NEW k \in Nat PROVE ResetsOf(k) = 0
  <2> DEFINE First == [named : Del!Addresses, owner : Users, group : Groups \cup {Del!NoGroup},
                       resets : {0}]
  <2>1. keys \in Seq(First)
    BY DEF Del!Init, Del!KeyDeliveryAssumption
  <2>2. \A r \in First : r.resets = 0
    OBVIOUS
  <2> HIDE DEF First
  <2>3. k \in DOMAIN keys => keys[k] \in First
    BY <2>1
  <2> QED
    BY <2>2, <2>3 DEF ResetsOf
<1>3. \A k \in Nat : Movers(k) = {}
  BY <1>1 DEF Movers, MayMove
<1>4. requests = 0 /\ edits = 0 /\ MaxTransfers \in Nat /\ MaxEdits \in Nat
  BY DEF Del!Init, Del!KeyDeliveryAssumption
<1> QED
  BY <1>1, <1>2, <1>3, <1>4, FS_EmptySet DEF DeliveryBounds, HandsOnce

LEMMA ResetsTyped == DeliveryInv => \A k \in Nat : ResetsOf(k) \in Nat
<1> SUFFICES ASSUME DeliveryInv, NEW k \in Nat, k \in DOMAIN keys PROVE keys[k].resets \in Nat
  BY DEF ResetsOf
<1>1. keys \in Seq(Key)
  BY DEF DeliveryInv, DeliveryTyped
<1>2. keys[k] \in Key
  BY <1>1
<1> QED
  BY <1>2 DEF Key

\* What a step may do about a key: it goes on as it was, a transfer begins, or one resets
\* the quota and is done with the key.
Accounted(l, n, k) ==
    \/ ResetsOf(k)' = ResetsOf(k) /\ requests' = requests /\ (MayMove(n, k) => MayMove(l, k))
    \/ ResetsOf(k)' = ResetsOf(k) /\ requests' = requests + 1
    \/ /\ ResetsOf(k)' = ResetsOf(k) + 1 /\ requests' = requests
       /\ MayMove(l, k) /\ ~MayMove(n, k)

LEMMA DeliveryBoundsStep ==
    ASSUME DeliveryInv, DeliveryBounds, NEW t \in Threads, NEW n,
           thread' = [thread EXCEPT ![t] = n], HandsOnce(n),
           requests' \in 0..MaxTransfers, UNCHANGED edits,
           \A k \in Nat : Accounted(thread[t], n, k)
    PROVE  DeliveryBounds'
<1>1. thread'[t] = n /\ \A u \in Threads \ {t} : thread'[u] = thread[u]
  BY DEF DeliveryInv, DeliveryTyped
<1>2. \A u \in Threads : HandsOnce(thread'[u])
  BY <1>1 DEF DeliveryBounds
<1>3. \A u \in Threads : HandsOnce(thread[u])'
  BY <1>2 DEF HandsOnce
<1>4. ASSUME NEW k \in Nat
      PROVE  IsFiniteSet(Movers(k)') /\ ResetsOf(k)' + Cardinality(Movers(k)') <= requests'
  <2> DEFINE was == Movers(k)
             is == Movers(k)'
  <2>1. \A u \in Threads : u \in is <=> MayMove(thread'[u], k)
    BY DEF Movers, MayMove
  <2>2. \A u \in Threads : u \in was <=> MayMove(thread[u], k)
    BY DEF Movers
  <2>3. was \subseteq Threads /\ is \subseteq Threads
    BY DEF Movers
  <2>4. IsFiniteSet(was) /\ ResetsOf(k) + Cardinality(was) <= requests /\ ResetsOf(k) \in Nat
        /\ requests \in Nat
    BY ResetsTyped DEF DeliveryBounds
  <2>5. Cardinality(was) \in Nat
    BY <2>4, FS_CardinalityType
  <2>6. \A u \in Threads \ {t} : u \in is <=> u \in was
    BY <1>1, <2>1, <2>2
  <2>7. t \in is <=> MayMove(n, k)
    BY <1>1, <2>1
  <2> HIDE DEF was, is
  <2>8. is \subseteq was \cup {t}
    BY <2>3, <2>6
  <2>9. IsFiniteSet(was \cup {t}) /\ Cardinality(was \cup {t}) <= Cardinality(was) + 1
    <3>1. /\ IsFiniteSet(was \cup {t})
          /\ Cardinality(was \cup {t}) = IF t \in was THEN Cardinality(was) ELSE Cardinality(was) + 1
      BY <2>4, FS_AddElement
    <3> QED
      BY <2>5, <3>1
  <2>10. IsFiniteSet(is) /\ Cardinality(is) <= Cardinality(was \cup {t})
    BY <2>8, <2>9, FS_Subset
  <2>11. Cardinality(is) \in Nat /\ Cardinality(was \cup {t}) \in Nat
    BY <2>9, <2>10, FS_CardinalityType
  <2>12. CASE /\ ResetsOf(k)' = ResetsOf(k) /\ requests' = requests
              /\ MayMove(n, k) => MayMove(thread[t], k)
    <3>1. is \subseteq was
      BY <2>2, <2>7, <2>8, <2>12 DEF was
    <3>2. Cardinality(is) <= Cardinality(was)
      BY <2>4, <3>1, FS_Subset
    <3> QED
      BY <2>4, <2>5, <2>10, <2>11, <2>12, <3>2 DEF is
  <2>13. CASE ResetsOf(k)' = ResetsOf(k) /\ requests' = requests + 1
    BY <2>4, <2>5, <2>9, <2>10, <2>11, <2>13 DEF is
  <2>14. CASE /\ ResetsOf(k)' = ResetsOf(k) + 1 /\ requests' = requests
              /\ MayMove(thread[t], k) /\ ~MayMove(n, k)
    <3>1. t \in was /\ is \subseteq was \ {t}
      BY <2>2, <2>7, <2>8, <2>14 DEF was
    <3>2. IsFiniteSet(was \ {t}) /\ Cardinality(was \ {t}) = Cardinality(was) - 1
      BY <2>4, <3>1, FS_RemoveElement
    <3>3. Cardinality(is) <= Cardinality(was \ {t})
      BY <3>1, <3>2, FS_Subset
    <3> QED
      BY <2>4, <2>5, <2>10, <2>11, <2>14, <3>2, <3>3 DEF is
  <2> QED
    BY <2>12, <2>13, <2>14 DEF Accounted
<1> QED
  BY <1>3, <1>4 DEF DeliveryBounds

LEMMA DeliveryBoundsHold ==
    ASSUME Del!KeyDeliveryAssumption, DeliveryInv, DeliveryBounds, [Del!Next]_Del!vars
    PROVE  DeliveryBounds'
<1>1. /\ requests \in 0..MaxTransfers /\ MaxTransfers \in Nat /\ MaxEdits \in Nat
      /\ edits \in 0..MaxEdits /\ keys \in Seq(Key)
      /\ \A t \in Threads : thread[t] \in Job /\ HandsOnce(thread[t])
  BY DEF DeliveryInv, DeliveryTyped, DeliveryBounds, Del!KeyDeliveryAssumption
<1>2. ASSUME UNCHANGED keys PROVE \A k \in Nat : ResetsOf(k)' = ResetsOf(k)
  BY <1>2 DEF ResetsOf
\* A request.
<1>3. ASSUME NEW t \in Threads, NEW n, n.pc \in {"target", "list"}, Del!Begin(t, n),
             UNCHANGED <<keys, edits>>
      PROVE  DeliveryBounds'
  <2>1. thread' = [thread EXCEPT ![t] = n] /\ requests' = requests + 1
        /\ requests' \in 0..MaxTransfers
    BY <1>1, <1>3 DEF Del!Begin, Del!Become
  <2>2. HandsOnce(n)
    BY <1>3 DEF HandsOnce
  <2>3. \A k \in Nat : Accounted(thread[t], n, k)
    BY <1>2, <1>3, <2>1 DEF Accounted
  <2> QED
    BY <1>3, <2>1, <2>2, <2>3, DeliveryBoundsStep
\* A step that resets nothing.
<1>4. ASSUME NEW t \in Threads, NEW n, HandsOnce(n), thread' = [thread EXCEPT ![t] = n],
             \A k \in Nat : ResetsOf(k)' = ResetsOf(k), UNCHANGED <<requests, edits>>,
             \A k \in Nat : MayMove(n, k) => MayMove(thread[t], k)
      PROVE  DeliveryBounds'
  BY <1>1, <1>4, DeliveryBoundsStep DEF Accounted
<1>5. ASSUME NEW t \in Threads, NEW e, NEW target, NEW p, Del!StartCreate(t, e, target, p)
      PROVE  DeliveryBounds'
  <2> DEFINE n == [Del!Idle EXCEPT !.pc = "target", !.named = e, !.target = target,
                                   !.platform = p]
  <2>1. n.pc = "target"
    BY DEF Del!Idle
  <2>2. Del!Begin(t, n) /\ UNCHANGED <<keys, edits>>
    BY <1>5 DEF Del!StartCreate
  <2> HIDE DEF n
  <2> QED
    BY <1>3, <2>1, <2>2
<1>6. ASSUME NEW t \in Threads, NEW sources, Del!StartTransfer(t, sources)
      PROVE  DeliveryBounds'
  <2> DEFINE n == [Del!Idle EXCEPT !.pc = "list", !.sources = sources]
  <2>1. n.pc = "list"
    BY DEF Del!Idle
  <2>2. Del!Begin(t, n) /\ UNCHANGED <<keys, edits>>
    BY <1>6 DEF Del!StartTransfer
  <2> HIDE DEF n
  <2> QED
    BY <1>3, <2>1, <2>2
<1>7. ASSUME NEW t \in Threads, Del!ResolveTarget(t) PROVE DeliveryBounds'
  <2>1. \/ thread' = [thread EXCEPT ![t] = Del!Idle]
        \/ \E u, g : thread' = [thread EXCEPT ![t] =
                          [thread[t] EXCEPT !.owner = u, !.group = g, !.pc = "create"]]
    BY <1>7 DEF Del!ResolveTarget, Del!Become
  <2>2. UNCHANGED <<keys, requests, edits>>
    BY <1>7 DEF Del!ResolveTarget
  <2>3. ASSUME NEW u, NEW g, thread' = [thread EXCEPT ![t] =
                          [thread[t] EXCEPT !.owner = u, !.group = g, !.pc = "create"]]
        PROVE  DeliveryBounds'
    <3> DEFINE n == [thread[t] EXCEPT !.owner = u, !.group = g, !.pc = "create"]
    <3>1. n.pc = "create"
      BY <1>1 DEF Job
    <3>2. thread' = [thread EXCEPT ![t] = n]
      BY <2>3
    <3> HIDE DEF n
    <3>3. HandsOnce(n) /\ \A k \in Nat : ~MayMove(n, k)
      BY <3>1 DEF HandsOnce, MayMove
    <3> QED
      BY <1>2, <1>4, <2>2, <3>2, <3>3
  <2>4. HandsOnce(Del!Idle) /\ \A k \in Nat : ~MayMove(Del!Idle, k)
    BY IdleJobTyped DEF HandsOnce, MayMove
  <2> QED
    BY <1>2, <1>4, <2>1, <2>2, <2>3, <2>4
<1>8. ASSUME NEW t \in Threads, Del!CreateKey(t) \/ Del!EndTransfer(t) \/ Del!Stops(t)
      PROVE  DeliveryBounds'
  <2>1. thread' = [thread EXCEPT ![t] = Del!Idle] /\ UNCHANGED <<requests, edits>>
    BY <1>8 DEF Del!CreateKey, Del!EndTransfer, Del!Stops, Del!Become
  <2>2. HandsOnce(Del!Idle) /\ \A k \in Nat : ~MayMove(Del!Idle, k)
    BY IdleJobTyped DEF HandsOnce, MayMove
  <2>3. \A k \in Nat : ResetsOf(k)' = ResetsOf(k)
    <3>1. CASE Del!EndTransfer(t) \/ Del!Stops(t)
      BY <1>2, <3>1 DEF Del!EndTransfer, Del!Stops
    <3>2. CASE Del!CreateKey(t)
      <4> DEFINE new == [named |-> thread[t].named, owner |-> thread[t].owner,
                         group |-> thread[t].group, resets |-> 0]
      <4>1. keys' = Append(keys, new)
        BY <3>2 DEF Del!CreateKey
      <4>2. new.resets = 0
        OBVIOUS
      <4> HIDE DEF new
      <4>3. /\ DOMAIN keys' = DOMAIN keys \cup {Len(keys) + 1} /\ keys'[Len(keys) + 1] = new
            /\ Len(keys) + 1 \notin DOMAIN keys
            /\ \A k \in DOMAIN keys : keys'[k] = keys[k]
        BY <1>1, <4>1
      <4> QED
        BY <4>2, <4>3 DEF ResetsOf
    <3> QED
      BY <1>8, <3>1, <3>2
  <2> QED
    BY <1>4, <2>1, <2>2, <2>3
<1>9. ASSUME NEW t \in Threads, Del!ListKeys(t) PROVE DeliveryBounds'
  <2> DEFINE mine == {k \in DOMAIN keys : keys[k].owner \in thread[t].sources \cap users}
             item(k) == [key |-> k, named |-> keys[k].named, owner |-> keys[k].owner,
                         group |-> keys[k].group]
             seen == {item(k) : k \in mine}
             n == [thread[t] EXCEPT !.pc = "plan", !.seen = seen]
  <2>1. /\ thread[t].pc = "list" /\ UNCHANGED <<keys, requests, edits>>
        /\ thread' = [thread EXCEPT ![t] = n]
    BY <1>9 DEF Del!ListKeys, Del!At, Del!Become
  <2>2. \A i, j \in seen : i.key = j.key => i = j
    OBVIOUS
  <2> HIDE DEF seen
  <2>3. n.pc = "plan" /\ n.seen = seen
    BY <1>1 DEF Job
  <2> HIDE DEF n
  <2>4. HandsOnce(n) /\ \A k \in Nat : MayMove(thread[t], k)
    BY <2>1, <2>2, <2>3 DEF HandsOnce, MayMove
  <2> QED
    BY <1>2, <1>4, <2>1, <2>4
<1>10. ASSUME NEW t \in Threads, Del!Plan(t) PROVE DeliveryBounds'
  <2> DEFINE seen == thread[t].seen
             todo == {Del!Delivery(i) : i \in {j \in seen : Del!Deliverable(j)}}
             n == [thread[t] EXCEPT !.pc = "move", !.seen = {}, !.todo = todo]
  <2>1. /\ thread[t].pc = "plan" /\ UNCHANGED <<keys, requests, edits>>
        /\ thread' = [thread EXCEPT ![t] = n]
    BY <1>10 DEF Del!Plan, Del!At, Del!Become
  <2>2. \A c, d \in todo : c.key = d.key => c = d
    <3>1. \A i, j \in seen : i.key = j.key => i = j
      BY <1>1, <2>1 DEF HandsOnce
    <3>2. \A c \in todo : \E i \in seen : c = Del!Delivery(i) /\ c.key = i.key
      BY DEF Del!Delivery
    <3> HIDE DEF todo, seen
    <3> QED
      BY <3>1, <3>2
  <2> HIDE DEF todo
  <2>3. n.pc = "move" /\ n.todo = todo
    BY <1>1 DEF Job
  <2> HIDE DEF n
  <2>4. HandsOnce(n) /\ \A k \in Nat : MayMove(thread[t], k)
    BY <2>1, <2>2, <2>3 DEF HandsOnce, MayMove
  <2> QED
    BY <1>2, <1>4, <2>1, <2>4
<1>11. ASSUME NEW t \in Threads, NEW item \in thread[t].todo, Del!MoveKey(t, item)
       PROVE  DeliveryBounds'
  <2> DEFINE n == [thread[t] EXCEPT !.todo = thread[t].todo \ {item}]
             moved == [named |-> keys[item.key].named, owner |-> item.to, group |-> item.group,
                       resets |-> keys[item.key].resets + 1]
  <2>1. /\ thread[t].pc = "move" /\ UNCHANGED <<requests, edits>>
        /\ thread' = [thread EXCEPT ![t] = n]
        /\ UNCHANGED keys \/ keys' = [keys EXCEPT ![item.key] = moved]
    BY <1>11 DEF Del!MoveKey, Del!At, Del!Become
  <2>2. n.pc = "move" /\ n.todo = thread[t].todo \ {item}
    BY <1>1, <2>1 DEF Job
  <2>3. moved.resets = keys[item.key].resets + 1
    OBVIOUS
  <2> HIDE DEF n, moved
  <2>4. \A c, d \in thread[t].todo : c.key = d.key => c = d
    BY <1>1, <2>1 DEF HandsOnce
  <2>5. HandsOnce(n)
    BY <2>2, <2>4 DEF HandsOnce
  <2>6. \A k \in Nat : MayMove(n, k) => MayMove(thread[t], k)
    BY <2>1, <2>2 DEF MayMove
  <2>7. MayMove(thread[t], item.key) /\ ~MayMove(n, item.key)
    BY <2>1, <2>2, <2>4 DEF MayMove
  <2>8. item.key \in DOMAIN keys
    BY <2>1 DEF DeliveryInv, NamesKept, Del!At
  <2>9. CASE UNCHANGED keys
    BY <1>2, <1>4, <2>1, <2>5, <2>6, <2>9
  <2>10. CASE keys' = [keys EXCEPT ![item.key] = moved]
    <3>1. /\ DOMAIN keys' = DOMAIN keys /\ keys'[item.key] = moved
          /\ \A k \in DOMAIN keys \ {item.key} : keys'[k] = keys[k]
      BY <1>1, <2>8, <2>10
    <3>2. ResetsOf(item.key)' = ResetsOf(item.key) + 1
      BY <2>3, <2>8, <3>1 DEF ResetsOf
    <3>3. \A k \in Nat \ {item.key} : ResetsOf(k)' = ResetsOf(k)
      BY <3>1 DEF ResetsOf
    <3>4. \A k \in Nat : Accounted(thread[t], n, k)
      BY <2>1, <2>6, <2>7, <3>2, <3>3 DEF Accounted
    <3> QED
      BY <1>1, <2>1, <2>5, <3>4, DeliveryBoundsStep
  <2> QED
    BY <2>1, <2>9, <2>10
<1>12. ASSUME UNCHANGED <<keys, thread, requests>>, edits' \in 0..MaxEdits PROVE DeliveryBounds'
  BY <1>12 DEF DeliveryBounds, HandsOnce, Movers, MayMove, ResetsOf
<1>13. ASSUME NEW u \in Users, Del!UserComes(u) \/ Del!UserGoes(u) \/ Del!Regroup(u)
       PROVE  DeliveryBounds'
  BY <1>1, <1>12, <1>13 DEF Del!UserComes, Del!UserGoes, Del!Regroup, Del!Edit
<1>14. CASE UNCHANGED Del!vars
  BY <1>1, <1>12, <1>14 DEF Del!vars
<1> QED
  BY <1>5, <1>6, <1>7, <1>8, <1>9, <1>10, <1>11, <1>13, <1>14 DEF Del!Next

LEMMA DeliveryTypes == Del!KeyDeliveryAssumption /\ DeliveryInv /\ DeliveryBounds => Del!TypeOK
<1> SUFFICES ASSUME DeliveryInv, DeliveryBounds, MaxTransfers \in Nat PROVE Del!TypeOK
  BY DEF Del!KeyDeliveryAssumption
<1>1. ASSUME NEW k \in DOMAIN keys
      PROVE  /\ keys[k].named \in Del!Addresses /\ keys[k].owner \in Users
             /\ keys[k].group \in Groups \cup {Del!NoGroup}
             /\ keys[k].resets \in 0..MaxTransfers
  <2>1. keys[k] \in Key /\ k \in Nat
    BY DEF DeliveryInv, DeliveryTyped
  <2>2. /\ ResetsOf(k) = keys[k].resets /\ Cardinality(Movers(k)) \in Nat
        /\ ResetsOf(k) + Cardinality(Movers(k)) <= requests /\ requests \in 0..MaxTransfers
    BY <2>1, FS_CardinalityType DEF DeliveryBounds, ResetsOf
  <2> QED
    BY <2>1, <2>2 DEF Key
<1> QED
  BY <1>1 DEF DeliveryInv, DeliveryTyped, DeliveryBounds, Del!TypeOK

-----------------------------------------------------------------------------
(* The composition: a component behaves as if it were alone.               *)

LEMMA SubjectStays == [AnyNext]_anyVars => subject' = subject
BY DEF AnyNext, anyVars

\* A step of the composition is one of the component that the behaviour is about, or none.
LEMMA StepsApart ==
    ASSUME [AnyNext]_anyVars
    PROVE  /\ subject = "sessions" => [Auth!Next]_Auth!vars
           /\ subject = "data" => [Data!Next]_Data!vars
           /\ subject = "retention" => [Keep!Next]_Keep!vars
           /\ subject = "delivery" => [Del!Next]_Del!vars
           /\ subject = "provisioning" => [Prov!Next]_Prov!vars
           /\ subject = "notification" => [Rule!Next]_Rule!vars
           /\ subject = "schedulers" => [Sched!Next]_Sched!vars
<1>1. CASE AnyNext
  BY <1>1 DEF AnyNext
<1>2. CASE UNCHANGED anyVars
  <2>1. /\ UNCHANGED <<thread, requests, overlapped>>
        /\ UNCHANGED authVars /\ UNCHANGED dataVars /\ UNCHANGED keepVars
        /\ UNCHANGED delVars /\ UNCHANGED provVars /\ UNCHANGED ruleVars
        /\ UNCHANGED schedVars
    BY <1>2 DEF anyVars
  <2>2. UNCHANGED Auth!vars
    BY <2>1 DEF authVars, Auth!vars
  <2>3. UNCHANGED Data!vars
    BY <2>1 DEF dataVars, Data!vars
  <2>4. UNCHANGED Keep!vars
    BY <2>1 DEF keepVars, Keep!vars
  <2>5. UNCHANGED Del!vars
    BY <2>1 DEF delVars, Del!vars
  <2>6. UNCHANGED Prov!vars
    BY <2>1 DEF provVars, Prov!vars, Prov!upstream
  <2>7. UNCHANGED Rule!vars
    BY <2>1 DEF ruleVars, Rule!vars
  <2>8. UNCHANGED Sched!vars
    BY <2>1 DEF schedVars, Sched!vars
  <2> QED
    BY <2>2, <2>3, <2>4, <2>5, <2>6, <2>7, <2>8
<1> QED
  BY <1>1, <1>2

\* Keys and accounts change only when the behaviour is about them.
LEMMA OthersRest ==
    ASSUME [AnyNext]_anyVars
    PROVE  /\ subject # "delivery" => UNCHANGED keys
           /\ subject # "provisioning" => UNCHANGED accounts
<1>1. CASE AnyNext
  BY <1>1 DEF AnyNext, delVars, provVars
<1>2. CASE UNCHANGED anyVars
  BY <1>2 DEF anyVars, delVars, provVars
<1> QED
  BY <1>1, <1>2

LEMMA SessionsKeep == AnySpec => [](subject = "sessions" => AuthInv /\ Alone)
<1>1. AnyInit => (subject = "sessions" => AuthInv /\ Alone)
  BY AuthInit, AloneInit DEF AnyInit
<1>2. (subject = "sessions" => AuthInv /\ Alone) /\ [AnyNext]_anyVars
      => (subject = "sessions" => AuthInv /\ Alone)'
  BY SubjectStays, StepsApart, AuthNext, AloneNext
<1> QED
  BY <1>1, <1>2, PTL DEF AnySpec

LEMMA DataKeeps == AnySpec => [](subject = "data" => DataInv)
<1>1. AnyInit => (subject = "data" => DataInv)
  BY ServicesAssumption, InitHolds DEF AnyInit
<1>2. (subject = "data" => DataInv) /\ [AnyNext]_anyVars
      => (subject = "data" => DataInv)'
  BY SubjectStays, StepsApart, ServicesAssumption, NextHolds
<1> QED
  BY <1>1, <1>2, PTL DEF AnySpec

LEMMA RetentionKeeps == AnySpec => [](subject = "retention" => KeepInv)
<1>1. AnyInit => (subject = "retention" => KeepInv)
  BY ServicesAssumption, KeepInit DEF AnyInit
<1>2. (subject = "retention" => KeepInv) /\ [AnyNext]_anyVars
      => (subject = "retention" => KeepInv)'
  BY SubjectStays, StepsApart, ServicesAssumption, KeepNext
<1> QED
  BY <1>1, <1>2, PTL DEF AnySpec

LEMMA DeliveryKeeps == AnySpec => [](subject = "delivery" => DeliveryInv)
<1>1. AnyInit => (subject = "delivery" => DeliveryInv)
  BY ServicesAssumption, DeliveryInit DEF AnyInit
<1>2. (subject = "delivery" => DeliveryInv) /\ [AnyNext]_anyVars
      => (subject = "delivery" => DeliveryInv)'
  BY SubjectStays, StepsApart, ServicesAssumption, DeliveryNext
<1> QED
  BY <1>1, <1>2, PTL DEF AnySpec

LEMMA ProvisioningKeeps == AnySpec => [](subject = "provisioning" => ProvInv)
<1>1. AnyInit => (subject = "provisioning" => ProvInv)
  BY ServicesAssumption, ProvInit DEF AnyInit
<1>2. (subject = "provisioning" => ProvInv) /\ [AnyNext]_anyVars
      => (subject = "provisioning" => ProvInv)'
  BY SubjectStays, StepsApart, ServicesAssumption, ProvNext
<1> QED
  BY <1>1, <1>2, PTL DEF AnySpec

LEMMA NotificationKeeps == AnySpec => [](subject = "notification" => RuleInv)
<1>1. AnyInit => (subject = "notification" => RuleInv)
  BY ServicesAssumption, RuleInit DEF AnyInit
<1>2. (subject = "notification" => RuleInv) /\ [AnyNext]_anyVars
      => (subject = "notification" => RuleInv)'
  BY SubjectStays, StepsApart, ServicesAssumption, RuleNext
<1> QED
  BY <1>1, <1>2, PTL DEF AnySpec

LEMMA SchedulersKeep == AnySpec => [](subject = "schedulers" => GateInv)
<1>1. AnyInit => (subject = "schedulers" => GateInv)
  BY GateInit DEF AnyInit
<1>2. (subject = "schedulers" => GateInv) /\ [AnyNext]_anyVars
      => (subject = "schedulers" => GateInv)'
  BY SubjectStays, StepsApart, GateNext
<1> QED
  BY <1>1, <1>2, PTL DEF AnySpec

LEMMA SessionsBounded == AnySpec => [](subject = "sessions" => AuthInv /\ AuthBounds)
<1>1. AnyInit => (subject = "sessions" => AuthInv /\ AuthBounds)
  BY ServicesAssumption, AuthInit, AuthBoundsStart DEF AnyInit, ServicesAssumption, Auth!SessionsAssumption
<1>2. (subject = "sessions" => AuthInv /\ AuthBounds) /\ [AnyNext]_anyVars
      => (subject = "sessions" => AuthInv /\ AuthBounds)'
  BY SubjectStays, StepsApart, ServicesAssumption, AuthNext, AuthBoundsHold DEF ServicesAssumption, Auth!SessionsAssumption
<1> QED
  BY <1>1, <1>2, PTL DEF AnySpec

LEMMA DataBounded == AnySpec => [](subject = "data" => DataInv /\ DataBounds)
<1>1. AnyInit => (subject = "data" => DataInv /\ DataBounds)
  BY ServicesAssumption, InitHolds, DataBoundsStart DEF AnyInit
<1>2. (subject = "data" => DataInv /\ DataBounds) /\ [AnyNext]_anyVars
      => (subject = "data" => DataInv /\ DataBounds)'
  BY SubjectStays, StepsApart, ServicesAssumption, NextHolds, DataBoundsHold
<1> QED
  BY <1>1, <1>2, PTL DEF AnySpec

LEMMA RetentionBounded == AnySpec => [](subject = "retention" => KeepInv /\ KeepBounds)
<1>1. AnyInit => (subject = "retention" => KeepInv /\ KeepBounds)
  BY ServicesAssumption, KeepInit, KeepBoundsStart DEF AnyInit
<1>2. (subject = "retention" => KeepInv /\ KeepBounds) /\ [AnyNext]_anyVars
      => (subject = "retention" => KeepInv /\ KeepBounds)'
  BY SubjectStays, StepsApart, ServicesAssumption, KeepNext, KeepBoundsHold
<1> QED
  BY <1>1, <1>2, PTL DEF AnySpec

LEMMA DeliveryBounded == AnySpec => [](subject = "delivery" => DeliveryInv /\ DeliveryBounds)
<1>1. AnyInit => (subject = "delivery" => DeliveryInv /\ DeliveryBounds)
  BY ServicesAssumption, DeliveryInit, DeliveryBoundsStart DEF AnyInit
<1>2. (subject = "delivery" => DeliveryInv /\ DeliveryBounds) /\ [AnyNext]_anyVars
      => (subject = "delivery" => DeliveryInv /\ DeliveryBounds)'
  BY SubjectStays, StepsApart, ServicesAssumption, DeliveryNext, DeliveryBoundsHold
<1> QED
  BY <1>1, <1>2, PTL DEF AnySpec

LEMMA ProvisioningBounded == AnySpec => [](subject = "provisioning" => ProvInv /\ ProvBounds)
<1>1. AnyInit => (subject = "provisioning" => ProvInv /\ ProvBounds)
  BY ServicesAssumption, ProvInit, ProvBoundsStart DEF AnyInit
<1>2. (subject = "provisioning" => ProvInv /\ ProvBounds) /\ [AnyNext]_anyVars
      => (subject = "provisioning" => ProvInv /\ ProvBounds)'
  BY SubjectStays, StepsApart, ServicesAssumption, ProvNext, ProvBoundsHold
<1> QED
  BY <1>1, <1>2, PTL DEF AnySpec

LEMMA NotificationBounded == AnySpec => [](subject = "notification" => RuleInv /\ RuleBounds)
<1>1. AnyInit => (subject = "notification" => RuleInv /\ RuleBounds)
  BY ServicesAssumption, RuleInit, RuleBoundsStart DEF AnyInit
<1>2. (subject = "notification" => RuleInv /\ RuleBounds) /\ [AnyNext]_anyVars
      => (subject = "notification" => RuleInv /\ RuleBounds)'
  BY SubjectStays, StepsApart, ServicesAssumption, RuleNext, RuleBoundsHold
<1> QED
  BY <1>1, <1>2, PTL DEF AnySpec

(***************************************************************************)
(* However many requests interleave, calls fail and restarts there are: no *)
(* key is accepted that was revoked before it was presented, and none that *)
(* a caller has is rejected unless it is being revoked or has expired.     *)
(***************************************************************************)
THEOREM ServicesJudgeKeysRight == AnySpec => []KeysAreJudgedRight
<1>1. (subject = "sessions" => AuthInv /\ Alone) => KeysAreJudgedRight
  BY DEF KeysAreJudgedRight, AuthInv, Judged, Auth!KeysAreJudgedRight, Auth!At
<1> QED
  BY <1>1, SessionsKeep, PTL

(***************************************************************************)
(* As long as no two requests overlap, whatever calls fail and however     *)
(* often the process restarts, an administrator has one API token at most. *)
(***************************************************************************)
THEOREM ServicesKeepOneToken == AnySpec => []OneTokenEach
<1>1. (subject = "sessions" => AuthInv /\ Alone) => OneTokenEach
  BY AloneMeansOne DEF OneTokenEach
<1> QED
  BY <1>1, SessionsKeep, PTL

(***************************************************************************)
(* A mutation acts on snapshots of the bases that were read after its own  *)
(* refresh had begun.                                                      *)
(***************************************************************************)
THEOREM ServicesMutateFresh == AnySpec => []MutationsReadFresh
<1>1. (subject = "data" => DataInv) => MutationsReadFresh
  BY ServicesAssumption, DataMeansFresh DEF MutationsReadFresh
<1> QED
  BY <1>1, DataKeeps, PTL

(***************************************************************************)
(* Clean-ups for size keep the newest row of every source and metric, and  *)
(* the latest row that readers find is never followed by an older one.     *)
(***************************************************************************)
THEOREM ServicesKeepTheLatest == AnySpec => ReadersKeepTheLatest
<1>1. (subject = "retention" => KeepInv) /\ (subject = "retention" => KeepInv)'
      /\ [AnyNext]_anyVars
      => [subject = "retention" => Keep!NewestSurvives' /\ Keep!GoesForward]_anyVars
  <2> SUFFICES ASSUME subject = "retention" => KeepInv, (subject = "retention" => KeepInv)',
                      [AnyNext]_anyVars, subject = "retention"
               PROVE  Keep!NewestSurvives' /\ Keep!GoesForward
    OBVIOUS
  <2>1. KeepInv /\ KeepInv' /\ [Keep!Next]_Keep!vars
    BY SubjectStays, StepsApart
  <2>2. Keep!NewestSurvives'
    BY <2>1 DEF KeepInv, TopIsKept, Keep!NewestSurvives, Keep!Stored
  <2>3. Keep!GoesForward
    BY <2>1, KeepForward, ServicesAssumption
  <2> QED
    BY <2>2, <2>3
<1> QED
  BY <1>1, RetentionKeeps, PTL DEF ReadersKeepTheLatest, AnySpec

(***************************************************************************)
(* A key goes to a user with the address in its name; on the platform it   *)
(* served, unless operations overlap; and to a group its new owner may use,*)
(* unless users or groups have changed meanwhile.                          *)
(***************************************************************************)
THEOREM ServicesDeliverKeys == AnySpec => KeysReachTheirNames
<1>1. (subject = "delivery" => DeliveryInv) /\ [AnyNext]_anyVars
      => \A k \in DOMAIN keys : KeyFits(k)
  <2> SUFFICES ASSUME subject = "delivery" => DeliveryInv, [AnyNext]_anyVars,
                      NEW k \in DOMAIN keys
               PROVE  KeyFits(k)
    OBVIOUS
  <2>1. CASE subject = "delivery"
    BY <2>1, StepsApart, DeliveryFits, ServicesAssumption
  <2>2. CASE subject # "delivery"
    BY <2>2, OthersRest DEF KeyFits
  <2> QED
    BY <2>1, <2>2
<1>2. (\A k \in DOMAIN keys : KeyFits(k)) => [\A k \in DOMAIN keys :
          LET was == keys[k]
              is == keys'[k]
          IN  is # was =>
                 /\ Address[is.owner] = was.named
                 /\ was.group # Del!NoGroup /\ ~overlapped' =>
                       Platform[is.group] = Platform[was.group]
                 /\ ~stale' => is.group \in grants[is.owner]]_Del!vars
  BY DEF KeyFits
<1> QED
  BY <1>1, <1>2, DeliveryKeeps, PTL DEF AnySpec, KeysReachTheirNames, Del!KeysReachTheirNames

(***************************************************************************)
(* As long as operations do not overlap, the quota of a key is reset once, *)
(* however often its transfer is repeated, fails or loses its answer.      *)
(***************************************************************************)
THEOREM ServicesResetOnce == AnySpec => []QuotaResetOnce
<1>1. (subject = "delivery" => DeliveryInv) => QuotaResetOnce
  BY DEF QuotaResetOnce, DeliveryInv, AloneSeesTrue, Del!QuotaResetOnce
<1> QED
  BY <1>1, DeliveryKeeps, PTL

(***************************************************************************)
(* As long as flows do not overlap, an address has one dedicated group per *)
(* platform, and one account made of its codes.                            *)
(***************************************************************************)
THEOREM ServicesReuse == AnySpec => []RetriesReuse
<1>1. (subject = "provisioning" => ProvInv) => RetriesReuse
  BY ProvMeansReuse DEF RetriesReuse
<1> QED
  BY <1>1, ProvisioningKeeps, PTL

(***************************************************************************)
(* The code that an account holds was issued for the address it is named   *)
(* after, and it serves groups of its own platform only.                   *)
(***************************************************************************)
THEOREM ServicesKeepAccountsApart == AnySpec => []AccountsBelong
<1>1. (subject = "provisioning" => ProvInv) => AccountsBelong
  BY DEF AccountsBelong, ProvInv, Belong, IssuedFor, Serves, Prov!AccountsBelong
<1> QED
  BY <1>1, ProvisioningKeeps, PTL

(***************************************************************************)
(* As long as flows do not overlap, a flow takes neither a group nor its   *)
(* OAuth tokens from an account that exists.                               *)
(***************************************************************************)
THEOREM ServicesTakeNothing == AnySpec => AccountsKeepWhatTheyHave
<1>1. (subject = "provisioning" => ProvInv) /\ [AnyNext]_anyVars
      => [~overlapped' => \A a \in DOMAIN accounts :
             /\ accounts[a].groups \subseteq accounts'[a].groups
             /\ accounts[a].type = "oauth" => accounts'[a].type = "oauth"]_Prov!vars
  <2> SUFFICES ASSUME subject = "provisioning" => ProvInv, [AnyNext]_anyVars, ~overlapped',
                      NEW a \in DOMAIN accounts
               PROVE  KeepsIts(a)
    BY DEF KeepsIts
  <2>1. CASE subject = "provisioning"
    BY <2>1, StepsApart, ProvKeepsIts, ServicesAssumption
  <2>2. CASE subject # "provisioning"
    BY <2>2, OthersRest DEF KeepsIts
  <2> QED
    BY <2>1, <2>2
<1> QED
  BY <1>1, ProvisioningKeeps, PTL
     DEF AnySpec, AccountsKeepWhatTheyHave, Prov!AccountsKeepWhatTheyHave

(***************************************************************************)
(* As long as evaluations do not overlap, a breach is reported only when   *)
(* every evaluation that was stored in the last for_minutes saw it.        *)
(***************************************************************************)
THEOREM ServicesReportBreaches == AnySpec => []SustainedOnly
<1>1. (subject = "notification" => RuleInv) => SustainedOnly
  BY DEF SustainedOnly, RuleInv, AloneSustains, StoresWhatLasted, LongEnough,
     Rule!SustainedOnly, Rule!At
<1> QED
  BY <1>1, NotificationKeeps, PTL

(***************************************************************************)
(* No scheduler that reads the operational data ticks before the warm-up   *)
(* has ended.                                                              *)
(***************************************************************************)
THEOREM ServicesKeepTheGate == AnySpec => []GateHolds
<1>1. (subject = "schedulers" => GateInv) => GateHolds
  BY ServicesAssumption DEF Sched!SchedulersAssumption, GateInv, GateHolds, Sched!GateHolds
<1> QED
  BY <1>1, SchedulersKeep, PTL

(***************************************************************************)
(* Whatever component a behaviour is about, its variables keep their types:*)
(* counters stay within their bounds, a request holds what its step needs, *)
(* and what is stored names what there is.                                 *)
(***************************************************************************)
THEOREM ServicesAreTyped == AnySpec => []TypesOK
<1>1. (subject = "sessions" => AuthInv /\ AuthBounds) => (subject = "sessions" => Auth!TypeOK)
  BY ServicesAssumption, AuthTypes
<1>2. (subject = "data" => DataInv /\ DataBounds) => (subject = "data" => Data!TypeOK)
  BY ServicesAssumption, DataTypes
<1>3. (subject = "retention" => KeepInv /\ KeepBounds) => (subject = "retention" => Keep!TypeOK)
  BY ServicesAssumption, KeepTypes
<1>4. (subject = "delivery" => DeliveryInv /\ DeliveryBounds) => (subject = "delivery" => Del!TypeOK)
  BY ServicesAssumption, DeliveryTypes
<1>5. (subject = "provisioning" => ProvInv /\ ProvBounds) => (subject = "provisioning" => Prov!TypeOK)
  BY ServicesAssumption, ProvTypes
<1>6. (subject = "notification" => RuleInv /\ RuleBounds) => (subject = "notification" => Rule!TypeOK)
  BY ServicesAssumption, RuleTypes
<1>7. (subject = "schedulers" => GateInv) => (subject = "schedulers" => Sched!TypeOK)
  BY DEF GateInv
<1>8. /\ subject = "sessions" => AuthInv /\ AuthBounds
      /\ subject = "data" => DataInv /\ DataBounds
      /\ subject = "retention" => KeepInv /\ KeepBounds
      /\ subject = "delivery" => DeliveryInv /\ DeliveryBounds
      /\ subject = "provisioning" => ProvInv /\ ProvBounds
      /\ subject = "notification" => RuleInv /\ RuleBounds
      /\ subject = "schedulers" => GateInv
      => TypesOK
  BY <1>1, <1>2, <1>3, <1>4, <1>5, <1>6, <1>7 DEF TypesOK
<1> QED
  BY <1>8, SessionsBounded, DataBounded, RetentionBounded, DeliveryBounded, ProvisioningBounded,
     NotificationBounded, SchedulersKeep, PTL

=============================================================================
