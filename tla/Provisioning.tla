---------------------------- MODULE Provisioning ----------------------------
(***************************************************************************)
(* ProvisioningService (src/app/services/provisioning.py): a flow gives an *)
(* e-mail address an upstream account in a group, either with an API key at*)
(* once or through an OAuth handoff: upstream mints a session and a URL, a *)
(* person authorises, and an operator pastes back what the browser shows.  *)
(*                                                                         *)
(* Flows are stored, everything else is upstream's.  Requests are served by*)
(* threads that nothing keeps apart.  A record is its position in its      *)
(* sequence.  The scheduled test plan of an account and the trail of events*)
(* are left out; nothing reads them.                                       *)
(***************************************************************************)
EXTENDS Integers, Sequences, FiniteSets

CONSTANTS
    Emails,
    Platforms,
    OAuthPlatforms,  \* the platforms whose OAuth handoff is known
    DefaultPlatform,
    FirstGroups,     \* the groups that exist at the start
    Landing,         \* those of them in the landing pool
    FirstAccounts,   \* the sequences of accounts there may be at the start
    Threads,
    Failures,        \* of {"refused", "lost", "crash"}
    MaxRequests      \* bound on the requests and crashes

None == 0
Types == {"oauth", "apikey"}

\* At the start an address has one dedicated group per platform at most, and the accounts
\* are in groups of their platform.
ProvisioningAssumption ==
    /\ OAuthPlatforms \subseteq Platforms /\ DefaultPlatform \in Platforms
    /\ FirstGroups \in Seq([name : {FirstGroups[g].name : g \in DOMAIN FirstGroups},
                            platform : Platforms])
    /\ \A g, h \in DOMAIN FirstGroups :
          FirstGroups[g].name \in Emails /\ FirstGroups[g] = FirstGroups[h] => g = h
    /\ Landing \subseteq DOMAIN FirstGroups
    /\ \A first \in FirstAccounts :
          /\ first \in Seq([name : Emails, platform : Platforms, type : Types,
                            groups : SUBSET DOMAIN FirstGroups, code : {None}])
          /\ \A a \in DOMAIN first : \A g \in first[a].groups :
                FirstGroups[g].platform = first[a].platform
    /\ MaxRequests \in Nat

VARIABLES
    \* Upstream.
    groups,      \* name and platform of each group
    accounts,    \* name, platform, type, groups of each account and whose code it holds
    sessions,    \* OAuth sessions: their platform, for whom, and whether they are spent
    \* The store.
    flows,
    \* The threads.
    thread,
    requests,
    \* History.
    overlapped   \* two operations have been in progress at once

upstream == <<groups, accounts, sessions>>
vars == <<upstream, flows, thread, requests, overlapped>>

Idle == [pc |-> "idle", kind |-> "none", email |-> "nobody", platform |-> "none",
         group |-> None, account |-> None, bindings |-> {}, code |-> None, flow |-> None,
         known |-> None]

TypeOK ==
    /\ \A g \in DOMAIN groups : groups[g].platform \in Platforms
    /\ \A a \in DOMAIN accounts :
          /\ accounts[a].name \in Emails /\ accounts[a].platform \in Platforms
          /\ accounts[a].type \in Types /\ accounts[a].groups \subseteq DOMAIN groups
          /\ accounts[a].code \in {None} \cup DOMAIN sessions
    /\ \A s \in DOMAIN sessions : sessions[s].platform \in OAuthPlatforms
    /\ \A f \in DOMAIN flows :
          /\ flows[f].group \in DOMAIN groups
          /\ flows[f].status \in {"pending_oauth", "completed", "failed"}
          /\ flows[f].status = "completed" => flows[f].account \in DOMAIN accounts
          /\ flows[f].status = "pending_oauth" => flows[f].session \in DOMAIN sessions
    /\ DOMAIN thread = Threads
    /\ requests \in 0..MaxRequests

Init ==
    /\ groups = FirstGroups
    /\ accounts \in FirstAccounts
    /\ sessions = <<>>
    /\ flows = <<>>
    /\ thread = [t \in Threads |-> Idle]
    /\ requests = 0
    /\ overlapped = FALSE

-----------------------------------------------------------------------------
(* Threads.                                                                *)

At(t, pc) == thread[t].pc = pc
Become(t, local) == thread' = [thread EXCEPT ![t] = local]
Goto(t, pc) == Become(t, [thread[t] EXCEPT !.pc = pc])

Begin(t, local) ==
    /\ At(t, "idle")
    /\ requests < MaxRequests /\ requests' = requests + 1
    /\ Become(t, local)
    /\ overlapped' = (overlapped \/ \E s \in Threads : ~At(s, "idle"))

\* A call to upstream raises: a start leaves no flow, a completion stores the failure.
Raised(t) == IF thread[t].kind = "paste" THEN Goto(t, "fail") ELSE Become(t, Idle)

CallFails(t) ==
    /\ "refused" \in Failures
    /\ thread[t].pc \notin {"idle", "save", "fail", "platform"}
    /\ Raised(t)
    /\ sessions' = IF At(t, "exchange")
                   THEN [sessions EXCEPT ![flows[thread[t].flow].session].spent = TRUE]
                   ELSE sessions
    /\ UNCHANGED <<groups, accounts, flows, requests, overlapped>>

\* The process dies; so does a thread whose call to the database raises.
Crash ==
    /\ "crash" \in Failures
    /\ requests < MaxRequests /\ requests' = requests + 1
    /\ \E t \in Threads : ~At(t, "idle")
    /\ thread' = [t \in Threads |-> Idle]
    /\ UNCHANGED <<upstream, flows, overlapped>>

-----------------------------------------------------------------------------
(* Starting a flow.                                                        *)

\* A platform whose handoff is not known is refused before anything is written.
StartOAuth(t, email, platform) ==
    /\ platform \in OAuthPlatforms
    /\ Begin(t, [Idle EXCEPT !.kind = "oauth", !.email = email, !.platform = platform,
                             !.pc = "group"])
    /\ UNCHANGED <<upstream, flows>>

\* An API key needs no handoff, and may be for any platform.
StartApiKey(t, email, platform) ==
    /\ Begin(t, [Idle EXCEPT !.kind = "apikey", !.email = email, !.platform = platform,
                             !.pc = "group"])
    /\ UNCHANGED <<upstream, flows>>

\* Mutation of OwnGroups: the groups of the flows that were stored.
OwnGroupsOfFlows(email, platform) ==
    {g \in DOMAIN groups : /\ groups[g].platform = platform
                           /\ \E f \in DOMAIN flows : flows[f].email = email /\ flows[f].group = g}

\* The dedicated groups of an address on a platform; the platform field decides.
OwnGroups(email, platform) ==
    {g \in DOMAIN groups : groups[g].name = email /\ groups[g].platform = platform}

\* Its own group, else one of the landing pool, else a new one.
ResolveGroup(t) ==
    /\ At(t, "group")
    /\ LET l == thread[t]
           own == OwnGroups(l.email, l.platform)
           landing == {g \in Landing : groups[g].platform = l.platform}
           found == IF own # {} THEN own ELSE landing
       IN  IF found = {} THEN Goto(t, "create group")
           ELSE \E g \in found : Become(t, [l EXCEPT !.group = g, !.pc = "find"])
    /\ UNCHANGED <<upstream, flows, requests, overlapped>>

CreateGroup(t) ==
    /\ At(t, "create group")
    /\ LET l == thread[t]
       IN  /\ groups' = Append(groups, [name |-> l.email, platform |-> l.platform])
           /\ \/ Become(t, [l EXCEPT !.group = Len(groups) + 1, !.pc = "find"])
              \/ "lost" \in Failures /\ Raised(t)
    /\ UNCHANGED <<accounts, sessions, flows, requests, overlapped>>

\* Accounts of that name on the platform; the first one that upstream lists is taken.
Named(email, platform) ==
    {a \in DOMAIN accounts : accounts[a].name = email /\ accounts[a].platform = platform}

\* Mutation of Reusable: an API key may be put over an account of any type.
ReusableOfAnyType(kind, a) == TRUE

\* An API key is never put over an OAuth account.
Reusable(kind, a) == kind = "apikey" => accounts[a].type = "apikey"

\* What is done about an account that exists already, and what if there is none.
IfFound(l, a) ==
    IF l.kind # "paste" THEN "configure"
    ELSE IF l.group \in accounts[a].groups THEN "save" ELSE "read bindings"
IfMissing(l) == IF l.kind = "oauth" THEN "url" ELSE "create account"

FindAccount(t) ==
    /\ At(t, "find")
    /\ LET l == thread[t]
           named == Named(l.email, l.platform)
       IN  IF named = {} THEN Goto(t, IfMissing(l))
           ELSE \E a \in named :
                IF Reusable(l.kind, a)
                THEN Become(t, [l EXCEPT !.account = a, !.bindings = accounts[a].groups,
                                         !.pc = IfFound(l, a)])
                ELSE Goto(t, IfMissing(l))
    /\ UNCHANGED <<upstream, flows, requests, overlapped>>

\* The account is written with its type and with the groups it was listed with, and the target group.
Configured(l) ==
    [accounts[l.account] EXCEPT !.type = l.kind, !.groups = l.bindings \cup {l.group}]

Configure(t) ==
    /\ At(t, "configure")
    /\ accounts' = [accounts EXCEPT ![thread[t].account] = Configured(thread[t])]
    /\ Goto(t, "save") \/ ("lost" \in Failures /\ Raised(t))
    /\ UNCHANGED <<groups, sessions, flows, requests, overlapped>>

\* Upstream mints a session; a lost answer leaves one that nobody uses.
GenerateUrl(t) ==
    /\ At(t, "url")
    /\ LET l == thread[t]
       IN  /\ sessions' = Append(sessions,
                  [platform |-> l.platform, whose |-> l.email, spent |-> FALSE])
           /\ Become(t, [l EXCEPT !.flow = Len(sessions) + 1, !.pc = "save"])
    /\ UNCHANGED <<groups, accounts, flows, requests, overlapped>>

CreateAccount(t) ==
    /\ At(t, "create account")
    /\ LET l == thread[t]
       IN  /\ accounts' = Append(accounts,
                  [name |-> l.email, platform |-> l.platform, groups |-> {l.group},
                   type |-> IF l.kind = "paste" THEN "oauth" ELSE l.kind,
                   code |-> l.code])
           /\ \/ Become(t, [l EXCEPT !.account = Len(accounts) + 1, !.pc = "save"])
              \/ "lost" \in Failures /\ Raised(t)
    /\ UNCHANGED <<groups, sessions, flows, requests, overlapped>>

\* Mutation of PendingFlow: the flow does not remember the handoff.
PendingFlowUnlinked(l) ==
    [email |-> l.email, group |-> l.group, session |-> None, account |-> None,
     status |-> "pending_oauth"]

\* A flow that waits for the code, and one that found its account and is done at once.
PendingFlow(l) ==
    [email |-> l.email, group |-> l.group, session |-> l.flow, account |-> None,
     status |-> "pending_oauth"]
CompletedFlow(l) ==
    [email |-> l.email, group |-> l.group, session |-> None, account |-> l.account,
     status |-> "completed"]

SaveFlow(t) ==
    /\ At(t, "save") /\ thread[t].kind # "paste"
    /\ LET l == thread[t]
       IN  flows' = Append(flows, IF l.account = None THEN PendingFlow(l) ELSE CompletedFlow(l))
    /\ Become(t, Idle)
    /\ UNCHANGED <<upstream, requests, overlapped>>

-----------------------------------------------------------------------------
(* Completing a flow.                                                      *)

\* Mutation of FlowOf: any pending flow will do for a bare code.
AnyPendingFlow(s, bare) ==
    {f \in DOMAIN flows : IF bare THEN flows[f].status = "pending_oauth"
                          ELSE flows[f].session = s}

\* A callback URL carries the state, which finds the flow; with a bare code the operator
\* names the flow that showed the handoff.
FlowOf(s, bare) == {f \in DOMAIN flows : flows[f].session = s}

\* An operator pastes the code that the handoff of session s has issued, once or again.
Paste(t, s, bare) ==
    /\ \E f \in FlowOf(s, bare) :
          Begin(t, [Idle EXCEPT !.kind = "paste", !.email = flows[f].email,
                                !.group = flows[f].group, !.flow = f, !.code = s,
                                !.known = flows[f].account, !.pc = "platform"])
    /\ UNCHANGED <<upstream, flows>>

\* The group remembers the platform; one that cannot be read gives the default.
LookUpPlatform(t) ==
    /\ At(t, "platform")
    /\ \E p \in {groups[thread[t].group].platform} \cup
                (IF "refused" \in Failures THEN {DefaultPlatform} ELSE {}) :
          Become(t, [thread[t] EXCEPT !.platform = p,
                            !.pc = IF p \in OAuthPlatforms THEN "exchange" ELSE "fail"])
    /\ UNCHANGED <<upstream, flows, requests, overlapped>>

\* A session is spent by the attempt; upstream refuses a spent one, and one of another
\* platform.  Whether the code belongs to the session is the caller's affair.
Exchange(t) ==
    /\ At(t, "exchange")
    /\ LET l == thread[t]
           s == flows[l.flow].session
       IN  /\ sessions' = [sessions EXCEPT ![s].spent = TRUE]
           /\ Goto(t, IF sessions[s].spent \/ sessions[s].platform # l.platform
                      THEN "fail" ELSE "find")
    /\ UNCHANGED <<groups, accounts, flows, requests, overlapped>>

\* bind_account_to_group: the account is read, and its groups put back with one more.
ReadBindings(t) ==
    /\ At(t, "read bindings")
    /\ Become(t, [thread[t] EXCEPT !.bindings = accounts[thread[t].account].groups,
                                   !.pc = "bind"])
    /\ UNCHANGED <<upstream, flows, requests, overlapped>>

Bind(t) ==
    /\ At(t, "bind")
    /\ LET l == thread[t]
       IN  accounts' = [accounts EXCEPT ![l.account].groups = l.bindings \cup {l.group}]
    /\ Goto(t, "save") \/ ("lost" \in Failures /\ Raised(t))
    /\ UNCHANGED <<groups, sessions, flows, requests, overlapped>>

\* The flow is stored as it was read, with its new status.
CompleteFlow(t) ==
    /\ At(t, "save") /\ thread[t].kind = "paste"
    /\ LET l == thread[t]
       IN  flows' = [flows EXCEPT ![l.flow].status = "completed",
                                  ![l.flow].account = l.account]
    /\ Become(t, Idle)
    /\ UNCHANGED <<upstream, requests, overlapped>>

FailFlow(t) ==
    /\ At(t, "fail")
    /\ LET l == thread[t]
       IN  flows' = [flows EXCEPT ![l.flow].status = "failed", ![l.flow].account = l.known]
    /\ Become(t, Idle)
    /\ UNCHANGED <<upstream, requests, overlapped>>

-----------------------------------------------------------------------------

Step(t) ==
    \/ ResolveGroup(t) \/ CreateGroup(t) \/ FindAccount(t) \/ Configure(t) \/ GenerateUrl(t)
    \/ CreateAccount(t) \/ SaveFlow(t) \/ LookUpPlatform(t) \/ Exchange(t) \/ ReadBindings(t)
    \/ Bind(t) \/ CompleteFlow(t) \/ FailFlow(t) \/ CallFails(t)

Next ==
    \/ \E t \in Threads :
          \/ \E e \in Emails, p \in Platforms : StartOAuth(t, e, p) \/ StartApiKey(t, e, p)
          \/ \E s \in DOMAIN sessions, bare \in BOOLEAN : Paste(t, s, bare)
          \/ Step(t)
    \/ Crash

Spec == Init /\ [][Next]_vars

-----------------------------------------------------------------------------
(* Properties.                                                             *)

(***************************************************************************)
(* Flows that are started again after a failure, a lost answer or a crash  *)
(* find what the earlier ones have left behind: as long as flows do not    *)
(* overlap, an address has one dedicated group per platform, and one       *)
(* account made of its codes.                                              *)
(***************************************************************************)
RetriesReuse ==
    ~overlapped =>
        \A e \in Emails, p \in Platforms :
            /\ Cardinality({g \in DOMAIN groups : groups[g] = [name |-> e, platform |-> p]}) <= 1
            /\ Cardinality({a \in Named(e, p) : accounts[a].code # None}) <= 1

(***************************************************************************)
(* Two operators who authorise at once never cross their codes: an account *)
(* holds the code that was issued for the address it is named after.  And  *)
(* it serves groups of its own platform only, although a flow does not     *)
(* store its platform and the group it is recovered from may not be        *)
(* readable.                                                               *)
(***************************************************************************)
AccountsBelong ==
    \A a \in DOMAIN accounts :
        LET account == accounts[a]
        IN  /\ account.code # None => sessions[account.code].whose = account.name
            /\ \A g \in account.groups : groups[g].platform = account.platform

(***************************************************************************)
(* Provisioning takes nothing from an account that exists, as long as flows*)
(* do not overlap: it stays in the groups it serves, since what is put back*)
(* contains what was read, and no API key is put over an OAuth account that*)
(* shares its name.  Nobody else changes accounts here: a binding that the *)
(* rotation or an operator makes between the reading and the PUT           *)
(* (clients/sub2api.py:1193-1197) is taken away by it.                     *)
(***************************************************************************)
AccountsKeepWhatTheyHave ==
    [][~overlapped' =>
          \A a \in DOMAIN accounts :
              /\ accounts[a].groups \subseteq accounts'[a].groups
              /\ accounts[a].type = "oauth" => accounts'[a].type = "oauth"]_vars
=============================================================================
