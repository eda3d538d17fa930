------------------------------ MODULE Services ------------------------------
(***************************************************************************)
(* Components that share nothing, in one state space: Sessions,            *)
(* OperationalData, DataRetention, KeyDelivery, Provisioning, Notification *)
(* and Schedulers.  Init chooses the one that a behaviour is about; the    *)
(* others rest, and a constant or variable that several of them have       *)
(* (Threads, thread) is the one of that component.                         *)
(***************************************************************************)
EXTENDS Integers, Sequences, FiniteSets

CONSTANTS
    Threads, Failures, MaxBegun,
    Names, MaxUses,                                           \* of Sessions
    Bases, Derived, Base, Viewed, Quick,                      \* of OperationalData
    Sources, NScopes, Retention, MaxStored,                   \* of DataRetention
    Users, Admin, Address, Similar, Groups, Platform,         \* of KeyDelivery
    FirstUsers, FirstGrants, FirstKeys, MaxEdits, MaxTransfers,
    Emails, Platforms, OAuthPlatforms, DefaultPlatform,       \* of Provisioning
    FirstGroups, Landing, FirstAccounts, MaxFlows,
    Scopes, For, Cooldown, Expiration,                        \* of Notification
    MaxAttempts, MaxLag, MaxFailures,
    StartOrder, StopOrder, Gated, TicksAtStart, Refreshes     \* of Schedulers

VARIABLES
    subject,                                                  \* the component
    thread, requests, overlapped,
    issued, memory, stored, expired, given, doomed, revoked,  \* of Sessions
    clock, latest, view, viewer,                              \* of OperationalData
    begun, rows, newest, aged, late,                          \* of DataRetention
    users, grants, keys, edits, stale,                        \* of KeyDelivery
    groups, accounts, sessions, flows,                        \* of Provisioning
    world, sample, state, told, failures, good, silenced,     \* of Notification
    main, next, shutdown, warmup, refreshed, ready, stop,     \* of Schedulers
    loop, enabled

Auth == INSTANCE Sessions WITH MaxRequests <- MaxUses
Data == INSTANCE OperationalData
Keep == INSTANCE DataRetention
Del == INSTANCE KeyDelivery WITH MaxRequests <- MaxTransfers
Prov == INSTANCE Provisioning WITH MaxRequests <- MaxFlows
Rule == INSTANCE Notification
Sched == INSTANCE Schedulers

authVars == <<issued, memory, stored, expired, given, doomed, revoked>>
dataVars == <<clock, latest, view, viewer>>
keepVars == <<begun, rows, newest, aged, late>>
delVars == <<users, grants, keys, edits, stale>>
provVars == <<groups, accounts, sessions, flows>>
ruleVars == <<world, sample, state, told, failures, good, silenced>>
schedVars == <<main, next, shutdown, warmup, refreshed, ready, stop, loop, enabled>>
anyVars == <<subject, thread, requests, overlapped, authVars, dataVars, keepVars, delVars,
             provVars, ruleVars, schedVars>>

ASSUME ServicesAssumption ==
    /\ Auth!SessionsAssumption /\ Data!OperationalDataAssumption /\ Keep!RetentionAssumption
    /\ Del!KeyDeliveryAssumption /\ Prov!ProvisioningAssumption
    /\ Rule!NotificationAssumption /\ Sched!SchedulersAssumption

-----------------------------------------------------------------------------
(* The composition.                                                        *)

Components == {"sessions", "data", "retention", "delivery", "provisioning", "notification",
               "schedulers"}
Threaded == Components \ {"schedulers"}
Requesting == {"sessions", "delivery", "provisioning"}
Overlapping == Requesting \cup {"notification"}

AuthRests ==
    /\ issued = <<>> /\ memory = {} /\ stored = {} /\ expired = {}
    /\ given = {} /\ doomed = {} /\ revoked = {}
DataRests == clock = 0 /\ latest = <<>> /\ view = 0 /\ viewer = 0
KeepRests == begun = 0 /\ rows = {} /\ newest = <<>> /\ aged = {} /\ late = {}
DelRests == users = {} /\ grants = <<>> /\ keys = <<>> /\ edits = 0 /\ stale = FALSE
ProvRests == groups = <<>> /\ accounts = <<>> /\ sessions = <<>> /\ flows = <<>>
RuleRests ==
    /\ world = <<>> /\ sample = <<>> /\ state = <<>> /\ told = <<>>
    /\ failures = 0 /\ good = <<>> /\ silenced = FALSE
SchedRests ==
    /\ main = "starting" /\ next = 1 /\ shutdown = FALSE /\ warmup = "none" /\ refreshed = 0
    /\ ready = FALSE /\ stop = <<>> /\ loop = <<>> /\ enabled = <<>>

AnyInit ==
    /\ subject \in Components
    /\ IF subject = "sessions" THEN Auth!Init ELSE AuthRests
    /\ IF subject = "data" THEN Data!Init ELSE DataRests
    /\ IF subject = "retention" THEN Keep!Init ELSE KeepRests
    /\ IF subject = "delivery" THEN Del!Init ELSE DelRests
    /\ IF subject = "provisioning" THEN Prov!Init ELSE ProvRests
    /\ IF subject = "notification" THEN Rule!Init ELSE RuleRests
    /\ IF subject = "schedulers" THEN Sched!Init ELSE SchedRests
    /\ IF subject \in Threaded THEN TRUE ELSE thread = <<>>
    /\ IF subject \in Requesting THEN TRUE ELSE requests = 0
    /\ IF subject \in Overlapping THEN TRUE ELSE overlapped = FALSE

AnyNext ==
    /\ UNCHANGED subject
    /\ \/ /\ subject = "sessions" /\ Auth!Next
          /\ UNCHANGED <<dataVars, keepVars, delVars, provVars, ruleVars, schedVars>>
       \/ /\ subject = "data" /\ Data!Next
          /\ UNCHANGED <<authVars, keepVars, delVars, provVars, ruleVars, schedVars,
                         requests, overlapped>>
       \/ /\ subject = "retention" /\ Keep!Next
          /\ UNCHANGED <<authVars, dataVars, delVars, provVars, ruleVars, schedVars,
                         requests, overlapped>>
       \/ /\ subject = "delivery" /\ Del!Next
          /\ UNCHANGED <<authVars, dataVars, keepVars, provVars, ruleVars, schedVars>>
       \/ /\ subject = "provisioning" /\ Prov!Next
          /\ UNCHANGED <<authVars, dataVars, keepVars, delVars, ruleVars, schedVars>>
       \/ /\ subject = "notification" /\ Rule!Next
          /\ UNCHANGED <<authVars, dataVars, keepVars, delVars, provVars, schedVars, requests>>
       \/ /\ subject = "schedulers" /\ Sched!Next
          /\ UNCHANGED <<authVars, dataVars, keepVars, delVars, provVars, ruleVars,
                         thread, requests, overlapped>>

AnySpec == AnyInit /\ [][AnyNext]_anyVars

-----------------------------------------------------------------------------
(* The properties of the components.                                       *)

\* The types of each component.
TypesOK ==
    /\ subject = "sessions" => Auth!TypeOK
    /\ subject = "data" => Data!TypeOK
    /\ subject = "retention" => Keep!TypeOK
    /\ subject = "delivery" => Del!TypeOK
    /\ subject = "provisioning" => Prov!TypeOK
    /\ subject = "notification" => Rule!TypeOK
    /\ subject = "schedulers" => Sched!TypeOK

\* Revoked keys are refused, and keys that are not revoked are accepted.
KeysAreJudgedRight == subject = "sessions" => Auth!KeysAreJudgedRight

\* An administrator has one API token at a time.
OneTokenEach == subject = "sessions" => Auth!OneTokenEach

\* Mutations act on what was read after they began.
MutationsReadFresh == subject = "data" => Data!MutationsReadFresh

\* A clean-up for size keeps the newest row of every source and metric, and readers are
\* never given an older row than before.
ReadersKeepTheLatest ==
    [][subject = "retention" => Keep!NewestSurvives' /\ Keep!GoesForward]_anyVars

\* A key goes to the user it is named after, on its platform, into a group of theirs.
KeysReachTheirNames == Del!KeysReachTheirNames

\* Repeated transfers reset the quota of a key once.
QuotaResetOnce == subject = "delivery" => Del!QuotaResetOnce

\* An address has one dedicated group per platform and one account of its codes.
RetriesReuse == subject = "provisioning" => Prov!RetriesReuse

\* Codes do not cross, and accounts serve groups of their platform.
AccountsBelong == subject = "provisioning" => Prov!AccountsBelong

\* Provisioning takes neither a group nor its OAuth tokens from an account.
AccountsKeepWhatTheyHave == Prov!AccountsKeepWhatTheyHave

\* A breach is reported only when it has lasted.
SustainedOnly == subject = "notification" => Rule!SustainedOnly

\* Behind the gate nobody ticks before the warm-up has ended.
GateHolds == subject = "schedulers" => Sched!GateHolds
=============================================================================
