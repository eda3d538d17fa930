--------------------------- MODULE OperationalData ---------------------------
(***************************************************************************)
(* Local copies of what upstream knows (src/app/services/operational_data  *)
(* .py), the views derived from them (usage_segmentation.py,               *)
(* group_usage.py) and the refresh that every mutation starts with.        *)
(*                                                                         *)
(* The scheduler that samples, the schedulers that derive the views and the*)
(* threads that serve mutations run side by side without a lock.  A        *)
(* snapshot carries the moment its collection began, observed, and is the  *)
(* latest of its source when that moment is.  The model adds when upstream *)
(* was really read, which the program does not know.                       *)
(***************************************************************************)
EXTENDS Integers, Sequences, FiniteSets

CONSTANTS
    Bases,       \* sources that are read independently, all at once
    Derived,     \* sources that are read for each item of a base
    Base,        \* the base of each derived source
    Viewed,      \* the source that the derived view is built from
    Quick,       \* the bases that a quick refresh is content with
    Threads,     \* those that collect
    MaxBegun     \* bound on the collections

OperationalDataAssumption ==
    /\ Bases \cap Derived = {} /\ Viewed \in Derived /\ Quick \subseteq Bases
    /\ Base \in [Derived -> Bases] /\ MaxBegun \in Nat

AllSources == Bases \cup Derived

VARIABLES
    clock,     \* counts the collections that have begun: the current moment
    latest,    \* the latest snapshot of each source
    view,      \* the stored usage segments: when the usage they show was read
    thread,    \* the collecting threads
    viewer     \* the scheduler of the view: what it has read and not yet stored

vars == <<clock, latest, view, thread, viewer>>

Never == 0
Moments == Never..MaxBegun
None == [observed |-> Never, read |-> Never]
Idle == [pc |-> "idle", mutation |-> FALSE, wants |-> {}, began |-> Never, got |-> <<>>,
         unsaved |-> {}]

TypeOK ==
    /\ clock \in Moments
    /\ latest \in [AllSources -> [observed : Moments, read : Moments]]
    /\ view \in Moments /\ viewer \in Moments
    /\ DOMAIN thread = Threads
    /\ \A t \in Threads :
          /\ DOMAIN thread[t].got \subseteq AllSources /\ thread[t].began \in Moments
          /\ thread[t].unsaved \subseteq AllSources

Init ==
    /\ clock = Never
    /\ latest = [s \in AllSources |-> None]
    /\ view = Never /\ viewer = Never
    /\ thread = [t \in Threads |-> Idle]

-----------------------------------------------------------------------------

At(t, pc) == thread[t].pc = pc
Become(t, local) == thread' = [thread EXCEPT ![t] = local]
Goto(t, pc) == Become(t, [thread[t] EXCEPT !.pc = pc])

\* What a fetch has brought: when it was read, or nothing.
Failed == -1
Got(t, s) == thread[t].got[s]
Fetched(t, S) == S \subseteq DOMAIN thread[t].got

\* The scheduler and most mutations collect everything; a credit policy that scans for low
\* balances only has the users read again.
Begin(t, mutation, wants) ==
    /\ At(t, "idle")
    /\ clock < MaxBegun /\ clock' = clock + 1
    /\ Become(t, [Idle EXCEPT !.pc = "fetch", !.mutation = mutation, !.wants = wants,
                             !.began = clock'])
    /\ UNCHANGED <<latest, view, viewer>>

\* A source that cannot be read is reported as failed, and the others go on.  A derived
\* source waits for all the bases.
Fetch(t, s) ==
    /\ At(t, "fetch") /\ s \in thread[t].wants \ DOMAIN thread[t].got
    /\ s \in Derived => Fetched(t, Bases)
    /\ \E answer \in {clock, Failed} :
          Become(t, [thread[t] EXCEPT !.got =
              [x \in DOMAIN @ \cup {s} |-> IF x = s THEN answer ELSE @[x]]])
    /\ UNCHANGED <<clock, latest, view, viewer>>

\* A source that failed keeps the snapshot it has.
Saved(t) == {s \in thread[t].wants : Got(t, s) # Failed}

EndFetch(t) ==
    /\ At(t, "fetch") /\ Fetched(t, thread[t].wants)
    /\ Become(t, [thread[t] EXCEPT !.pc = "save", !.unsaved = Saved(t)])
    /\ UNCHANGED <<clock, latest, view, viewer>>

\* Mutation of Supersedes: the snapshot that was stored last.
SupersedesLast(observed, s) == TRUE

\* Ordered by observed, then collected, then by when they were stored.
Supersedes(observed, s) == observed >= latest[s].observed

\* What a failed base leaves for its derived source is an empty mapping, read from nowhere.
Save(t, s) ==
    /\ At(t, "save") /\ s \in thread[t].unsaved
    /\ LET l == thread[t]
           blank == s \in Derived /\ Got(t, Base[s]) = Failed
           read == IF blank \/ Got(t, s) = Failed THEN Never ELSE Got(t, s)
       IN  /\ latest' = IF Supersedes(l.began, s)
                        THEN [latest EXCEPT ![s] = [observed |-> l.began, read |-> read]]
                        ELSE latest
           /\ Become(t, [l EXCEPT !.unsaved = @ \ {s}])
    /\ UNCHANGED <<clock, view, viewer>>

\* A mutation is given up unless every source was read.
Clean(t) == \A s \in thread[t].wants : Got(t, s) # Failed

EndSave(t) ==
    /\ At(t, "save") /\ thread[t].unsaved = {}
    /\ IF thread[t].mutation /\ Clean(t)
       THEN Goto(t, IF thread[t].wants = AllSources THEN "read view" ELSE "mutate")
       ELSE Become(t, Idle)
    /\ UNCHANGED <<clock, latest, view, viewer>>

\* The derived view is rebuilt: the latest usage is read, the segments stored.
ReadForView(t) ==
    /\ At(t, "read view")
    /\ Become(t, [thread[t] EXCEPT !.pc = "store view", !.got = [s \in {Viewed} |-> latest[s].read]])
    /\ UNCHANGED <<clock, latest, view, viewer>>

StoreView(t) ==
    /\ At(t, "store view")
    /\ view' = Got(t, Viewed)
    /\ Goto(t, "mutate")
    /\ UNCHANGED <<clock, latest, viewer>>

\* The mutation reads the snapshots and the view and acts on them.
Mutate(t) ==
    /\ At(t, "mutate")
    /\ Become(t, Idle)
    /\ UNCHANGED <<clock, latest, view, viewer>>

\* The store raises, or the process dies.
Stops(t) ==
    /\ ~At(t, "idle")
    /\ Become(t, Idle)
    /\ UNCHANGED <<clock, latest, view, viewer>>

-----------------------------------------------------------------------------

\* The scheduler of the view reads the latest usage, and stores the segments later.
ViewerReads ==
    /\ viewer = Never
    /\ viewer' = latest[Viewed].read
    /\ UNCHANGED <<clock, latest, view, thread>>

ViewerStores ==
    /\ viewer # Never
    /\ view' = viewer /\ viewer' = Never
    /\ UNCHANGED <<clock, latest, thread>>

Next ==
    \/ \E t \in Threads :
          \/ \E mutation \in BOOLEAN : Begin(t, mutation, AllSources)
          \/ Begin(t, TRUE, Quick)
          \/ \E s \in AllSources : Fetch(t, s) \/ Save(t, s)
          \/ EndFetch(t) \/ EndSave(t) \/ ReadForView(t) \/ StoreView(t) \/ Mutate(t) \/ Stops(t)
    \/ ViewerReads \/ ViewerStores

Spec == Init /\ [][Next]_vars

-----------------------------------------------------------------------------
(* Properties.                                                             *)

(***************************************************************************)
(* A mutation acts on snapshots that were read from upstream after it had  *)
(* begun, whatever other collections, slower, earlier or failing, store    *)
(* meanwhile.                                                              *)
(***************************************************************************)
MutationsReadFresh ==
    \A t \in Threads :
        At(t, "mutate") =>
            \A s \in Bases \cap thread[t].wants : latest[s].read >= thread[t].began
=============================================================================
