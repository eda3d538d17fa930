----------------------------- MODULE UsageCrawl -----------------------------
(***************************************************************************)
(* Reading the usage rows of one day from the upstream service:            *)
(* Sub2APIClient.list_usage_logs (src/app/clients/sub2api.py).  The listing*)
(* is paged, newest row first, and rows are added while it is read.  A full*)
(* crawl fetches pages in concurrent waves; while the day lasts, later     *)
(* crawls read only down to the newest row of the cached ones; a day that  *)
(* is over is cached for good, half an hour after midnight.                *)
(*                                                                         *)
(* Rows are numbered in the order they appear upstream, so that the listing*)
(* is rows, rows - 1, ..., 1.                                              *)
(***************************************************************************)
EXTENDS Integers, Sequences, FiniteSets, FiniteSetsExt, Functions

CONSTANTS
    Threads,
    PageSize,
    Width,      \* page_fetch_concurrency
    MaxItems,   \* usage_log_max_items; zero for no limit
    MaxPages,   \* CURRENT_DAY_INCREMENTAL_MAX_PAGES
    MaxRows     \* bound on the rows of the day

CrawlAssumption ==
    /\ PageSize \in Nat \ {0} /\ Width \in Nat \ {0} /\ MaxPages \in Nat \ {0}
    /\ MaxItems \in Nat /\ MaxRows \in Nat

VARIABLES
    rows,       \* how many rows the day has upstream
    day,        \* "open", "grace" for the half hour after midnight, "closed"
    today,      \* _current_day_usage_cache: its items
    past,       \* _usage_log_cache: its items, or NoCache
    thread,
    \* History.
    shifted,    \* a row was added between a page and an earlier one of the same wave
    lapped      \* the rows of a day were cached with a newer one below the first

vars == <<rows, day, today, past, thread, shifted, lapped>>

NoCache == <<0>>

\* The pages are those read so far, each with the number of rows the listing had then.
Idle == [pc |-> "idle", window |-> "open", from |-> 0, page |-> 1, pending |-> {},
         pages |-> <<>>, items |-> <<>>, cached |-> <<>>]

TypeOK ==
    /\ rows \in 0..MaxRows
    /\ day \in {"open", "grace", "closed"}
    /\ Range(today) \subseteq 1..rows
    /\ past = NoCache \/ Range(past) \subseteq 1..rows
    /\ \A t \in Threads : thread[t].from \in 0..rows /\ Range(thread[t].items) \subseteq 1..rows

Init ==
    /\ rows = 0 /\ day = "open"
    /\ today = <<>> /\ past = NoCache
    /\ thread = [t \in Threads |-> Idle]
    /\ shifted = FALSE /\ lapped = FALSE

-----------------------------------------------------------------------------

At(t, pc) == thread[t].pc = pc
Become(t, local) == thread' = [thread EXCEPT ![t] = local]

\* How many rows a page shows of a listing of n.
OnPage(p, n) ==
    LET left == n - (p - 1) * PageSize
    IN  IF left < 0 THEN 0 ELSE IF left < PageSize THEN left ELSE PageSize

Short(p, n) == OnPage(p, n) < PageSize

\* The first n rows on some pages.
RowAt(pages, i) == pages[(i - 1) \div PageSize + 1] - i + 1
Merged(pages, n) == [i \in 1..n |-> RowAt(pages, i)]

Limited(n) == MaxItems > 0 /\ n >= MaxItems
Capped(items) == Limited(Len(items))
LastPage == (MaxItems + PageSize - 1) \div PageSize

\* A row is added while pages of a wave are being fetched.
Arrive ==
    /\ rows < MaxRows /\ day # "closed"
    /\ rows' = rows + 1
    /\ shifted' = (shifted \/ \E t \in Threads :
                       At(t, "wave") /\ \E p \in thread[t].pending :
                           \E q \in DOMAIN thread[t].pages : p < q)
    /\ UNCHANGED <<day, today, past, thread, lapped>>

Midnight ==
    /\ \/ day = "open" /\ day' = "grace"
       \/ day = "grace" /\ day' = "closed"
    /\ UNCHANGED <<rows, today, past, thread, shifted, lapped>>

-----------------------------------------------------------------------------

\* Mutation of Immutable: a day is immutable as soon as it is over.
ImmutableAtMidnight == day # "open"

Immutable == day = "closed"

\* The pages of a wave that begins at a page.
Wave(first) ==
    {p \in first..(first + Width - 1) : MaxItems > 0 => p <= LastPage}

FullCrawl(local) == [local EXCEPT !.pc = "wave", !.page = 1, !.pending = Wave(1),
                                  !.pages = <<>>]

\* list_usage_logs: the window decides which cache is tried first.
Start(t) ==
    /\ At(t, "idle")
    /\ LET window == IF Immutable THEN "closed" ELSE day
           local == [Idle EXCEPT !.window = window, !.from = rows]
       IN  Become(t, IF window = "closed" /\ past # NoCache
                     THEN [local EXCEPT !.pc = "answer", !.items = past]
                     ELSE IF window = "open" /\ today # <<>>
                     THEN [local EXCEPT !.pc = "incremental", !.cached = today]
                     ELSE FullCrawl(local))
    /\ UNCHANGED <<rows, day, today, past, shifted, lapped>>

\* The pages with one more, read now.
Reading(pages, p) == [q \in DOMAIN pages \cup {p} |-> IF q = p THEN rows ELSE pages[q]]

Fetch(t, p) ==
    /\ At(t, "wave") /\ p \in thread[t].pending
    /\ Become(t, [thread[t] EXCEPT !.pending = @ \ {p}, !.pages = Reading(@, p)])
    /\ UNCHANGED <<rows, day, today, past, shifted, lapped>>

Answer(local, items) == [local EXCEPT !.pc = "answer", !.pages = <<>>, !.items = items]

\* The pages of a wave at which a crawl ends, if those before are full.
Ends(l) == {p \in Wave(l.page) : Short(p, l.pages[p]) \/ Limited(p * PageSize)}

\* The rows up to a page, those before being full.
Until(l, last) == Merged(l.pages, (last - 1) * PageSize + OnPage(last, l.pages[last]))

EndWave(t) ==
    /\ At(t, "wave") /\ thread[t].pending = {}
    /\ LET l == thread[t]
           next == l.page + Width
       IN  Become(t, IF Wave(l.page) = {}
                     THEN Answer(l, Merged(l.pages, (l.page - 1) * PageSize))
                     ELSE IF Ends(l) # {}
                     THEN Answer(l, Until(l, Min(Ends(l))))
                     ELSE [l EXCEPT !.page = next, !.pending = Wave(next)])
    /\ UNCHANGED <<rows, day, today, past, shifted, lapped>>

\* The items at some positions, in their order.
Picked(items, P) ==
    [n \in 1..Cardinality(P) |->
        items[CHOOSE i \in P : Cardinality({j \in P : j < i}) = n - 1]]

\* Mutation of Fresh: only the page that holds the newest cached row is looked at.
FreshOfPage(l, pages, at) ==
    Picked(Merged(pages, at - 1),
           {i \in 1..(at - 1) : (l.page - 1) * PageSize < i
                                /\ RowAt(pages, i) \notin Range(l.cached)})

\* The rows above the newest cached one, at a position.
Fresh(l, pages, at) ==
    Picked(Merged(pages, at - 1),
           {i \in 1..(at - 1) : RowAt(pages, i) \notin Range(l.cached)})

\* _incremental_current_day_crawl: one page.
FetchIncremental(t) ==
    /\ At(t, "incremental")
    /\ LET l == thread[t]
           pages == Reading(l.pages, l.page)
           at == rows - l.cached[1] + 1
           above == (l.page - 1) * PageSize
       IN  Become(t, IF above < at /\ at <= above + OnPage(l.page, rows)
                     THEN Answer(l, Fresh(l, pages, at) \o l.cached)
                     ELSE IF Short(l.page, rows)
                     THEN Answer(l, Merged(pages, above + OnPage(l.page, rows)))
                     ELSE IF l.page = MaxPages
                     THEN FullCrawl(l)
                     ELSE [l EXCEPT !.page = @ + 1, !.pages = pages])
    /\ UNCHANGED <<rows, day, today, past, shifted, lapped>>

Kept(items) == IF Capped(items) THEN SubSeq(items, 1, MaxItems) ELSE items

\* _finish_usage_log_result: the result is cut to the limit, cached and returned.
Finish(t) ==
    /\ At(t, "answer")
    /\ LET l == thread[t] IN
          /\ today' = IF l.window = "open" THEN Kept(l.items) ELSE today
          /\ past' = IF l.window = "closed" THEN Kept(l.items) ELSE past
    /\ lapped' = (lapped \/ \E i \in DOMAIN today' : today'[i] > today'[1])
    /\ Become(t, Idle)
    /\ UNCHANGED <<rows, day, shifted>>

\* A page cannot be read: the crawl is given up.
Fails(t) ==
    /\ At(t, "wave") \/ At(t, "incremental")
    /\ Become(t, Idle)
    /\ UNCHANGED <<rows, day, today, past, shifted, lapped>>

Next ==
    \/ Arrive \/ Midnight
    \/ \E t \in Threads :
          \/ Start(t) \/ EndWave(t) \/ FetchIncremental(t) \/ Finish(t) \/ Fails(t)
          \/ \E p \in thread[t].pending : Fetch(t, p)

Spec == Init /\ [][Next]_vars

-----------------------------------------------------------------------------
(* Properties.                                                             *)

\* No row between the newest one a crawl has to have and the oldest it has is missing, and
\* older ones are missing only when the result has reached its limit.
Gapless(l) ==
    LET items == Kept(l.items)
        oldest == IF items = <<>> THEN l.from + 1 ELSE Min(Range(items))
    IN  /\ oldest..l.from \subseteq Range(items)
        /\ oldest > 1 => Capped(items)

(***************************************************************************)
(* The comment of _crawl_usage_pages: the merged result of the waves is    *)
(* that of a sequential crawl, which reads a row twice at worst.  No crawl *)
(* loses a row that existed when it began.                                 *)
(***************************************************************************)
WavesLoseNothing == \A t \in Threads : At(t, "answer") => Gapless(thread[t])

(***************************************************************************)
(* A row is lost only because another one was added while an earlier page  *)
(* of a wave was fetched after a later one, or because more rows than it   *)
(* had read were added during a crawl: neither the splicing of new rows    *)
(* into the cached ones, nor crawls that overwrite each other's cache, nor *)
(* the fall back to a full crawl, nor the limit make a gap on their own.   *)
(***************************************************************************)
OnlyWavesLose == shifted \/ lapped \/ WavesLoseNothing

(***************************************************************************)
(* What is answered for a day that is over and settled has every row of the*)
(* day exactly once, up to the limit, even when crawls began before.       *)
(***************************************************************************)
ClosedDaysAreExact ==
    \A t \in Threads :
        day = "closed" /\ At(t, "answer") /\ thread[t].window = "closed" =>
            LET items == Kept(thread[t].items)
            IN  \A i \in DOMAIN items : items[i] = rows - i + 1
                /\ (Len(items) < rows => Capped(items))
=============================================================================
