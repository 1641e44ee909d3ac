----------------------------- MODULE HttpHistory -----------------------------
(***************************************************************************)
(* /history: the decimating range query (History::range_core), the         *)
(* pagination contexts of the HttpServer and the dashboard that fetches    *)
(* page after page (app.js, _fetchHistoryFor).                             *)
(*                                                                         *)
(* The HTTP thread serves one request at a time, but the dispatcher thread *)
(* appends and purges samples between its two queries of a request, and    *)
(* the sweep timer may evict the context between two requests.  One load   *)
(* of one battery is followed: loads share nothing but the sweep.  A       *)
(* sample is its time stamp; a page is a set of them, newest first.        *)
(***************************************************************************)
EXTENDS Integers, FiniteSets

CONSTANTS
    Now,        \* the time the load starts; samples before it are 0..Now-1
    MaxCount,   \* bound: the largest page a client asks for
    TTL,        \* kCtxTtlSec, in ticks
    NoCtx       \* no pagination context under this req_id

ASSUME TimeAssumption  == Now \in Nat /\ TTL \in Nat
ASSUME CountAssumption == MaxCount \in Nat \ {0}
ASSUME NoCtxAssumption ==
    NoCtx \notin [start : 0..Now, end : 0..Now, age : 0..TTL]

VARIABLES
    samples,    \* the battery's rows in the samples table
    window,     \* time_start and time_end of the load
    count,      \* points per page the client asked for
    ctx,        \* ctxs_[req_id]
    pc,         \* "asking", "query", "probe", "reply", "done" or "gone"
    page,       \* the rows of the current request
    end,        \* the time_end of the current request
    got,        \* what the client has put together
    evicted     \* the sweep took the context away during the load

vars == <<samples, window, count, ctx, pc, page, end, got, evicted>>

Times    == 0..Now
Contexts == [start : Times, end : Times, age : 0..TTL]

-----------------------------------------------------------------------------
(* History::range_core *)

Newer(t, rows) == {u \in rows : u > t}

\* LIMIT n of the rows, newest first.
Limit(rows, n) == {t \in rows : Cardinality(Newer(t, rows)) < n}

\* Faulty variant of Within: the row at the upper bound belongs to it.
WithinClosed(rows, from, to) == {t \in rows : from <= t /\ t <= to}

Within(rows, from, to) == {t \in rows : from <= t /\ t < to}

\* Faulty variant of Decimated: the oldest row stands for its bucket.
DecimatedOldest(rows, from, step) ==
    {t \in rows : \A u \in rows \ Newer(t, rows) :
                      u # t => (u - from) \div step # (t - from) \div step}

\* The newest row of each bucket of `step' ticks, counted from `from'.
Decimated(rows, from, step) ==
    {t \in rows : \A u \in Newer(t, rows) :
                      (u - from) \div step # (t - from) \div step}

range_core(rows, from, to, limit, step) ==
    LET inside == Within(rows, from, to)
    IN  Limit(IF step > 0 THEN Decimated(inside, from, step) ELSE inside, limit)

\* step_ms of both handlers: integer division, 0 for an empty window.
Step(from, to) == IF to > from THEN (to - from) \div count ELSE 0

Back(rows) == CHOOSE t \in rows : \A u \in rows : t <= u     \* data.back().ts

-----------------------------------------------------------------------------

Init ==
    /\ samples \in SUBSET (0..(Now - 1))
    /\ window \in [from : Times, to : Times]
    /\ count \in 1..MaxCount
    /\ ctx = NoCtx
    /\ pc = "query"
    /\ page = {}
    /\ end = window.to
    /\ got = {}
    /\ evicted = FALSE

\* The first query of handle_history_initial() and handle_history_next().
Query ==
    /\ pc = "query"
    /\ page' = range_core(samples, window.from, end, count, Step(window.from, end))
    /\ pc' = "probe"
    /\ UNCHANGED <<samples, window, count, ctx, end, got, evicted>>

\* The second query: are there rows older than the page?  With one the context
\* is stored or moved on and lives for another TTL, without it is dropped.
Probe ==
    /\ pc = "probe"
    /\ ctx' = IF page # {} /\ range_core(samples, window.from, Back(page), 1, 0) # {}
                THEN [start |-> window.from, end |-> Back(page), age |-> 0]
                ELSE NoCtx
    /\ pc' = "reply"
    /\ UNCHANGED <<samples, window, count, page, end, got, evicted>>

\* The client adds the page and asks for another one after a full page.
Reply ==
    /\ pc = "reply"
    /\ got' = got \cup page
    /\ pc' = IF Cardinality(page) = count THEN "asking" ELSE "done"
    /\ UNCHANGED <<samples, window, count, ctx, page, end, evicted>>

\* ?next: 404 without a context, which ends the load.
AskNext ==
    /\ pc = "asking"
    /\ IF ctx = NoCtx
         THEN /\ pc' = "done"
              /\ UNCHANGED end
         ELSE /\ pc' = "query"
              /\ end' = ctx.end
    /\ UNCHANGED <<samples, window, count, ctx, page, got, evicted>>

\* The browser leaves the page; a request that is being served is finished.
Leave ==
    /\ pc \in {"asking", "done"}
    /\ pc' = "gone"
    /\ UNCHANGED <<samples, window, count, ctx, page, end, got, evicted>>

\* Time passes for the context, between requests.
Age ==
    /\ pc \in {"asking", "done", "gone"}
    /\ ctx # NoCtx /\ ctx.age < TTL
    /\ ctx' = [ctx EXCEPT !.age = @ + 1]
    /\ UNCHANGED <<samples, window, count, pc, page, end, got, evicted>>

\* Faulty variant of Sweep: a context is evicted one tick after its time, when
\* nothing ages it any more.
SweepLate ==
    /\ pc \in {"asking", "done", "gone"}
    /\ ctx # NoCtx /\ ctx.age > TTL
    /\ ctx' = NoCtx
    /\ evicted' = TRUE
    /\ UNCHANGED <<samples, window, count, pc, page, end, got>>

\* on_sweep(): contexts past their time are evicted.
Sweep ==
    /\ pc \in {"asking", "done", "gone"}
    /\ ctx # NoCtx /\ ctx.age >= TTL
    /\ ctx' = NoCtx
    /\ evicted' = TRUE
    /\ UNCHANGED <<samples, window, count, pc, page, end, got>>

\* The dispatcher thread appends a sample or purges old ones, at any time.
Write ==
    /\ \/ samples' = samples \cup {Now}
       \/ \E t \in Times : samples' = {u \in samples : u >= t}
    /\ samples' # samples
    /\ UNCHANGED <<window, count, ctx, pc, page, end, got, evicted>>

Next == Query \/ Probe \/ Reply \/ AskNext \/ Leave \/ Age \/ Sweep \/ Write

Spec == Init /\ [][Next]_vars

\* The HTTP thread serves requests and the sweep timer; time passes; the client
\* goes on unless it leaves.
FairSpec ==
    /\ Spec
    /\ WF_vars(Query \/ Probe \/ Reply \/ AskNext)
    /\ WF_vars(Age) /\ WF_vars(Sweep)

-----------------------------------------------------------------------------
(* Properties *)

\* Every variable has its type.
TypeOK ==
    /\ samples \subseteq Times
    /\ window \in [from : Times, to : Times]
    /\ count \in 1..MaxCount
    /\ ctx \in Contexts \cup {NoCtx}
    /\ pc \in {"asking", "query", "probe", "reply", "done", "gone"}
    /\ page \subseteq Times
    /\ end \in Times
    /\ got \subseteq Times
    /\ evicted \in BOOLEAN

\* tests/history_test.cpp PaginationNoOverlap, for any window, page size and
\* concurrent writes: a page never repeats a row or reaches above an earlier one.
PagesDescend ==
    /\ pc \in {"probe", "reply"} => \A t \in page, u \in got : t < u
    /\ ctx # NoCtx /\ pc \in {"asking", "done", "gone"} =>
           \A u \in got : ctx.end <= u

\* A load that ended by itself with its context in time shows the whole window
\* at the resolution asked for: every row that is still stored has a fetched row
\* at most one decimation step newer, gaps and purges notwithstanding.
WindowIsCovered ==
    pc = "done" /\ ~evicted =>
        LET step == Step(window.from, window.to)
        IN  \A t \in Within(samples, window.from, window.to) :
                \E u \in got : t <= u /\ (u = t \/ u - t < step)

\* The page loop of the dashboard ends, though every page makes the server
\* recompute its step for the rest of the window.
LoadEnds == <>(pc \in {"done", "gone"})

\* A context nobody asks for any more does not stay in ctxs_.
ContextIsEvicted == <>[](ctx = NoCtx)
=============================================================================
