------------------------- MODULE HttpHistoryProofs ---------------------------
(***************************************************************************)
(* Theorems about HttpHistory, for every window, page size, time to live   *)
(* and any samples written or purged while a load is under way: a page     *)
(* never repeats a row or reaches above an earlier one, and together the   *)
(* pages show the whole window.                                            *)
(***************************************************************************)
EXTENDS HttpHistory, FiniteSetTheorems, WellFoundedInduction, TLAPS

-----------------------------------------------------------------------------
(* Sets of times *)

LEMMA RangeIsWithin ==
    ASSUME NEW rows, NEW from, NEW to, NEW limit, NEW step
    PROVE  range_core(rows, from, to, limit, step) \subseteq Within(rows, from, to)
BY DEF range_core, Limit, Decimated

\* Rows are times, so that a page has a last one.
LEMMA LastRow ==
    ASSUME NEW rows \in SUBSET Nat, rows # {}
    PROVE  Back(rows) \in rows /\ \A u \in rows : Back(rows) <= u
<1>1. PICK t \in rows : \A u \in rows : <<u, t>> \notin OpToRel(<, Nat)
  BY NatLessThanWellFounded, WFMin
<1>2. \A u \in rows : ~(u < t)
  BY <1>1 DEF OpToRel
<1>3. \E row \in rows : \A u \in rows : row <= u
  BY <1>2
<1>4. QED  BY <1>3 DEF Back

LEMMA FirstRow ==
    ASSUME NEW rows \in SUBSET Times, rows # {}
    PROVE  \E t \in rows : \A u \in rows : u <= t
<1> DEFINE ages == {Now - t : t \in rows}
<1>a. \A t \in rows : t \in Nat /\ Now - t \in Nat
  BY TimeAssumption DEF Times
<1>1. ages \in SUBSET Nat /\ ages # {}
  BY <1>a
<1>2. Back(ages) \in ages /\ \A a \in ages : Back(ages) <= a
  BY <1>1, LastRow
<1>3. PICK t \in rows : Back(ages) = Now - t
  BY <1>2
<1>4. \A u \in rows : Now - t <= Now - u
  BY <1>2, <1>3
<1>5. \A u \in rows : u <= t
  BY <1>a, <1>4, TimeAssumption
<1>6. QED  BY <1>5

-----------------------------------------------------------------------------
(* Types *)

LEMMA InitType == Init => TypeOK
<1> SUFFICES ASSUME Init PROVE TypeOK
  OBVIOUS
<1>1. (0..(Now - 1)) \subseteq Times
  BY TimeAssumption DEF Times
<1>2. samples \subseteq Times
  BY <1>1 DEF Init
<1>3. end \in Times /\ window \in [from : Times, to : Times]
  BY DEF Init
<1>4. QED  BY <1>2, <1>3 DEF Init, TypeOK

LEMMA PageType ==
    ASSUME TypeOK, NEW from, NEW to, NEW limit, NEW step
    PROVE  range_core(samples, from, to, limit, step) \in SUBSET Times
BY RangeIsWithin DEF TypeOK, Within

LEMMA PageEnds ==
    ASSUME TypeOK, page # {}
    PROVE  Back(page) \in page /\ Back(page) \in Times /\ \A t \in page : Back(page) <= t
<1>1. page \in SUBSET Nat
  BY TimeAssumption DEF TypeOK, Times
<1>2. QED  BY <1>1, LastRow DEF TypeOK

LEMMA TypeInductive == TypeOK /\ [Next]_vars => TypeOK'
<1> SUFFICES ASSUME TypeOK, [Next]_vars PROVE TypeOK'
  OBVIOUS
<1>1. CASE Query
  <2>1. page' \in SUBSET Times
    BY <1>1, PageType DEF Query
  <2>2. QED  BY <1>1, <2>1 DEF Query, TypeOK, Contexts
<1>2. CASE Probe
  <2>1. ctx' \in Contexts \cup {NoCtx}
    <3>1. CASE page # {}
      <4>1. [start |-> window.from, end |-> Back(page), age |-> 0] \in Contexts
        BY <3>1, PageEnds, TimeAssumption DEF TypeOK, Contexts
      <4>2. QED  BY <1>2, <4>1 DEF Probe
    <3>2. CASE page = {}
      BY <1>2, <3>2 DEF Probe
    <3>3. QED  BY <3>1, <3>2
  <2>2. QED  BY <1>2, <2>1 DEF Probe, TypeOK, Contexts
<1>3. CASE Reply
  BY <1>3 DEF Reply, TypeOK, Contexts
<1>4. CASE AskNext
  BY <1>4 DEF AskNext, TypeOK, Contexts
<1>5. CASE Leave
  BY <1>5 DEF Leave, TypeOK, Contexts
<1>6. CASE Age
  <2>1. ctx' \in Contexts
    BY <1>6, TimeAssumption DEF Age, TypeOK, Contexts
  <2>2. QED  BY <1>6, <2>1 DEF Age, TypeOK, Contexts
<1>7. CASE Sweep
  BY <1>7 DEF Sweep, TypeOK, Contexts
<1>8. CASE Write
  <2>a. Now \in Times
    BY TimeAssumption DEF Times
  <2>1. samples' \subseteq Times
    BY <1>8, <2>a DEF Write, TypeOK
  <2>2. QED  BY <1>8, <2>1 DEF Write, TypeOK, Contexts
<1>9. CASE UNCHANGED vars
  BY <1>9 DEF vars, TypeOK, Contexts
<1>10. QED  BY <1>1, <1>2, <1>3, <1>4, <1>5, <1>6, <1>7, <1>8, <1>9 DEF Next

\* The tables, the pages and the contexts keep their types, for every window.
THEOREM TypeCorrect == Spec => []TypeOK
<1>1. Init => TypeOK
  BY InitType
<1>2. TypeOK /\ [Next]_vars => TypeOK'
  BY TypeInductive
<1>3. QED  BY <1>1, <1>2, PTL DEF Spec

-----------------------------------------------------------------------------
(* Pages descend *)

\* What has been fetched is not below what the request under way, or the next
\* one, asks for.
DescentInv ==
    /\ pc \in {"query", "probe", "reply"} => \A u \in got : end <= u
    /\ pc \in {"probe", "reply"} => \A t \in page : t < end
    /\ pc = "reply" /\ ctx # NoCtx =>
           ctx.end < end /\ \A t \in page : ctx.end <= t
    /\ ctx # NoCtx /\ pc \in {"asking", "done", "gone"} => \A u \in got : ctx.end <= u

LEMMA DescentInductive == TypeOK /\ DescentInv /\ [Next]_vars => DescentInv'
<1> SUFFICES ASSUME TypeOK, DescentInv, [Next]_vars PROVE DescentInv'
  OBVIOUS
<1>1. CASE Query
  <2>1. \A t \in page' : t < end
    BY <1>1, RangeIsWithin DEF Query, Within
  <2>2. QED  BY <1>1, <2>1 DEF Query, DescentInv
<1>2. CASE Probe
  <2>1. ctx' # NoCtx => page # {} /\ ctx'.end = Back(page)
    BY <1>2 DEF Probe
  <2>2. ctx' # NoCtx => ctx'.end < end /\ \A t \in page : ctx'.end <= t
    BY <1>2, <2>1, PageEnds DEF Probe, DescentInv
  <2>3. QED  BY <1>2, <2>2 DEF Probe, DescentInv
<1>3. CASE Reply
  <2>1. got' = got \cup page /\ ctx' = ctx /\ pc' \in {"asking", "done"} /\ pc = "reply"
    BY <1>3 DEF Reply
  <2>2. ASSUME ctx # NoCtx, NEW u \in got \cup page PROVE ctx.end <= u
    <3>1. CASE u \in page
      BY <2>1, <2>2, <3>1 DEF DescentInv
    <3>2. CASE u \in got
      <4>1. ctx.end < end /\ end <= u
        BY <2>1, <2>2, <3>2 DEF DescentInv
      <4>2. ctx.end \in Int /\ end \in Int /\ u \in Int
        BY <2>2, <3>2, TimeAssumption DEF TypeOK, Contexts, Times
      <4>3. QED  BY <4>1, <4>2
    <3>3. QED  BY <2>2, <3>1, <3>2
  <2>3. QED  BY <2>1, <2>2 DEF DescentInv
<1>4. CASE AskNext
  BY <1>4 DEF AskNext, DescentInv
<1>5. CASE Leave
  BY <1>5 DEF Leave, DescentInv
<1>6. CASE Age
  <2>1. ctx'.end = ctx.end /\ ctx # NoCtx
    BY <1>6 DEF Age, TypeOK, Contexts
  <2>2. QED  BY <1>6, <2>1 DEF Age, DescentInv
<1>7. CASE Sweep
  BY <1>7 DEF Sweep, DescentInv
<1>8. CASE Write
  BY <1>8 DEF Write, DescentInv
<1>9. CASE UNCHANGED vars
  BY <1>9 DEF vars, DescentInv
<1>10. QED  BY <1>1, <1>2, <1>3, <1>4, <1>5, <1>6, <1>7, <1>8, <1>9 DEF Next

\* The cursor of handle_history_next() only moves down, past every row that the
\* client has: no page repeats a row or reaches above an earlier one.
THEOREM Descent == Spec => []PagesDescend
<1>1. Init => DescentInv
  BY DEF Init, DescentInv
<1>2. TypeOK /\ DescentInv => PagesDescend
  <2> SUFFICES ASSUME TypeOK, DescentInv PROVE PagesDescend
    OBVIOUS
  <2>1. ASSUME pc \in {"probe", "reply"}, NEW t \in page, NEW u \in got PROVE t < u
    <3>1. t < end /\ end <= u
      BY <2>1 DEF DescentInv
    <3>2. t \in Int /\ end \in Int /\ u \in Int
      BY <2>1, TimeAssumption DEF TypeOK, Times
    <3>3. QED  BY <3>1, <3>2
  <2>2. QED  BY <2>1 DEF DescentInv, PagesDescend
<1>3. QED  BY <1>1, <1>2, DescentInductive, TypeCorrect, PTL DEF Spec

-----------------------------------------------------------------------------
(* Steps and buckets *)

\* t is shown by u at a resolution of step.
Shows(u, t, step) == t <= u /\ (u = t \/ u - t < step)

\* A bucket is as wide as the step.
LEMMA Bucket ==
    ASSUME NEW x \in Nat, NEW y \in Nat, NEW step \in Nat \ {0},
           x \div step = y \div step
    PROVE  y - x < step
<1> DEFINE q == x \div step
<1>1. x = step * q + (x % step) /\ y = step * q + (y % step)
  OBVIOUS
<1>2. x % step \in 0..(step - 1) /\ y % step \in 0..(step - 1)
  OBVIOUS
<1>3. step * q \in Int
  OBVIOUS
<1> HIDE DEF q
<1>4. QED  BY <1>1, <1>2, <1>3

LEMMA DivGrows ==
    ASSUME NEW x \in Nat, NEW y \in Nat, x <= y, NEW n \in Nat \ {0}
    PROVE  x \div n \in Nat /\ x \div n <= y \div n
<1> DEFINE p == x \div n
           q == y \div n
<1>1. /\ x = n * p + (x % n) /\ x % n \in 0..(n - 1)
      /\ y = n * q + (y % n) /\ y % n \in 0..(n - 1)
      /\ p \in Nat /\ q \in Nat
  OBVIOUS
<1> HIDE DEF p, q
<1>2. ASSUME p >= q + 1 PROVE FALSE
  <2>1. n * p >= n * (q + 1) /\ n * (q + 1) = n * q + n
    BY <1>1, <1>2
  <2>2. n * p \in Int /\ n * q \in Int
    BY <1>1
  <2>3. QED  BY <1>1, <2>1, <2>2
<1>3. p <= q
  BY <1>1, <1>2
<1>4. QED  BY <1>1, <1>3 DEF p, q

\* The step of a page is no wider than the one of the whole window.
LEMMA StepShrinks ==
    ASSUME TypeOK, NEW to \in Times, to <= window.to
    PROVE  /\ Step(window.from, to) \in Nat
           /\ Step(window.from, to) <= Step(window.from, window.to)
<1>1. /\ window.from \in Nat /\ window.to \in Nat /\ to \in Nat
      /\ count \in Nat \ {0}
  BY TimeAssumption, CountAssumption DEF TypeOK, Times
<1>2. CASE to > window.from
  <2> DEFINE x == to - window.from
             y == window.to - window.from
  <2>1. x \in Nat /\ y \in Nat /\ x <= y /\ window.to > window.from
    BY <1>1, <1>2
  <2>2. x \div count \in Nat /\ x \div count <= y \div count
    BY <1>1, <2>1, DivGrows
  <2>3. QED  BY <1>2, <2>1, <2>2 DEF Step
<1>3. CASE ~(to > window.from)
  <2>1. Step(window.from, to) = 0
    BY <1>3 DEF Step
  <2>2. Step(window.from, window.to) \in Nat
    <3>1. CASE window.to > window.from
      <4>1. window.to - window.from \in Nat
        BY <1>1, <3>1
      <4>2. (window.to - window.from) \div count \in Nat
        BY <1>1, <4>1, DivGrows
      <4>3. QED  BY <3>1, <4>2 DEF Step
    <3>2. CASE ~(window.to > window.from)
      BY <3>2 DEF Step
    <3>3. QED  BY <3>1, <3>2
  <2>3. QED  BY <2>1, <2>2
<1>4. QED  BY <1>2, <1>3

\* Each row of the window has the newest row of its bucket, which represents it.
LEMMA Represented ==
    ASSUME NEW inside \in SUBSET Times, NEW from \in Times, NEW step \in Nat \ {0},
           NEW t \in inside, \A u \in inside : from <= u
    PROVE  \E u \in Decimated(inside, from, step) : Shows(u, t, step)
<1> DEFINE Same(u) == (u - from) \div step = (t - from) \div step
           bucket == {u \in inside : t <= u /\ Same(u)}
<1>1. from \in Nat /\ t \in Nat /\ \A u \in inside : u \in Nat /\ u - from \in Nat
  BY TimeAssumption DEF Times
<1>2. bucket \in SUBSET Times /\ t \in bucket
  <2>1. t <= t /\ Same(t)
    BY <1>1
  <2>2. QED  BY <2>1
<1>3. PICK u \in bucket : \A v \in bucket : v <= u
  BY <1>2, FirstRow
<1>4. u \in inside /\ t <= u /\ Same(u)
  BY <1>3
<1>5. ASSUME NEW v \in Newer(u, inside)
      PROVE  (v - from) \div step # (u - from) \div step
  <2>1. v \in inside /\ v > u /\ v >= t
    BY <1>1, <1>4, <1>5 DEF Newer
  <2>2. v \notin bucket
    BY <1>1, <1>3, <2>1
  <2>3. ~Same(v)
    BY <2>1, <2>2
  <2>4. QED  BY <1>4, <2>3
<1>6. u \in Decimated(inside, from, step)
  BY <1>4, <1>5 DEF Decimated
<1>7. (u - from) - (t - from) < step
  <2>1. u - from \in Nat /\ t - from \in Nat
    BY <1>1, <1>4
  <2>2. (t - from) \div step = (u - from) \div step
    BY <1>4
  <2>3. QED  BY <2>1, <2>2, Bucket
<1>8. u - t < step
  BY <1>1, <1>4, <1>7
<1>9. QED  BY <1>4, <1>6, <1>8 DEF Shows

LEMMA RowsAreFinite ==
    ASSUME NEW rows \in SUBSET Times
    PROVE  IsFiniteSet(rows) /\ Cardinality(rows) \in Nat
<1>1. IsFiniteSet(Times)
  BY FS_Interval, TimeAssumption DEF Times
<1>2. IsFiniteSet(rows)
  BY <1>1, FS_Subset
<1>3. QED  BY <1>2, FS_CardinalityType

\* With a limit, the newest rows are kept: all that are not older than a row that
\* is kept, and all if there are fewer.
LEMMA Kept ==
    ASSUME NEW rows \in SUBSET Times, NEW n \in Nat \ {0}, NEW u \in rows,
           \/ Cardinality(Limit(rows, n)) < n
           \/ \E p \in Limit(rows, n) : p <= u
    PROVE  u \in Limit(rows, n)
<1>1. \A t \in rows : t \in Nat
  BY TimeAssumption DEF Times
<1>2. CASE \E p \in Limit(rows, n) : p <= u
  <2>1. PICK p \in Limit(rows, n) : p <= u
    BY <1>2
  <2>2. p \in rows /\ Cardinality(Newer(p, rows)) < n
    BY <2>1 DEF Limit
  <2>3. Newer(u, rows) \subseteq Newer(p, rows)
    BY <1>1, <2>1, <2>2 DEF Newer
  <2>4. IsFiniteSet(Newer(p, rows)) /\ Cardinality(Newer(p, rows)) \in Nat
    BY RowsAreFinite DEF Newer
  <2>5. /\ Cardinality(Newer(u, rows)) <= Cardinality(Newer(p, rows))
        /\ Cardinality(Newer(u, rows)) \in Nat
    <3>1. Cardinality(Newer(u, rows)) <= Cardinality(Newer(p, rows))
      BY <2>3, <2>4, FS_Subset
    <3>2. QED  BY <3>1, RowsAreFinite DEF Newer
  <2>6. Cardinality(Newer(u, rows)) < n
    BY <2>2, <2>4, <2>5
  <2>7. QED  BY <2>6 DEF Limit
<1>3. CASE Cardinality(Limit(rows, n)) < n
  <2> SUFFICES ASSUME u \notin Limit(rows, n) PROVE FALSE
    OBVIOUS
  <2> DEFINE dropped == rows \ Limit(rows, n)
  <2>1. PICK d \in dropped : \A v \in dropped : v <= d
    BY FirstRow
  <2>2. Newer(d, rows) \subseteq Limit(rows, n)
    BY <1>1, <2>1 DEF Newer
  <2>3. Limit(rows, n) \subseteq rows
    BY DEF Limit
  <2>4. /\ IsFiniteSet(Limit(rows, n)) /\ Cardinality(Limit(rows, n)) \in Nat
        /\ Cardinality(Newer(d, rows)) \in Nat
    BY <2>3, RowsAreFinite DEF Newer
  <2>5. Cardinality(Newer(d, rows)) <= Cardinality(Limit(rows, n))
    BY <2>2, <2>4, FS_Subset
  <2>6. Cardinality(Newer(d, rows)) < n
    BY <1>3, <2>4, <2>5
  <2>7. d \in Limit(rows, n)
    BY <2>1, <2>6 DEF Limit
  <2>8. QED  BY <2>1, <2>7
<1>4. QED  BY <1>2, <1>3

\* LIMIT is a limit.
LEMMA LimitLimits ==
    ASSUME NEW rows \in SUBSET Times, NEW n \in Nat \ {0}
    PROVE  Cardinality(Limit(rows, n)) <= n
<1> DEFINE kept == Limit(rows, n)
<1>1. kept \subseteq rows
  BY DEF Limit
<1>2. CASE kept = {}
  BY <1>2, FS_EmptySet
<1>3. CASE kept # {}
  <2>a. Times \subseteq Nat
    BY TimeAssumption DEF Times
  <2>1. kept \in SUBSET Nat
    BY <1>1, <2>a
  <2> DEFINE b == Back(kept)
  <2> HIDE DEF kept
  <2>2. b \in kept /\ \A t \in kept : b <= t
    BY <1>3, <2>1, LastRow
  <2> HIDE DEF b
  <2>3. kept \ {b} \subseteq Newer(b, rows)
    BY <1>1, <2>1, <2>2 DEF Newer
  <2>4. Cardinality(Newer(b, rows)) < n
    BY <2>2 DEF kept, Limit
  <2>5. IsFiniteSet(Newer(b, rows)) /\ Cardinality(Newer(b, rows)) \in Nat
    BY RowsAreFinite DEF Newer
  <2>6. Cardinality(kept \ {b}) <= Cardinality(Newer(b, rows))
    BY <2>3, <2>5, FS_Subset
  <2>7. IsFiniteSet(kept) /\ Cardinality(kept) \in Nat
    BY <1>1, RowsAreFinite
  <2>8. Cardinality(kept \ {b}) = Cardinality(kept) - 1
    BY <2>2, <2>7, FS_RemoveElement
  <2>9. QED  BY <2>4, <2>5, <2>6, <2>7, <2>8 DEF kept
<1>4. QED  BY <1>2, <1>3

-----------------------------------------------------------------------------
(* Pages cover *)

Shown(t, rows, step) == \E u \in rows : Shows(u, t, step)

Whole == Step(window.from, window.to)

Inside == Within(samples, window.from, window.to)

\* What the client has, with the page under way, shows all rows down to where the
\* next request goes on, and all rows once there is none.
CoverInv ==
    /\ end <= window.to
    /\ ctx # NoCtx => ctx.end <= window.to
    /\ pc \in {"query", "probe", "reply"} =>
           \A t \in Inside : end <= t => Shown(t, got, Whole)
    /\ pc \in {"probe", "reply"} =>
           /\ Cardinality(page) <= count
           /\ \A t \in Inside : t < end =>
                  \/ Shown(t, page, Whole)
                  \/ page # {} /\ t < Back(page) /\ Cardinality(page) = count
    /\ pc = "reply" => IF ctx # NoCtx THEN page # {} /\ ctx.end = Back(page)
                       ELSE \A t \in Inside : Shown(t, got \cup page, Whole)
    /\ pc = "asking" /\ ctx # NoCtx => \A t \in Inside : ctx.end <= t => Shown(t, got, Whole)
    /\ pc = "asking" /\ ctx = NoCtx /\ ~evicted => \A t \in Inside : Shown(t, got, Whole)
    /\ pc = "done" /\ ~evicted => \A t \in Inside : Shown(t, got, Whole)

\* The rows of a page that was just read.
LEMMA PageShows ==
    ASSUME TypeOK, end <= window.to, NEW rows,
           rows = range_core(samples, window.from, end, count, Step(window.from, end))
    PROVE  /\ Cardinality(rows) <= count
           /\ \A t \in Inside : t < end =>
                  \/ Shown(t, rows, Whole)
                  \/ rows # {} /\ t < Back(rows) /\ Cardinality(rows) = count
<1> DEFINE step == Step(window.from, end)
           inside == Within(samples, window.from, end)
           all == IF step > 0 THEN Decimated(inside, window.from, step) ELSE inside
<1>1. /\ step \in Nat /\ step <= Whole /\ Whole \in Nat
  <2>1. end \in Times /\ window.to \in Times /\ window.to <= window.to
    BY TimeAssumption DEF TypeOK, Times
  <2>2. QED  BY <2>1, StepShrinks DEF Whole
<1>2. inside \in SUBSET Times /\ \A u \in inside : window.from <= u
  BY DEF TypeOK, Within
<1>3. all \in SUBSET Times /\ rows = Limit(all, count)
  BY <1>2 DEF range_core, Decimated
<1>4. count \in Nat \ {0} /\ Times \subseteq Nat /\ window.from \in Times /\ end \in Times
  BY CountAssumption, TimeAssumption DEF TypeOK, Times
<1> HIDE DEF step
<1>5. ASSUME NEW t \in Inside, t < end
      PROVE  \E u \in all : Shows(u, t, Whole)
  <2>1. t \in inside
    BY <1>5 DEF Inside, Within
  <2>2. CASE step > 0
    <3>a. step \in Nat \ {0}
      BY <1>1, <2>2
    <3>b. \E u \in Decimated(inside, window.from, step) : Shows(u, t, step)
      <4> HIDE DEF inside
      <4>1. QED  BY <1>2, <1>4, <2>1, <3>a, Represented
    <3>1. PICK u \in Decimated(inside, window.from, step) : Shows(u, t, step)
      BY <3>b
    <3>2. u \in Nat /\ t \in Nat /\ u \in all
      BY <1>2, <1>3, <1>4, <2>1, <2>2, <3>1
    <3>3. Shows(u, t, Whole)
      BY <1>1, <3>1, <3>2 DEF Shows
    <3>4. QED  BY <3>2, <3>3
  <2>3. CASE ~(step > 0)
    <3>1. t \in all /\ t \in Nat
      BY <1>2, <1>4, <2>1, <2>3
    <3>2. Shows(t, t, Whole)
      BY <3>1 DEF Shows
    <3>3. QED  BY <3>1, <3>2
  <2>4. QED  BY <2>2, <2>3
<1> HIDE DEF all
<1>6. Cardinality(rows) <= count
  BY <1>3, <1>4, LimitLimits
<1>7. Cardinality(rows) \in Nat /\ rows \in SUBSET Times
  BY <1>3, RowsAreFinite DEF Limit
<1>8. ASSUME NEW t \in Inside, t < end,
             ~(rows # {} /\ t < Back(rows) /\ Cardinality(rows) = count)
      PROVE  Shown(t, rows, Whole)
  <2>1. PICK u \in all : Shows(u, t, Whole)
    BY <1>5, <1>8
  <2>2. t \in Nat /\ u \in Nat /\ t <= u
    BY <1>3, <1>4, <2>1 DEF Inside, Within, TypeOK, Shows
  <2>3. u \in Limit(all, count)
    <3>1. CASE Cardinality(rows) < count
      BY <1>3, <1>4, <3>1, Kept
    <3>2. CASE Cardinality(rows) >= count
      <4>1. Cardinality(rows) = count
        BY <1>4, <1>6, <1>7, <3>2
      <4>2. rows # {}
        BY <1>4, <4>1, FS_EmptySet
      <4>3. Back(rows) \in rows /\ Back(rows) \in Nat
        BY <1>4, <1>7, <4>2, LastRow
      <4>4. Back(rows) <= u
        BY <1>8, <2>2, <4>1, <4>2, <4>3
      <4>5. QED  BY <1>3, <1>4, <4>3, <4>4, Kept
    <3>3. QED  BY <1>4, <1>7, <3>1, <3>2
  <2>4. QED  BY <1>3, <2>1, <2>3 DEF Shown
<1>9. QED  BY <1>6, <1>8

\* Nothing is older than a page if the second query finds nothing.
LEMMA ProbeFinds ==
    ASSUME TypeOK, NEW to, range_core(samples, window.from, to, 1, 0) = {}
    PROVE  Within(samples, window.from, to) = {}
<1> DEFINE inside == Within(samples, window.from, to)
<1>1. inside \in SUBSET Times /\ Limit(inside, 1) = {}
  BY DEF TypeOK, Within, range_core
<1>2. ASSUME NEW u \in inside PROVE FALSE
  <2>1. Cardinality(Limit(inside, 1)) < 1
    BY <1>1, FS_EmptySet
  <2> HIDE DEF inside
  <2>2. u \in Limit(inside, 1)
    BY <1>1, <1>2, <2>1, Kept
  <2>3. QED  BY <1>1, <2>2
<1>3. QED  BY <1>2

\* Rows that are purged, or appended at the end of time, need not be shown.
LEMMA InsideShrinks ==
    ASSUME TypeOK, Write
    PROVE  Inside' \subseteq Inside /\ Whole' = Whole
<1>1. /\ samples' \subseteq samples \cup {Now} /\ window' = window /\ count' = count
  BY DEF Write
<1>2. window.to <= Now /\ window.to \in Int /\ Now \in Int
  BY TimeAssumption DEF TypeOK, Times
<1>3. Now \notin Inside'
  BY <1>1, <1>2 DEF Inside, Within
<1>4. Inside' \subseteq Inside
  BY <1>1, <1>3 DEF Inside, Within
<1>5. QED  BY <1>1, <1>4 DEF Whole, Step

LEMMA SameWindow ==
    ASSUME UNCHANGED <<samples, window, count>>
    PROVE  Inside' = Inside /\ Whole' = Whole
BY DEF Inside, Whole, Step

LEMMA ShownByMore ==
    ASSUME NEW t, NEW rows, NEW more, NEW step, rows \subseteq more, Shown(t, rows, step)
    PROVE  Shown(t, more, step)
BY DEF Shown

LEMMA CoverInductive ==
    TypeOK /\ DescentInv /\ CoverInv /\ [Next]_vars => CoverInv'
<1> SUFFICES ASSUME TypeOK, DescentInv, CoverInv, [Next]_vars PROVE CoverInv'
  OBVIOUS
<1>a. /\ Times \subseteq Nat /\ end \in Nat /\ window.to \in Nat
      /\ Inside \subseteq Nat /\ page \in SUBSET Nat
  <2>1. Times \subseteq Nat
    BY TimeAssumption DEF Times
  <2>2. QED  BY <2>1 DEF TypeOK, Inside, Within
<1>1. CASE Query
  <2>1. /\ page' = range_core(samples, window.from, end, count, Step(window.from, end))
        /\ pc = "query" /\ pc' = "probe"
        /\ UNCHANGED <<samples, window, count, ctx, end, got, evicted>>
    BY <1>1 DEF Query
  <2>2. /\ Cardinality(page') <= count
        /\ \A t \in Inside : t < end =>
               \/ Shown(t, page', Whole)
               \/ page' # {} /\ t < Back(page') /\ Cardinality(page') = count
    BY <2>1, PageShows DEF CoverInv
  <2>3. Inside' = Inside /\ Whole' = Whole
    BY <2>1, SameWindow
  <2>4. QED  BY <2>1, <2>2, <2>3 DEF CoverInv
<1>2. CASE Probe
  <2>1. /\ pc = "probe" /\ pc' = "reply"
        /\ UNCHANGED <<samples, window, count, page, end, got, evicted>>
    BY <1>2 DEF Probe
  <2>2. Inside' = Inside /\ Whole' = Whole
    BY <2>1, SameWindow
  <2>3. ctx' # NoCtx => page # {} /\ ctx'.end = Back(page) /\ ctx'.end <= window.to
    <3>1. ctx' # NoCtx => page # {} /\ ctx'.end = Back(page)
      BY <1>2 DEF Probe
    <3>2. ASSUME page # {} PROVE Back(page) <= window.to
      <4>1. Back(page) \in page /\ Back(page) \in Nat
        BY <1>a, <3>2, LastRow
      <4>2. Back(page) < end /\ end <= window.to
        BY <2>1, <4>1 DEF DescentInv, CoverInv
      <4>3. QED  BY <1>a, <4>1, <4>2
    <3>3. QED  BY <3>1, <3>2
  <2>4. ASSUME ctx' = NoCtx, NEW t \in Inside PROVE Shown(t, got \cup page, Whole)
    <3>1. CASE end <= t
      <4>1. Shown(t, got, Whole)
        BY <2>1, <2>4, <3>1 DEF CoverInv
      <4>2. QED  BY <4>1, ShownByMore
    <3>2. CASE t < end
      <4>1. ~(page # {} /\ t < Back(page))
        <5>1. ASSUME page # {}, t < Back(page) PROVE FALSE
          <6>1. [start |-> window.from, end |-> Back(page), age |-> 0] # NoCtx
            BY <5>1, PageEnds, NoCtxAssumption, TimeAssumption DEF TypeOK, Times
          <6>2. range_core(samples, window.from, Back(page), 1, 0) = {}
            BY <1>2, <2>4, <5>1, <6>1 DEF Probe
          <6>3. Within(samples, window.from, Back(page)) = {}
            BY <6>2, ProbeFinds
          <6>4. t \in Within(samples, window.from, Back(page))
            BY <2>4, <5>1 DEF Inside, Within
          <6>5. QED  BY <6>3, <6>4
        <5>2. QED  BY <5>1
      <4>2. Shown(t, page, Whole)
        BY <2>1, <2>4, <3>2, <4>1 DEF CoverInv
      <4>3. QED  BY <4>2, ShownByMore
    <3>3. QED  BY <1>a, <2>4, <3>1, <3>2
  <2>5. QED  BY <2>1, <2>2, <2>3, <2>4 DEF CoverInv
<1>3. CASE Reply
  <2>1. /\ pc = "reply" /\ got' = got \cup page
        /\ pc' = IF Cardinality(page) = count THEN "asking" ELSE "done"
        /\ UNCHANGED <<samples, window, count, page, ctx, end, evicted>>
    BY <1>3 DEF Reply
  <2>2. Inside' = Inside /\ Whole' = Whole
    BY <2>1, SameWindow
  <2>3. ASSUME NEW t \in Inside,
               \/ ctx = NoCtx
               \/ ctx # NoCtx /\ ctx.end <= t
               \/ Cardinality(page) # count
        PROVE  Shown(t, got', Whole)
    <3>1. CASE ctx = NoCtx
      BY <2>1, <3>1 DEF CoverInv
    <3>2. CASE ctx # NoCtx /\ t < end
      <4>1. Shown(t, page, Whole)
        <5>1. page # {} /\ ctx.end = Back(page)
          BY <2>1, <3>2 DEF CoverInv
        <5>2. Back(page) \in Nat
          BY <1>a, <5>1, LastRow
        <5>3. ~(t < Back(page) /\ Cardinality(page) = count)
          BY <1>a, <2>3, <3>2, <5>1, <5>2
        <5>4. QED  BY <2>1, <3>2, <5>3 DEF CoverInv
      <4>2. QED  BY <2>1, <4>1, ShownByMore
    <3>3. CASE end <= t
      <4>1. Shown(t, got, Whole)
        BY <2>1, <3>3 DEF CoverInv
      <4>2. QED  BY <2>1, <4>1, ShownByMore
    <3>4. QED  BY <1>a, <3>1, <3>2, <3>3
  <2>4. QED  BY <2>1, <2>2, <2>3 DEF CoverInv
<1>4. CASE AskNext
  <2>1. CASE ctx = NoCtx
    <3>1. /\ pc = "asking" /\ pc' = "done"
          /\ UNCHANGED <<samples, window, count, page, ctx, end, got, evicted>>
      BY <1>4, <2>1 DEF AskNext
    <3>2. Inside' = Inside /\ Whole' = Whole
      BY <3>1, SameWindow
    <3>3. QED  BY <2>1, <3>1, <3>2 DEF CoverInv
  <2>2. CASE ctx # NoCtx
    <3>1. /\ pc = "asking" /\ pc' = "query" /\ end' = ctx.end
          /\ UNCHANGED <<samples, window, count, page, ctx, got, evicted>>
      BY <1>4, <2>2 DEF AskNext
    <3>2. Inside' = Inside /\ Whole' = Whole
      BY <3>1, SameWindow
    <3>3. QED  BY <2>2, <3>1, <3>2 DEF CoverInv
  <2>3. QED  BY <2>1, <2>2
<1>5. CASE Leave
  <2>1. Inside' = Inside /\ Whole' = Whole
    BY <1>5, SameWindow DEF Leave
  <2>2. QED  BY <1>5, <2>1 DEF Leave, CoverInv
<1>6. CASE Age
  <2>1. Inside' = Inside /\ Whole' = Whole
    BY <1>6, SameWindow DEF Age
  <2>2. ctx # NoCtx /\ ctx'.end = ctx.end
    BY <1>6 DEF Age, TypeOK, Contexts
  <2>3. ctx' # NoCtx
    <3>1. ctx' \in [start : 0..Now, end : 0..Now, age : 0..TTL]
      BY <1>6, TimeAssumption DEF Age, TypeOK, Contexts, Times
    <3>2. QED  BY <3>1, NoCtxAssumption
  <2>4. QED  BY <1>6, <2>1, <2>2, <2>3 DEF Age, CoverInv
<1>7. CASE Sweep
  <2>1. Inside' = Inside /\ Whole' = Whole
    BY <1>7, SameWindow DEF Sweep
  <2>2. QED  BY <1>7, <2>1 DEF Sweep, CoverInv
<1>8. CASE Write
  <2>1. Inside' \subseteq Inside /\ Whole' = Whole
    BY <1>8, InsideShrinks
  <2>2. QED  BY <1>8, <2>1 DEF Write, CoverInv
<1>9. CASE UNCHANGED vars
  <2>1. Inside' = Inside /\ Whole' = Whole
    BY <1>9, SameWindow DEF vars
  <2>2. QED  BY <1>9, <2>1 DEF vars, CoverInv
<1>10. QED  BY <1>1, <1>2, <1>3, <1>4, <1>5, <1>6, <1>7, <1>8, <1>9 DEF Next

\* A load that ends by itself shows the whole window at its resolution: no row is
\* left out between two pages, though the step is computed anew for every page and
\* rows come and go meanwhile.
THEOREM Coverage == Spec => []WindowIsCovered
<1>1. Init => CoverInv
  <2> SUFFICES ASSUME Init PROVE CoverInv
    OBVIOUS
  <2>1. \A t \in Inside : ~(end <= t)
    <3>1. Times \subseteq Nat
      BY TimeAssumption DEF Times
    <3>2. Inside \subseteq Nat /\ window.to \in Nat
      BY <3>1, InitType DEF TypeOK, Inside, Within
    <3>3. QED  BY <3>2 DEF Init, Inside, Within
  <2>2. end <= window.to
    BY TimeAssumption DEF Init, Times
  <2>3. QED  BY <2>1, <2>2 DEF Init, CoverInv
<1>2. CoverInv => WindowIsCovered
  BY DEF CoverInv, WindowIsCovered, Inside, Shown, Shows, Whole
<1>3. Init => DescentInv
  BY DEF Init, DescentInv
<1>4. TypeOK /\ DescentInv /\ CoverInv /\ [Next]_vars => (DescentInv /\ CoverInv)'
  BY DescentInductive, CoverInductive
<1>5. QED  BY <1>1, <1>2, <1>3, <1>4, TypeCorrect, PTL DEF Spec
=============================================================================
