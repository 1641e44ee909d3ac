---------------------------- MODULE HistoryProofs ----------------------------
(***************************************************************************)
(* Theorems about History, for every number of batteries, every length of  *)
(* a day and of the retention, and every crash.                            *)
(***************************************************************************)
EXTENDS History, TLAPS

LEMMA InitInv == Init => IndInv
<1> SUFFICES ASSUME Init PROVE IndInv
  OBVIOUS
<1>1. now \in Stamps
  BY TicksAssumption, BoundsAssumption DEF Init, Stamps, Days
<1>2. samples = {} /\ daily = {} /\ synced = <<{}, {}>>
  BY DEF Init, db
<1>3. TypeOK
  <2>1. crashes \in 0..MaxCrashes /\ today \in Days
    BY BoundsAssumption DEF Init, Days
  <2>2. ram \in Seq(Samples)
    BY DEF Init
  <2>3. synced \in (SUBSET Samples) \X (SUBSET Rows)
    BY <1>2
  <2> QED
    BY <1>1, <1>2, <2>1, <2>2, <2>3 DEF Init, TypeOK
<1>4. TablesInv({}, {})
  BY DEF TablesInv, CountedIn, PastDays
<1>5. AggInv
  BY <1>2, BoundsAssumption DEF Init, AggInv, Days
<1> QED
  BY <1>2, <1>3, <1>4, <1>5 DEF IndInv

-----------------------------------------------------------------------------
(* Typing *)

LEMMA SamplesOfType ==
    ASSUME NEW bat, NEW day
    PROVE  SamplesOf(bat, day) \in SUBSET Stamps
BY DEF SamplesOf

LEMMA AppendType ==
    ASSUME TypeOK, NEW bat \in Batteries, AppendSample(bat)
    PROVE  ram' \in Seq(Samples) /\ samples' \subseteq Samples
<1> DEFINE sample == [bat |-> bat, ts |-> now]
           longer == Append(ram, sample)
<1>1. sample \in Samples
  BY DEF TypeOK, Samples
<1>2. longer \in Seq(Samples)
  BY <1>1 DEF TypeOK
<1>3. PICK k \in DOMAIN longer : ram' = SubSeq(longer, k, Len(longer))
  BY DEF AppendSample, Oldest
<1>4. ram' \in Seq(Samples)
  <2> HIDE DEF longer
  <2> QED
    BY <1>2, <1>3
<1>5. samples' \subseteq Samples
  BY <1>1 DEF AppendSample, TypeOK
<1> QED
  BY <1>4, <1>5

LEMMA TypeInductive == TypeOK /\ [Next]_vars => TypeOK'
<1> SUFFICES ASSUME TypeOK, [Next]_vars PROVE TypeOK'
  OBVIOUS
<1>1. CASE Tick
  BY <1>1 DEF Tick, TypeOK, db, aggr
<1>2. CASE Sync
  BY <1>2 DEF Sync, TypeOK, db, aggr
<1>3. CASE Crash
  <2>1. samples' \subseteq Samples /\ daily' \subseteq Rows
    BY <1>3 DEF Crash, TypeOK, db
  <2>2. crashes' \in 0..MaxCrashes
    BY <1>3, BoundsAssumption DEF Crash, TypeOK
  <2>3. ram' \in Seq(Samples)
    BY <1>3 DEF Crash
  <2> QED
    BY <1>3, <2>1, <2>2, <2>3 DEF Crash, TypeOK
<1>4. CASE Restart \/ HourTick
  <2>1. now.day \in Days
    BY DEF TypeOK, Stamps
  <2> QED
    BY <1>4, <2>1 DEF Restart, HourTick, TypeOK, db
<1>5. ASSUME NEW bat \in Batteries, AppendSample(bat) PROVE TypeOK'
  BY <1>5, AppendType DEF AppendSample, TypeOK, aggr
<1>6. CASE FindPending
  BY <1>6 DEF FindPending, Pending, TypeOK, db
<1>7. ASSUME NEW bat \in Batteries, NEW day \in Days, AggregateDay(bat, day)
      PROVE  TypeOK'
  <2> DEFINE row == [bat |-> bat, day |-> day, counted |-> SamplesOf(bat, day)]
  <2>1. row \in Rows
    BY SamplesOfType DEF Rows
  <2>2. daily' \subseteq Rows
    BY <1>7, <2>1 DEF AggregateDay, TypeOK
  <2> QED
    BY <1>7, <2>2 DEF AggregateDay, TypeOK
<1>8. CASE Purge
  BY <1>8 DEF Purge, TypeOK
<1>9. CASE UNCHANGED vars
  BY <1>9 DEF vars, db, aggr, TypeOK
<1> QED
  BY <1>1, <1>2, <1>3, <1>4, <1>5, <1>6, <1>7, <1>8, <1>9 DEF Next, Aggregation

-----------------------------------------------------------------------------
(* The two tables *)

\* The clock does not go back.
LEMMA ClockGrows ==
    ASSUME TypeOK, [Next]_vars
    PROVE  now.day \in Int /\ now'.day \in Int /\ now.day <= now'.day
<1>1. now \in Stamps /\ now' \in Stamps
  BY TypeInductive DEF TypeOK
<1>2. now.day \in Int /\ now'.day \in Int
  BY <1>1 DEF Stamps, Days
<1>3. CASE Tick
  <2>1. CASE now.tick < TicksPerDay - 1
    <3>1. now' = [now EXCEPT !.tick = @ + 1]
      BY <1>3, <2>1 DEF Tick
    <3>2. now'.day = now.day
      BY <1>1, <3>1 DEF Stamps
    <3> QED
      BY <1>2, <3>2
  <2>2. CASE ~(now.tick < TicksPerDay - 1)
    BY <1>2, <1>3, <2>2 DEF Tick
  <2> QED
    BY <2>1, <2>2
<1>4. CASE now' = now
  BY <1>2, <1>4
<1> QED
  BY <1>3, <1>4
  DEF Next, vars, Sync, Crash, Restart, HourTick, AppendSample, Aggregation,
      FindPending, AggregateDay, Purge

\* A sample of today has no row yet, so the rows keep counting everything.
LEMMA AppendKeepsTables ==
    ASSUME TypeOK, TablesInv(samples, daily), NEW bat \in Batteries,
           AppendSample(bat)
    PROVE  TablesInv(samples, daily)'
<1>1. now' = now /\ daily' = daily
  BY DEF AppendSample
<1>2. now.day \in Int
  BY DEF TypeOK, Stamps, Days
<1>3. samples' \subseteq samples \cup {[bat |-> bat, ts |-> now]}
  BY DEF AppendSample
<1>4. \A row \in daily : row.day \in Int
  BY DEF TypeOK, Rows, Days
<1>5. CountedIn(samples', daily')
  <2> SUFFICES ASSUME NEW s \in samples', NEW row \in daily,
                      row.bat = s.bat, row.day = s.ts.day
               PROVE  s.ts \in row.counted
    BY <1>1 DEF CountedIn
  <2>1. CASE s \in samples
    BY <2>1 DEF TablesInv, CountedIn
  <2>2. CASE s = [bat |-> bat, ts |-> now]
    BY <1>2, <1>4, <2>2 DEF TablesInv, PastDays
  <2> QED
    BY <1>3, <2>1, <2>2
<1>6. \A s \in samples' : s.ts.day <= now.day
  BY <1>2, <1>3 DEF TablesInv
<1>7. PastDays(daily)'
  BY <1>1 DEF TablesInv, PastDays
<1> QED
  BY <1>1, <1>5, <1>6, <1>7 DEF TablesInv

\* The new row is the only one of its day, it counts what is there, and the day
\* is over.
LEMMA AggregateKeepsTables ==
    ASSUME TypeOK, TablesInv(samples, daily), AggInv,
           NEW bat \in Batteries, NEW day \in Days, AggregateDay(bat, day)
    PROVE  TablesInv(samples, daily)'
<1> DEFINE new  == [bat |-> bat, day |-> day, counted |-> SamplesOf(bat, day)]
           kept == {row \in daily : row.bat # bat \/ row.day # day}
<1>1. now' = now /\ samples' = samples
  BY DEF AggregateDay
<1>2. CASE daily' = daily
  BY <1>1, <1>2 DEF TablesInv, CountedIn, PastDays
<1>3. CASE daily' = kept \cup {new}
  <2>1. CountedIn(samples, daily')
    <3> SUFFICES ASSUME NEW s \in samples, NEW row \in daily',
                        row.bat = s.bat, row.day = s.ts.day
                 PROVE  s.ts \in row.counted
      BY DEF CountedIn
    <3>1. CASE row \in kept
      BY <3>1 DEF TablesInv, CountedIn
    <3>2. CASE row = new
      <4>1. s \in Samples /\ s = [bat |-> s.bat, ts |-> s.ts]
        BY DEF TypeOK, Samples
      <4>2. s.ts \in Stamps /\ s.ts.day = day /\ s.bat = bat
        BY <3>2, <4>1 DEF Samples
      <4>3. s.ts \in SamplesOf(bat, day)
        BY <4>1, <4>2 DEF SamplesOf
      <4> QED
        BY <3>2, <4>3
    <3> QED
      BY <1>3, <3>1, <3>2
  <2>2. day < now.day
    <3>1. day < today /\ today <= now.day
      BY DEF AggregateDay, AggInv
    <3>2. day \in Int /\ today \in Int /\ now.day \in Int
      BY DEF TypeOK, Stamps, Days
    <3> QED
      BY <3>1, <3>2
  <2>3. \A row \in daily' : row.day < now.day
    BY <1>3, <2>2 DEF TablesInv, PastDays
  <2>4. \A r1, r2 \in daily' :
            r1.bat = r2.bat /\ r1.day = r2.day => r1 = r2
    BY <1>3 DEF TablesInv, PastDays
  <2> QED
    BY <1>1, <2>1, <2>3, <2>4 DEF TablesInv, PastDays
<1> QED
  BY <1>2, <1>3 DEF AggregateDay

LEMMA TablesInductive ==
    ASSUME IndInv, [Next]_vars
    PROVE  TablesInv(samples, daily)' /\ TablesInv(synced[1], synced[2])'
<1>1. TypeOK /\ AggInv /\ TablesInv(samples, daily)
      /\ TablesInv(synced[1], synced[2])
  BY DEF IndInv
<1>2. samples \in SUBSET Samples /\ daily \in SUBSET Rows
  BY <1>1 DEF TypeOK
<1>3. synced[1] \in SUBSET Samples /\ synced[2] \in SUBSET Rows
  BY <1>1 DEF TypeOK
<1>4. TablesInv(synced[1], synced[2])'
  <2>1. CASE synced' = db
    <3>1. synced'[1] = samples /\ synced'[2] = daily
      BY <2>1 DEF db
    <3>2. now.day \in Int /\ now'.day \in Int /\ now.day <= now'.day
      BY <1>1, ClockGrows
    <3>3. /\ \A row \in daily : row.day \in Int
          /\ \A s \in samples : s.ts.day \in Int
      BY <1>2 DEF Rows, Samples, Stamps, Days
    <3> QED
      BY <1>1, <3>1, <3>2, <3>3 DEF TablesInv, PastDays, CountedIn
  <2>2. CASE synced' = synced
    <3>1. now.day \in Int /\ now'.day \in Int /\ now.day <= now'.day
      BY <1>1, ClockGrows
    <3>2. /\ \A row \in synced[2] : row.day \in Int
          /\ \A s \in synced[1] : s.ts.day \in Int
      BY <1>3 DEF Rows, Samples, Stamps, Days
    <3> QED
      BY <1>1, <2>2, <3>1, <3>2 DEF TablesInv, PastDays, CountedIn
  <2> QED
    BY <2>1, <2>2
    DEF Next, vars, Tick, Sync, Crash, Restart, HourTick, AppendSample,
        Aggregation, FindPending, AggregateDay, Purge
<1>5. TablesInv(samples, daily)'
  <2>1. now.day \in Int /\ now'.day \in Int /\ now.day <= now'.day
    BY <1>1, ClockGrows
  <2>2. /\ \A row \in daily : row.day \in Int
        /\ \A s \in samples : s.ts.day \in Int
    BY <1>2 DEF Rows, Samples, Stamps, Days
  <2>3. CASE samples' \subseteq samples /\ daily' = daily
    BY <1>1, <2>1, <2>2, <2>3 DEF TablesInv, PastDays, CountedIn
  <2>4. CASE Crash
    <3>1. CASE samples' = synced[1] /\ daily' = synced[2]
      BY <1>1, <2>4, <3>1 DEF Crash, TablesInv, PastDays, CountedIn
    <3> QED
      BY <2>3, <2>4, <3>1 DEF Crash, db
  <2>5. ASSUME NEW bat \in Batteries, AppendSample(bat)
        PROVE  TablesInv(samples, daily)'
    BY <1>1, <2>5, AppendKeepsTables
  <2>6. ASSUME NEW bat \in Batteries, NEW day \in Days, AggregateDay(bat, day)
        PROVE  TablesInv(samples, daily)'
    BY <1>1, <2>6, AggregateKeepsTables
  <2> QED
    BY <2>3, <2>4, <2>5, <2>6
    DEF Next, vars, db, Tick, Sync, Restart, HourTick, Aggregation,
        FindPending, Purge
<1> QED
  BY <1>4, <1>5

-----------------------------------------------------------------------------
(* aggregate_pending() *)

LEMMA AggInductive ==
    ASSUME IndInv, [Next]_vars
    PROVE  AggInv'
<1>1. TypeOK /\ AggInv /\ TypeOK'
  BY TypeInductive DEF IndInv
<1>2. now.day \in Int /\ now'.day \in Int /\ now.day <= now'.day
  BY <1>1, ClockGrows
<1>3. today \in Int /\ today' \in Int
  BY <1>1 DEF TypeOK, Days
<1>4. \A p \in pending : p[2] \in Int
  BY <1>1 DEF TypeOK, Days
<1>5. CASE Tick \/ Sync
  BY <1>1, <1>2, <1>3, <1>5 DEF AggInv, HasRow, Tick, Sync, db, aggr
<1>6. CASE Crash
  BY <1>1, <1>2, <1>3, <1>6 DEF AggInv, Crash
<1>7. CASE Restart \/ HourTick
  <2>1. pending = {}
    BY <1>1, <1>7 DEF AggInv, Restart, HourTick, TypeOK
  <2> QED
    BY <1>1, <1>2, <1>7, <2>1 DEF AggInv, Restart, HourTick, db
<1>8. ASSUME NEW bat \in Batteries, AppendSample(bat) PROVE AggInv'
  BY <1>1, <1>8 DEF AggInv, AppendSample, aggr
<1>9. CASE FindPending
  <2>1. today' = today /\ now' = now /\ samples' = samples /\ daily' = daily
    BY <1>9 DEF FindPending, db
  <2>2. \A p \in pending' : p[2] < today
    BY <1>9 DEF FindPending, Pending
  <2>3. ASSUME NEW s \in samples, s.ts.day < today, ~HasRow(s.bat, s.ts.day)
        PROVE  <<s.bat, s.ts.day>> \in pending'
    <3>1. /\ s.bat \in Batteries /\ s.ts \in Stamps /\ s.ts.day \in Days
          /\ s = [bat |-> s.bat, ts |-> s.ts]
      BY <1>1 DEF TypeOK, Samples, Stamps
    <3>2. s.ts \in SamplesOf(s.bat, s.ts.day)
      BY <3>1 DEF SamplesOf
    <3> QED
      BY <1>9, <2>3, <3>1, <3>2 DEF FindPending, Pending
  <2>4. /\ agg' # "purge" /\ agg' # "find" /\ up' = up /\ up
        /\ agg' # "days" => pending' = {}
    BY <1>1, <1>9 DEF FindPending, AggInv
  <2> QED
    BY <1>1, <1>9, <2>1, <2>2, <2>3, <2>4 DEF AggInv, HasRow
<1>10. ASSUME NEW bat \in Batteries, NEW day \in Days, AggregateDay(bat, day)
       PROVE  AggInv'
  <2>1. /\ today' = today /\ now' = now /\ samples' = samples /\ up' = up
        /\ pending' = pending \ {<<bat, day>>}
        /\ agg' = IF pending' = {} THEN "purge" ELSE "days"
        /\ agg = "days"
    BY <1>10 DEF AggregateDay
  <2>2. ASSUME "insert" \notin Faults, NEW s \in samples, s.ts.day < today
        PROVE  HasRow(s.bat, s.ts.day)' \/ <<s.bat, s.ts.day>> \in pending'
    <3>1. daily' = {row \in daily : row.bat # bat \/ row.day # day}
                   \cup {[bat |-> bat, day |-> day,
                          counted |-> SamplesOf(bat, day)]}
      BY <1>10, <2>2 DEF AggregateDay
    <3>2. CASE s.bat = bat /\ s.ts.day = day
      <4> DEFINE new == [bat |-> bat, day |-> day,
                         counted |-> SamplesOf(bat, day)]
      <4>1. new \in daily' /\ new.bat = s.bat /\ new.day = s.ts.day
        BY <3>1, <3>2
      <4> QED
        BY <4>1 DEF HasRow
    <3>3. CASE ~(s.bat = bat /\ s.ts.day = day)
      <4>1. HasRow(s.bat, s.ts.day) \/ <<s.bat, s.ts.day>> \in pending
        BY <1>1, <2>1, <2>2 DEF AggInv
      <4>2. CASE HasRow(s.bat, s.ts.day)
        BY <3>1, <3>3, <4>2 DEF HasRow
      <4>3. CASE <<s.bat, s.ts.day>> \in pending
        BY <2>1, <3>3, <4>3
      <4> QED
        BY <4>1, <4>2, <4>3
    <3> QED
      BY <3>2, <3>3
  <2> QED
    BY <1>1, <2>1, <2>2 DEF AggInv
<1>11. CASE Purge
  BY <1>1, <1>11 DEF AggInv, Purge
<1>12. CASE UNCHANGED vars
  BY <1>1, <1>12 DEF AggInv, HasRow, vars, db, aggr
<1> QED
  BY <1>5, <1>6, <1>7, <1>8, <1>9, <1>10, <1>11, <1>12 DEF Next, Aggregation

-----------------------------------------------------------------------------
(* The RAM window *)

\* ram_ is in order, and nothing in it is from the future.
RamInv == /\ RamIsRecent
          /\ \A i \in DOMAIN ram : Ticks(ram[i].ts) <= Ticks(now)

LEMMA TicksType == ASSUME NEW ts \in Stamps PROVE Ticks(ts) \in Int
BY TicksAssumption DEF Stamps, Days, Ticks

LEMMA TicksGrow == ASSUME TypeOK, Tick PROVE Ticks(now) <= Ticks(now')
<1>1. /\ now.day \in Nat /\ now.tick \in 0..(TicksPerDay - 1)
      /\ now = [day |-> now.day, tick |-> now.tick]
  BY DEF TypeOK, Stamps, Days
<1>2. CASE now.tick < TicksPerDay - 1
  <2>1. now'.day = now.day /\ now'.tick = now.tick + 1
    BY <1>1, <1>2 DEF Tick
  <2>2. \A n \in Int : n + now.tick <= n + (now.tick + 1)
    BY <1>1
  <2>3. now.day * TicksPerDay \in Int
    BY <1>1, TicksAssumption
  <2> QED
    BY <2>1, <2>2, <2>3 DEF Ticks
<1>3. CASE ~(now.tick < TicksPerDay - 1)
  <2>1. now'.day = now.day + 1 /\ now'.tick = 0
    BY <1>3 DEF Tick
  <2>2. (now.day + 1) * TicksPerDay = now.day * TicksPerDay + TicksPerDay
    BY <1>1, TicksAssumption
  <2>3. now.day * TicksPerDay \in Int
    BY <1>1, TicksAssumption
  <2> QED
    BY <1>1, <2>1, <2>2, <2>3, TicksAssumption DEF Ticks
<1> QED
  BY <1>2, <1>3

\* append() pops what is older than the window from the front of ram_.
LEMMA AppendRecent ==
    ASSUME TypeOK, RamInv, NEW bat \in Batteries, AppendSample(bat)
    PROVE  RamInv'
<1> DEFINE sample == [bat |-> bat, ts |-> now]
           longer == Append(ram, sample)
           n      == Len(longer)
           at(i)  == Ticks(longer[i].ts)
<1>1. /\ sample \in Samples /\ sample.ts = now /\ now \in Stamps /\ now' = now
      /\ ram \in Seq(Samples)
  BY DEF TypeOK, Samples, AppendSample
<1>2. /\ longer \in Seq(Samples) /\ n = Len(ram) + 1 /\ n \in Nat \ {0}
      /\ DOMAIN longer = 1..n /\ longer[n] = sample
      /\ DOMAIN ram = 1..(n - 1) /\ \A i \in 1..(n - 1) : longer[i] = ram[i]
  BY <1>1
<1>3. PICK k \in DOMAIN longer :
          ram' = SubSeq(longer, k, n) /\ ~Expired(longer[k])
  BY DEF AppendSample, Oldest
<1> HIDE DEF sample, longer, n
<1>4. Ticks(now) \in Int /\ \A i \in 1..n : at(i) \in Int
  <2>1. \A i \in 1..n : longer[i] \in Samples
    BY <1>2
  <2>2. \A i \in 1..n : longer[i].ts \in Stamps
    BY <2>1 DEF Samples
  <2> QED
    BY <1>1, <2>2, TicksType
<1>5. ASSUME NEW i \in 1..n PROVE at(i) <= Ticks(now)
  <2>1. CASE i = n
    BY <1>1, <1>2, <1>4, <2>1
  <2>2. CASE i # n
    BY <1>2, <2>2, i \in DOMAIN ram DEF RamInv
  <2> QED
    BY <2>1, <2>2
<1>6. ASSUME NEW i \in 1..n, NEW j \in 1..n, i < j PROVE at(i) <= at(j)
  <2>1. CASE j = n
    <3>1. at(j) = Ticks(now)
      BY <1>1, <1>2, <2>1
    <3>2. at(i) <= Ticks(now)
      BY <1>5
    <3> QED
      BY <3>1, <3>2
  <2>2. CASE j # n
    BY <1>2, <1>6, <2>2, i \in DOMAIN ram, j \in DOMAIN ram
    DEF RamInv, RamIsRecent
  <2> QED
    BY <2>1, <2>2
<1>7. Ticks(now) - RamWindow <= at(k) /\ k \in 1..n
  BY <1>2, <1>3, <1>4, RetentionAssumption DEF Expired
<1>8. /\ DOMAIN ram' = 1..(n - k + 1)
      /\ \A i \in DOMAIN ram' : k + i - 1 \in 1..n /\ ram'[i] = longer[k + i - 1]
  BY <1>2, <1>3
<1>9. ASSUME NEW i \in DOMAIN ram', NEW j \in DOMAIN ram', i < j
      PROVE  /\ Ticks(ram'[i].ts) <= Ticks(ram'[j].ts)
             /\ Ticks(ram'[j].ts) - Ticks(ram'[i].ts) <= RamWindow
  <2> DEFINE x == k + i - 1
             y == k + j - 1
  <2>1. x \in 1..n /\ y \in 1..n /\ x < y /\ (x = k \/ k < x)
    BY <1>2, <1>7, <1>8, <1>9
  <2>2. Ticks(ram'[i].ts) = at(x) /\ Ticks(ram'[j].ts) = at(y)
    BY <1>8
  <2> HIDE DEF x, y, at
  <2>3. /\ at(x) <= at(y) /\ at(k) <= at(x) /\ at(y) <= Ticks(now)
        /\ at(x) \in Int /\ at(y) \in Int /\ at(k) \in Int
    BY <1>4, <1>5, <1>6, <1>7, <2>1
  <2> QED
    BY <1>4, <1>7, <2>2, <2>3, RetentionAssumption
<1>10. \A i \in DOMAIN ram' : Ticks(ram'[i].ts) <= Ticks(now')
  BY <1>1, <1>5, <1>8
<1>11. Ticks(now)' = Ticks(now)
  BY <1>1
<1> QED
  BY <1>9, <1>10 DEF RamInv, RamIsRecent, Ticks

LEMMA RamInductive == TypeOK /\ RamInv /\ [Next]_vars => RamInv'
<1> SUFFICES ASSUME TypeOK, RamInv, [Next]_vars PROVE RamInv'
  OBVIOUS
<1>1. CASE Tick
  <2>1. ram' = ram /\ Ticks(now) <= Ticks(now') /\ Ticks(now) \in Int
        /\ Ticks(now') \in Int
    BY <1>1, TicksGrow, TicksType, TypeInductive DEF Tick, TypeOK
  <2>2. \A i \in DOMAIN ram : Ticks(ram[i].ts) \in Int
    <3>1. ram \in Seq(Samples)
      BY DEF TypeOK
    <3>2. \A i \in DOMAIN ram : ram[i] \in Samples
      BY <3>1
    <3>3. \A i \in DOMAIN ram : ram[i].ts \in Stamps
      BY <3>2 DEF Samples
    <3> QED
      BY <3>3, TicksType
  <2>3. \A i \in DOMAIN ram' : Ticks(ram'[i].ts) <= Ticks(now')
    BY <2>1, <2>2 DEF RamInv
  <2> QED
    BY <2>1, <2>3 DEF RamInv, RamIsRecent, Ticks
<1>2. CASE Crash
  BY <1>2 DEF Crash, RamInv, RamIsRecent
<1>3. CASE UNCHANGED <<now, ram>>
  BY <1>3 DEF RamInv, RamIsRecent, Ticks
<1>4. ASSUME NEW bat \in Batteries, AppendSample(bat) PROVE RamInv'
  BY <1>4, AppendRecent
<1> QED
  BY <1>1, <1>2, <1>3, <1>4
  DEF Next, vars, Sync, Restart, HourTick, Aggregation, FindPending,
      AggregateDay, Purge

-----------------------------------------------------------------------------
(* The theorems *)

LEMMA Invariance == Spec => []IndInv
<1>1. IndInv /\ [Next]_vars => IndInv'
  <2> SUFFICES ASSUME IndInv, [Next]_vars PROVE IndInv'
    OBVIOUS
  <2> QED
    BY TypeInductive, TablesInductive, AggInductive DEF IndInv
<1> QED
  BY InitInv, <1>1, PTL DEF Spec

\* Every variable of the history keeps its type.
THEOREM TypeCorrect == Spec => []TypeOK
<1>1. IndInv => TypeOK
  BY DEF IndInv
<1> QED
  BY Invariance, <1>1, PTL

\* A stored energy row counts every raw sample of its day that is still there,
\* through crashes, power failures and failing statements of every kind: a day
\* is aggregated only when it is over (history.cpp:498, ts_ms < today_ms).
THEOREM RowsAreComplete == Spec => []Counted
<1>1. IndInv => Counted
  BY DEF IndInv, TablesInv, Counted
<1> QED
  BY Invariance, <1>1, PTL

\* There is one energy row per battery and day, and none for today.
THEOREM RowsArePast == Spec => []DailyIsPast
<1>1. IndInv => DailyIsPast
  BY DEF IndInv, TablesInv, DailyIsPast
<1> QED
  BY Invariance, <1>1, PTL

\* ram_ is in order and spans no more than ram_window_ (history.cpp:202-205), for
\* a clock that is not set back.
THEOREM WindowIsRecent == Spec => []RamIsRecent
<1>1. Init => RamInv
  BY DEF Init, RamInv, RamIsRecent
<1>2. RamInv => RamIsRecent
  BY DEF RamInv
<1> QED
  BY <1>1, <1>2, RamInductive, TypeCorrect, PTL DEF Spec

\* As long as the transactions that store energy rows succeed, the purge
\* (history.cpp:597) deletes only samples whose energy is stored.
THEOREM PurgeIsSafe ==
    ASSUME "insert" \notin Faults
    PROVE  Spec => NothingPurgedUncounted
<1> DEFINE Safe == \A s \in samples \ samples' :
                       up' => \E row \in daily : /\ row.bat = s.bat
                                                 /\ row.day = s.ts.day
                                                 /\ s.ts \in row.counted
<1>1. IndInv /\ [Next]_vars => [Safe]_vars
  <2> SUFFICES ASSUME IndInv, Next, NEW s \in samples \ samples', up'
               PROVE  \E row \in daily : /\ row.bat = s.bat
                                         /\ row.day = s.ts.day
                                         /\ s.ts \in row.counted
    OBVIOUS
  <2>1. CASE Purge
    <3>1. s.ts.day \in Int /\ today \in Int
      BY DEF IndInv, TypeOK, Samples, Stamps, Days
    <3>2. ~(s.ts.day >= today - Retention)
      BY <2>1 DEF Purge
    <3>3. s.ts.day < today
      BY <3>1, <3>2, RetentionAssumption
    <3>4. agg = "purge" /\ pending = {}
      BY <2>1 DEF Purge, IndInv, AggInv
    <3>5. HasRow(s.bat, s.ts.day)
      BY <3>3, <3>4 DEF IndInv, AggInv
    <3> QED
      BY <3>5 DEF HasRow, IndInv, TablesInv, CountedIn
  <2>2. CASE ~Purge
    <3>1. samples \subseteq samples'
      BY <2>2
      DEF Next, Tick, Sync, Crash, Restart, HourTick, AppendSample,
          Aggregation, FindPending, AggregateDay, db
    <3> QED
      BY <3>1
  <2> QED
    BY <2>1, <2>2
<1>2. Spec => [][Safe]_vars
  BY Invariance, <1>1, PTL DEF Spec
<1> QED
  BY <1>2 DEF NothingPurgedUncounted
=============================================================================
