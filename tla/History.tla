------------------------------- MODULE History -------------------------------
(***************************************************************************)
(* The telemetry history (history.cpp): samples appended to a RAM window   *)
(* and to SQLite, the aggregation of past UTC days into daily_energy, the  *)
(* purge of old samples, and a process that may die between any two        *)
(* statements.                                                             *)
(*                                                                         *)
(* append() and aggregate_pending() both run on the dispatcher thread, so  *)
(* they never overlap; what comes between the statements of                *)
(* aggregate_pending() is time (midnight), a crash, or a failing           *)
(* statement.  A time stamp is a day and a tick of it; a day's energy is   *)
(* the set of the ticks whose samples were integrated.                     *)
(***************************************************************************)
EXTENDS Integers, Sequences, FiniteSets

CONSTANTS
    Batteries,      \* rows of the batteries table
    TicksPerDay,    \* samples a battery may write in a day
    Retention,      \* full days of raw samples that are kept (8 in the code)
    RamWindow,      \* ram_window_, in ticks
    LastDay,        \* bound: the last day looked at
    MaxCrashes,     \* bound: how often the process dies
    Faults          \* which of AllFaults the environment may inject

\* append: a sample's transaction fails; insert: a day's transaction fails;
\* delete: the purge fails; power: the machine loses commits not yet synced.
AllFaults == {"append", "insert", "delete", "power"}

ASSUME TicksAssumption     == TicksPerDay \in Nat \ {0}
ASSUME RetentionAssumption == Retention \in Nat /\ RamWindow \in Nat
ASSUME BoundsAssumption    == LastDay \in Nat /\ MaxCrashes \in Nat
ASSUME FaultsAssumption    == Faults \subseteq AllFaults

VARIABLES
    now,        \* the system clock
    crashes,    \* how often the process died
    up,         \* the process runs
    ram,        \* ram_
    samples,    \* the samples table, as the process sees it
    daily,      \* the daily_energy table, as the process sees it
    synced,     \* both tables as they survive a power failure
    agg,        \* where aggregate_pending() is
    today,      \* its today_ms, as a day
    pending     \* its pending days that are not done yet

db   == <<samples, daily>>
aggr == <<agg, today, pending>>
vars == <<now, crashes, up, ram, db, synced, aggr>>

Days   == 0..LastDay
Stamps == [day : Days, tick : 0..(TicksPerDay - 1)]
Samples == [bat : Batteries, ts : Stamps]
Rows    == [bat : Batteries, day : Days, counted : SUBSET Stamps]

\* Milliseconds since the epoch, so to speak.
Ticks(ts) == ts.day * TicksPerDay + ts.tick

HasRow(bat, day) == \E row \in daily : row.bat = bat /\ row.day = day

\* Faulty variant of SamplesOf: the day ends one tick early.
SamplesOfShort(bat, day) ==
    {ts \in Stamps : /\ ts.day = day /\ ts.tick < TicksPerDay - 1
                     /\ [bat |-> bat, ts |-> ts] \in samples}

\* The day's samples of a battery: SELECT ... ts_ms >= ? AND ts_ms < ?
SamplesOf(bat, day) ==
    {ts \in Stamps : ts.day = day /\ [bat |-> bat, ts |-> ts] \in samples}

Init ==
    /\ now = [day |-> 0, tick |-> 0]
    /\ crashes = 0
    /\ up = FALSE
    /\ ram = <<>>
    /\ samples = {}
    /\ daily = {}
    /\ synced = db
    /\ agg = "idle"
    /\ today = 0
    /\ pending = {}

-----------------------------------------------------------------------------
(* The environment *)

Tick ==
    /\ now' = IF now.tick < TicksPerDay - 1
                THEN [now EXCEPT !.tick = @ + 1]
                ELSE [day |-> now.day + 1, tick |-> 0]
    /\ now' \in Stamps
    /\ UNCHANGED <<crashes, up, ram, db, synced, aggr>>

\* SQLite (WAL, synchronous = NORMAL) syncs what is committed so far.
Sync ==
    /\ "power" \in Faults
    /\ synced' = db
    /\ UNCHANGED <<now, crashes, up, ram, db, aggr>>

\* The process dies; committed transactions survive it, unless the power fails.
Crash ==
    /\ up
    /\ crashes < MaxCrashes
    /\ crashes' = crashes + 1
    /\ up' = FALSE
    /\ ram' = <<>>
    /\ agg' = "idle"
    /\ pending' = {}
    /\ \/ UNCHANGED db
       \/ /\ "power" \in Faults
          /\ samples' = synced[1]
          /\ daily' = synced[2]
    /\ UNCHANGED <<now, synced, today>>

-----------------------------------------------------------------------------
(* The dispatcher thread *)

\* Calls aggregate_pending(), which takes the date: main() does it before it
\* starts a battery, a timer does it every hour.
Restart ==
    /\ ~up
    /\ up' = TRUE
    /\ agg' = "find"
    /\ today' = now.day
    /\ UNCHANGED <<now, crashes, ram, db, synced, pending>>

HourTick ==
    /\ up
    /\ agg = "idle"
    /\ agg' = "find"
    /\ today' = now.day
    /\ UNCHANGED <<now, crashes, up, ram, db, synced, pending>>

Expired(sample) == Ticks(sample.ts) < Ticks(now) - RamWindow

\* Faulty variant of Oldest: at most one sample goes for each that comes.
OldestOrNext(r) == IF Expired(r[1]) THEN {2} ELSE {1}

\* Where ram_ starts once the expired samples at its front are popped.
Oldest(r) ==
    {k \in DOMAIN r : ~Expired(r[k]) /\ \A i \in 1..(k - 1) : Expired(r[i])}

\* append(): the sample goes into ram_ in any case and into the database if its
\* transaction commits.  BmsHandler's throttle leaves one sample per tick.
AppendSample(bat) ==
    /\ up
    /\ agg = "idle"
    /\ LET sample == [bat |-> bat, ts |-> now]
           longer == Append(ram, sample)
       IN  /\ \A i \in DOMAIN ram : ram[i] # sample
           /\ \E k \in Oldest(longer) : ram' = SubSeq(longer, k, Len(longer))
           /\ \/ samples' = samples \cup {sample}
              \/ "append" \in Faults /\ UNCHANGED samples
    /\ UNCHANGED <<now, crashes, up, daily, synced, aggr>>

\* Faulty variants of Pending: today is taken for a day that is over; days
\* whose samples are to be purged are left out; only yesterday is looked at.
PendingToday ==
    {p \in Batteries \X Days :
        p[2] <= today /\ SamplesOf(p[1], p[2]) # {} /\ ~HasRow(p[1], p[2])}
PendingKept ==
    {p \in Batteries \X Days :
        /\ p[2] < today /\ p[2] >= today - Retention
        /\ SamplesOf(p[1], p[2]) # {} /\ ~HasRow(p[1], p[2])}
PendingYesterday ==
    {p \in Batteries \X Days :
        p[2] = today - 1 /\ SamplesOf(p[1], p[2]) # {} /\ ~HasRow(p[1], p[2])}

\* Days before today with samples and without a daily_energy row.
Pending ==
    {p \in Batteries \X Days :
        p[2] < today /\ SamplesOf(p[1], p[2]) # {} /\ ~HasRow(p[1], p[2])}

\* With nothing pending aggregate_pending() returns at once.
FindPending ==
    /\ agg = "find"
    /\ pending' = Pending
    /\ agg' = IF Pending = {} THEN "idle" ELSE "days"
    /\ UNCHANGED <<now, crashes, up, ram, db, synced, today>>

\* A day's transaction: INSERT OR REPLACE and COMMIT, or a ROLLBACK.
AggregateDay(bat, day) ==
    /\ agg = "days"
    /\ <<bat, day>> \in pending
    /\ pending' = pending \ {<<bat, day>>}
    /\ agg' = IF pending' = {} THEN "purge" ELSE "days"
    /\ \/ daily' = {row \in daily : row.bat # bat \/ row.day # day}
                   \cup {[bat |-> bat, day |-> day,
                          counted |-> SamplesOf(bat, day)]}
       \/ "insert" \in Faults /\ UNCHANGED daily
    /\ UNCHANGED <<now, crashes, up, ram, samples, synced, today>>

\* DELETE FROM samples WHERE ts_ms < purge_ms.
Purge ==
    /\ agg = "purge"
    /\ agg' = "idle"
    /\ \/ samples' = {s \in samples : s.ts.day >= today - Retention}
       \/ "delete" \in Faults /\ UNCHANGED samples
    /\ UNCHANGED <<now, crashes, up, ram, daily, synced, today, pending>>

-----------------------------------------------------------------------------

Aggregation == \/ FindPending \/ Purge
               \/ \E bat \in Batteries, day \in Days : AggregateDay(bat, day)

Next == \/ Tick \/ Sync \/ Crash
        \/ Restart \/ HourTick \/ Aggregation
        \/ \E bat \in Batteries : AppendSample(bat)

Spec == Init /\ [][Next]_vars

\* systemd restarts the bridge, the hourly timer expires, the dispatcher runs.
FairSpec == Spec /\ WF_vars(Restart) /\ WF_vars(Aggregation) /\ WF_vars(HourTick)

-----------------------------------------------------------------------------
(* Properties *)

\* Every variable has its type.
TypeOK ==
    /\ now \in Stamps
    /\ crashes \in 0..MaxCrashes
    /\ up \in BOOLEAN
    /\ ram \in Seq(Samples)
    /\ samples \subseteq Samples
    /\ daily \subseteq Rows
    /\ synced \in (SUBSET Samples) \X (SUBSET Rows)
    /\ agg \in {"idle", "find", "days", "purge"}
    /\ today \in Days
    /\ pending \subseteq Batteries \X Days

\* Rows of `rows' count every sample of their day that is among `raw'.
CountedIn(raw, rows) ==
    \A s \in raw, row \in rows :
        row.bat = s.bat /\ row.day = s.ts.day => s.ts \in row.counted

\* A day that has its energy row has it for all its samples: nothing is added
\* to a day after it was aggregated, whatever crashes in between
\* (history.cpp:492 looks for a missing row only, never for a stale one).
Counted == CountedIn(samples, daily)

\* One row per battery and day, none for a day that is not over.
PastDays(rows) ==
    /\ \A row \in rows : row.day < now.day
    /\ \A r1, r2 \in rows : r1.bat = r2.bat /\ r1.day = r2.day => r1 = r2

DailyIsPast == PastDays(daily)

\* The RAM window holds the recent past only, in order.
RamIsRecent ==
    \A i, j \in DOMAIN ram :
        i < j => /\ Ticks(ram[i].ts) <= Ticks(ram[j].ts)
                 /\ Ticks(ram[j].ts) - Ticks(ram[i].ts) <= RamWindow

\* A raw sample is deleted only when its day's energy, with it, is stored.
NothingPurgedUncounted ==
    [][\A s \in samples \ samples' :
           up' => \E row \in daily : /\ row.bat = s.bat
                                     /\ row.day = s.ts.day
                                     /\ s.ts \in row.counted]_vars

\* Every day with samples gets its energy row, however often the process dies
\* on the way.
EventuallyAggregated ==
    \A bat \in Batteries, day \in Days :
        (SamplesOf(bat, day) # {} /\ day < now.day)
            ~> (HasRow(bat, day) \/ SamplesOf(bat, day) = {})

\* What holds of both tables, before and after a power failure.
TablesInv(raw, rows) ==
    /\ CountedIn(raw, rows)
    /\ PastDays(rows)
    /\ \A s \in raw : s.ts.day <= now.day

\* While aggregate_pending() runs, the days before its `today' have their row
\* or are still pending, if no day's transaction fails.
AggInv ==
    /\ today <= now.day
    /\ agg \in {"find", "days", "purge"} => up
    /\ \A p \in pending : p[2] < today
    /\ agg # "days" => pending = {}
    /\ "insert" \notin Faults /\ agg \in {"days", "purge"} =>
           \A s \in samples :
               s.ts.day < today => \/ HasRow(s.bat, s.ts.day)
                                   \/ <<s.bat, s.ts.day>> \in pending

\* The inductive invariant behind the properties above.
IndInv == /\ TypeOK
          /\ TablesInv(samples, daily)
          /\ TablesInv(synced[1], synced[2])
          /\ AggInv
=============================================================================
