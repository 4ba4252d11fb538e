---------------------------- MODULE TickArchive ----------------------------
(***************************************************************************)
(* The life of a price tick in storage: inserted into price_ticks, exported *)
(* by the Archiver (src/sentinel/storage/archiver.py) to one parquet file  *)
(* and one market snapshot per hour, deleted from price_ticks when it is   *)
(* older than hot_retention_hours, and pruned with its files by the        *)
(* RetentionManager (retention.py) after archive_retention_days.  The      *)
(* tasks interleave at every store call and file write.                    *)
(*                                                                         *)
(* Time is counted in fractions of an hour (HourLen to the hour).  A file  *)
(* is the set of rows it holds; a write that is cut short leaves a file    *)
(* that holds none.                                                        *)
(***************************************************************************)
EXTENDS MarketStore, Integers, FiniteSetsExt

CONSTANTS HourLen,           \* clock units per hour
          HotHours,          \* storage.hot_retention_hours
          ArchiveRetention,  \* storage.archive_retention_days, in clock units
          MaxLag,            \* bound: a tick is stored at most so long after its time
          MaxClock,          \* bound: the clock stops here
          MaxTicks,          \* bound: ticks received
          MaxFaults          \* bound: runs that are cut short

\* HotHours >= 1: with 0 the hour that is still running would be deleted
\* unarchived.  A tick may be late, but not by the whole hot retention.
ASSUME ArchiveAssumption ==
    /\ HourLen \in Nat \ {0} /\ HotHours \in Nat \ {0} /\ ArchiveRetention \in Nat
    /\ MaxLag \in 0 .. HotHours * HourLen
    /\ {MaxClock, MaxFaults} \subseteq Nat

VARIABLES now,           \* the wall clock
          price_ticks,   \* the hot table: a set of ticks
          parquet,       \* HH.parquet files: hour -> the rows of the file
          snapshots,     \* HH.markets.json files: hour -> the assets listed
          archiver,      \* the archiver task: its stage and archive_once's locals
          received,      \* history: every tick stored so far
          faults         \* runs cut short so far

vars == <<tracked_markets, now, price_ticks, parquet, snapshots, archiver, received, faults>>
files == <<parquet, snapshots>>

Hour(ts) == ts \div HourLen
Sleeping == [pc |-> "sleeping", now |-> 0, hours |-> {}, rows |-> {}]

Init == /\ tracked_markets = <<>> /\ now = 0 /\ price_ticks = {}
        /\ parquet = <<>> /\ snapshots = <<>>
        /\ archiver = Sleeping /\ received = {} /\ faults = 0

\* A file map with one file written, or with the files of some hours removed.
WithFile(map, hour, content) ==
    [h \in DOMAIN map \cup {hour} |-> IF h = hour THEN content ELSE map[h]]
Without(map, hours) == [h \in DOMAIN map \ hours |-> map[h]]

Tick == /\ now < MaxClock /\ now' = now + 1
        /\ UNCHANGED <<tracked_markets, price_ticks, files, archiver, received, faults>>

\* The gatekeeper adds a market to the cache that snapshots list.
Track(a) == /\ a \notin Known /\ UpsertTrackedMarkets({a})
            /\ UNCHANGED <<now, price_ticks, files, archiver, received, faults>>

\* ingest_tick: insert_price_tick for a market in the cache, maybe late.
IngestTick(a, ts) ==
    /\ a \in Known /\ Cardinality(received) < MaxTicks
    /\ ts <= now /\ now - ts <= MaxLag
    /\ [asset |-> a, ts |-> ts] \notin received
    /\ price_ticks' = price_ticks \cup {[asset |-> a, ts |-> ts]}
    /\ received' = received \cup {[asset |-> a, ts |-> ts]}
    /\ UNCHANGED <<tracked_markets, now, files, archiver, faults>>

\* Mutant: an hour is archived once only.
ArchivableHours_Once(time) ==
    {h \in {Hour(t.ts) : t \in price_ticks} : h < Hour(time) /\ h \notin DOMAIN parquet}

\* list_archivable_hours: hours before the current one that have rows.
ArchivableHours(time) == {h \in {Hour(t.ts) : t \in price_ticks} : h < Hour(time)}

\* archive_once reads the clock and lists the hours.  (Rows that arrive before
\* the query arrive before the run as far as it can tell.)
ListHours ==
    /\ archiver.pc = "sleeping"
    /\ LET hours == ArchivableHours(now)
       IN archiver' = [pc |-> IF hours = {} THEN "delete" ELSE "fetch", now |-> now,
                       hours |-> hours, rows |-> {}]
    /\ UNCHANGED <<tracked_markets, now, price_ticks, files, received, faults>>

\* The loop goes through the hours in ascending order; hours holds those left,
\* the current one included.
CurrentHour == Min(archiver.hours)

\* The archiver goes on with the hours after the current, then with the delete.
NextHour == LET left == archiver.hours \ {CurrentHour}
            IN archiver' = [archiver EXCEPT !.hours = left, !.rows = {},
                               !.pc = IF left = {} THEN "delete" ELSE "fetch"]

\* Mutant: the interval has no end.
RowsOf_NoEnd(hour) == {t \in price_ticks : Hour(t.ts) >= hour}

\* fetch_price_ticks_between for one hour.
RowsOf(hour) == {t \in price_ticks : Hour(t.ts) = hour}

FetchRows ==
    /\ archiver.pc = "fetch"
    /\ LET rows == RowsOf(CurrentHour)
       IN IF rows = {} THEN NextHour
                       ELSE archiver' = [archiver EXCEPT !.pc = "write", !.rows = rows]
    /\ UNCHANGED <<tracked_markets, now, price_ticks, files, received, faults>>

\* Mutant: only rows that are not in the file yet are written.
WriteParquet_NewRows ==
    /\ archiver.pc = "write"
    /\ LET hour == CurrentHour
           old == IF hour \in DOMAIN parquet THEN parquet[hour] ELSE {}
       IN parquet' = WithFile(parquet, hour, archiver.rows \ old)
    /\ archiver' = [archiver EXCEPT !.pc = "snapshot"]
    /\ UNCHANGED <<tracked_markets, now, price_ticks, snapshots, received, faults>>

\* _write_parquet: pq.write_table replaces a file of that name.
WriteParquet ==
    /\ archiver.pc = "write"
    /\ parquet' = WithFile(parquet, CurrentHour, archiver.rows)
    /\ archiver' = [archiver EXCEPT !.pc = "snapshot"]
    /\ UNCHANGED <<tracked_markets, now, price_ticks, snapshots, received, faults>>

\* _write_market_snapshot: the whole cache, as it is by now.
WriteSnapshot ==
    /\ archiver.pc = "snapshot"
    /\ snapshots' = WithFile(snapshots, CurrentHour, Known)
    /\ NextHour
    /\ UNCHANGED <<tracked_markets, now, price_ticks, parquet, received, faults>>

\* Mutant: an hour is kept too long.
RetentionCutoff_HourMore == archiver.now - (HotHours + 1) * HourLen

\* The cutoff is counted from the beginning of the run, to the millisecond.
RetentionCutoff == archiver.now - HotHours * HourLen

\* delete_price_ticks_before
DeleteHot ==
    /\ archiver.pc = "delete"
    /\ price_ticks' = {t \in price_ticks : t.ts >= RetentionCutoff}
    /\ archiver' = Sleeping
    /\ UNCHANGED <<tracked_markets, now, files, received, faults>>

\* A store call or a file write raises, or the process dies: the run is over
\* and the next one starts anew.  A write that was under way, of either file,
\* may leave one that cannot be read.
CutShort(torn) ==
    /\ archiver.pc # "sleeping" /\ faults < MaxFaults /\ faults' = faults + 1
    /\ torn => archiver.pc \in {"write", "snapshot"}
    /\ parquet' = IF torn /\ archiver.pc = "write" THEN WithFile(parquet, CurrentHour, {}) ELSE parquet
    /\ snapshots' = IF torn /\ archiver.pc = "snapshot" THEN WithFile(snapshots, CurrentHour, {})
                                                         ELSE snapshots
    /\ archiver' = Sleeping
    /\ UNCHANGED <<tracked_markets, now, price_ticks, received>>

\* Files of this hour are older than archive_retention_days: _prune_archive_files
\* compares the beginning of the hour.
Expired(hour) == hour * HourLen < now - ArchiveRetention

\* prune_once, where it finds archive files to delete.
PruneArchive ==
    LET old == {h \in DOMAIN parquet \cup DOMAIN snapshots : Expired(h)}
    IN /\ old # {}
       /\ parquet' = Without(parquet, old) /\ snapshots' = Without(snapshots, old)
       /\ UNCHANGED <<tracked_markets, now, price_ticks, archiver, received, faults>>

ArchiverStep == ListHours \/ FetchRows \/ WriteParquet \/ WriteSnapshot \/ DeleteHot

Next == \/ Tick
        \/ \E a \in Assets : Track(a) \/ \E ts \in 0 .. now : IngestTick(a, ts)
        \/ ArchiverStep
        \/ \E torn \in BOOLEAN : CutShort(torn)
        \/ PruneArchive

Spec == Init /\ [][Next]_vars

\* Time passes and run_forever runs the archiver again and again.
LiveSpec == Spec /\ WF_vars(Tick) /\ WF_vars(ArchiverStep)
-----------------------------------------------------------------------------
TickSet == [asset : Assets, ts : 0 .. MaxClock]

TypeOK ==
    /\ now \in 0 .. MaxClock /\ Known \subseteq Assets
    /\ price_ticks \subseteq received /\ received \subseteq TickSet
    /\ \A h \in DOMAIN parquet : parquet[h] \subseteq {t \in received : Hour(t.ts) = h}
    /\ \A h \in DOMAIN snapshots : snapshots[h] \subseteq Known
    /\ archiver.pc \in {"sleeping", "fetch", "write", "snapshot", "delete"}
    /\ faults \in 0 .. MaxFaults

Archived(t) == LET h == Hour(t.ts) IN
    /\ h \in DOMAIN parquet /\ t \in parquet[h]
    /\ h \in DOMAIN snapshots /\ t.asset \in snapshots[h]

\* A tick leaves the hot table only when its hour's parquet file holds it and
\* the hour's snapshot lists its market, or those files are past their own
\* retention.  Late ticks, markets tracked since, runs cut short between two
\* files and pruning during the run included.
ArchivedBeforeDeleted ==
    [][\A t \in price_ticks \ price_ticks' : Archived(t) \/ Expired(Hour(t.ts))]_vars

\* Writing an hour again never takes a row out of the archive that the hot table
\* still has: only a write cut short does, and pruning.
RewriteKeepsHotRows ==
    [][\A h \in DOMAIN parquet : \A t \in parquet[h] \cap price_ticks :
         (h \in DOMAIN parquet' /\ t \in parquet'[h]) \/ Expired(h) \/ faults' # faults]_vars

\* README.md:325, price_ticks are kept only for hot_retention_hours: every tick
\* leaves the hot table once the clock is past its retention, although runs
\* may be cut short.
HotTableDrains ==
    \A t \in {u \in TickSet : u.ts < MaxClock - HotHours * HourLen} :
        t \in price_ticks ~> t \notin price_ticks

\* README.md:327: "archived parquet and `*.markets.json` snapshots are pruned
\* after `storage.archive_retention_days`": what has been archived stays in the
\* archive until then.
ArchivedRowsKept ==
    [][\A h \in DOMAIN parquet :
         (h \in DOMAIN parquet' /\ parquet[h] \subseteq parquet'[h]) \/ Expired(h)]_vars
=============================================================================
