-------------------------- MODULE TickArchiveProofs --------------------------
(***************************************************************************)
(* Proofs about TickArchive for any number of markets and ticks, any hot   *)
(* and archive retention and any lateness the hot retention covers, with   *)
(* runs cut short anywhere and pruning at any time.                        *)
(***************************************************************************)
EXTENDS TickArchive, WellFoundedInduction, NaturalsInduction, TLAPS

-----------------------------------------------------------------------------
(* The inductive invariant, by parts. *)

\* Ticks are of markets in the cache, which is what lets a snapshot list them,
\* and the files hold what their names say.
TablesOK ==
    /\ now \in 0 .. MaxClock /\ Known \subseteq Assets
    /\ price_ticks \subseteq received /\ received \subseteq TickSet
    /\ \A t \in received : t.asset \in Known
    /\ \A h \in DOMAIN parquet : parquet[h] \subseteq {t \in received : Hour(t.ts) = h}
    /\ \A h \in DOMAIN snapshots : snapshots[h] \subseteq Known
    /\ faults \in 0 .. MaxFaults

ArchiverStates == [pc : {"sleeping", "fetch", "write", "snapshot", "delete"},
                   now : Nat, hours : SUBSET Nat, rows : SUBSET TickSet]

\* The archiver has an hour in hand exactly while it works on one, and the rows
\* it has fetched are of that hour.
ArchiverOK ==
    /\ archiver \in ArchiverStates /\ archiver.now <= now
    /\ archiver.hours # {} <=> archiver.pc \in {"fetch", "write", "snapshot"}
    /\ archiver.pc = "write" =>
         archiver.rows \subseteq {t \in received : Hour(t.ts) = CurrentHour}

InParquet(t) == Hour(t.ts) \in DOMAIN parquet /\ t \in parquet[Hour(t.ts)]
Settled(t) == Archived(t) \/ Expired(Hour(t.ts))

\* A row the run under way is going to delete: its hour is still to be archived
\* or in hand, and then none of its steps has missed the row, or it is settled.
OnItsWay(t) ==
    /\ Hour(t.ts) \in archiver.hours
    /\ archiver.pc = "write" /\ Hour(t.ts) = CurrentHour => t \in archiver.rows
    /\ archiver.pc = "snapshot" /\ Hour(t.ts) = CurrentHour => InParquet(t) \/ Expired(Hour(t.ts))
DoomedRowsCovered ==
    archiver.pc # "sleeping" =>
        \A t \in price_ticks : t.ts < RetentionCutoff =>
            OnItsWay(t) \/ (Hour(t.ts) \notin archiver.hours /\ Settled(t))

\* A hot row of the hour in hand that was not fetched came after the fetch and
\* is in no file yet.
UnfetchedIsNew ==
    archiver.pc = "write" =>
        \A t \in price_ticks : Hour(t.ts) = CurrentHour /\ t \notin archiver.rows => ~InParquet(t)

ArchiveInv == TablesOK /\ ArchiverOK /\ DoomedRowsCovered /\ UnfetchedIsNew
-----------------------------------------------------------------------------
(* Arithmetic of hours. *)

\* Integer division, as far as it is needed.
LEMMA DivFacts ==
    ASSUME NEW a \in Nat, NEW b \in Nat \ {0}
    PROVE  a \div b \in Nat /\ b * (a \div b) <= a /\ a < b * ((a \div b) + 1)
<1>1. a \div b \in Nat /\ a % b \in 0 .. b - 1 /\ a = b * (a \div b) + (a % b)
  BY Z3
<1> QED BY <1>1

\* list_archivable_hours: an hour is a natural number, and a time that is more
\* than the hot retention ago lies in an earlier hour than the present.
LEMMA HourFacts ==
    /\ \A ts \in Nat : Hour(ts) \in Nat
    /\ \A ts, n \in Nat : ts < n - HotHours * HourLen => Hour(ts) < Hour(n)
<1>1. \A ts \in Nat : Hour(ts) \in Nat
  BY DivFacts, ArchiveAssumption DEF Hour
<1>2. ASSUME NEW ts \in Nat, NEW n \in Nat, ts < n - HotHours * HourLen
      PROVE  Hour(ts) < Hour(n)
  <2> DEFINE p == ts \div HourLen
             q == n \div HourLen
  <2>1. /\ p \in Nat /\ HourLen * p <= ts
        /\ q \in Nat /\ n < HourLen * (q + 1)
    BY DivFacts, ArchiveAssumption
  <2>2. HotHours * HourLen >= HourLen
    BY ArchiveAssumption
  <2> HIDE DEF p, q
  <2>3. HourLen * p + HourLen < HourLen * (q + 1)
    BY <1>2, <2>1, <2>2, ArchiveAssumption
  <2>4. ASSUME q <= p PROVE FALSE
    <3>1. HourLen * (q + 1) <= HourLen * (p + 1)
      BY <2>1, <2>4, ArchiveAssumption
    <3>2. HourLen * (p + 1) = HourLen * p + HourLen
      BY <2>1, ArchiveAssumption
    <3>3. HourLen * p \in Int /\ HourLen * (q + 1) \in Int /\ HourLen \in Int
      BY <2>1, ArchiveAssumption
    <3> QED BY <2>3, <3>1, <3>2, <3>3
  <2> QED BY <2>1, <2>4 DEF Hour, p, q
<1> QED BY <1>1, <1>2

\* The for loop of archive_once always finds its next hour among those left.
LEMMA CurrentHourFact ==
    ASSUME archiver.hours \subseteq Nat, archiver.hours # {}
    PROVE  CurrentHour \in archiver.hours
<1> DEFINE R == {ss \in Nat \X Nat : ss[1] < ss[2]}
<1>1. IsWellFoundedOn(R, Nat)
  BY NatLessThanWellFounded, Zenon DEF OpToRel
<1>2. \E x \in archiver.hours : \A y \in archiver.hours : <<y, x>> \notin R
  <2> HIDE DEF R
  <2> QED BY <1>1, WFMin, Zenon
<1>3. \E x \in archiver.hours : \A y \in archiver.hours : x <= y
  <2>1. PICK x \in archiver.hours : \A y \in archiver.hours : <<y, x>> \notin R
    BY <1>2
  <2>2. ASSUME NEW y \in archiver.hours PROVE x <= y
    <3>1. x \in Nat /\ y \in Nat
      OBVIOUS
    <3>2. <<y, x>> \notin R
      BY <2>1
    <3>3. ~(y < x)
      BY <3>1, <3>2
    <3> QED BY <3>1, <3>3
  <2> QED BY <2>2
<1> QED BY <1>3, Zenon DEF CurrentHour, Min

-----------------------------------------------------------------------------
(* Each action preserves the invariant. *)

\* What every step uses of the types.
LEMMA Basics ==
    ASSUME ArchiveInv
    PROVE  /\ now \in Nat /\ archiver.now \in Nat /\ RetentionCutoff \in Int
           /\ archiver.pc \in {"sleeping", "fetch", "write", "snapshot", "delete"}
           /\ archiver.hours \subseteq Nat
           /\ archiver.hours # {} => CurrentHour \in archiver.hours
           /\ \A t \in received : t.ts \in Nat /\ t.asset \in Known /\ Hour(t.ts) \in Nat
<1>1. now \in Nat /\ received \subseteq TickSet
  BY ArchiveAssumption DEF ArchiveInv, TablesOK
<1>2. /\ archiver.now \in Nat /\ archiver.hours \subseteq Nat
      /\ archiver.pc \in {"sleeping", "fetch", "write", "snapshot", "delete"}
  BY DEF ArchiveInv, ArchiverOK, ArchiverStates
<1>3. RetentionCutoff \in Int
  BY <1>2, ArchiveAssumption DEF RetentionCutoff
<1>4. \A t \in received : t.ts \in Nat /\ t.asset \in Known
  BY <1>1, ArchiveAssumption DEF ArchiveInv, TablesOK, TickSet
<1> QED BY <1>1, <1>2, <1>3, <1>4, CurrentHourFact, HourFacts

LEMMA InitArchive == Init => ArchiveInv
<1> SUFFICES ASSUME Init PROVE ArchiveInv
  OBVIOUS
<1>1. TablesOK
  BY ArchiveAssumption DEF Init, TablesOK, Known
<1>2. ArchiverOK
  BY ArchiveAssumption DEF Init, ArchiverOK, ArchiverStates, Sleeping
<1>3. DoomedRowsCovered /\ UnfetchedIsNew
  BY DEF Init, Sleeping, DoomedRowsCovered, UnfetchedIsNew
<1> QED BY <1>1, <1>2, <1>3 DEF ArchiveInv

\* An hour whose files are past their retention stays so.
LEMMA LaterStill ==
    ASSUME NEW a \in Int, NEW b \in Int, NEW m \in Int, NEW n \in Int, m <= n, a < m - b
    PROVE  a < n - b
  OBVIOUS
LEMMA ExpiredStays ==
    ASSUME NEW h \in Nat, now \in Nat, now' \in Nat, now <= now', Expired(h)
    PROVE  Expired(h)'
<1>1. h * HourLen \in Int /\ ArchiveRetention \in Int
  BY ArchiveAssumption
<1> QED BY <1>1, LaterStill DEF Expired

\* Time passes, and the rows in danger are those of the run under way as before.
LEMMA TickStep == ASSUME ArchiveInv, Tick PROVE ArchiveInv'
<1>0. /\ now' = now + 1 /\ now < MaxClock
      /\ UNCHANGED <<tracked_markets, price_ticks, parquet, snapshots, archiver, received, faults>>
  BY DEF Tick, files
<1>1. TablesOK'
  BY <1>0, ArchiveAssumption DEF ArchiveInv, TablesOK, Known, Hour
<1>2. ArchiverOK'
  BY <1>0, Basics DEF ArchiveInv, ArchiverOK, CurrentHour, Hour
<1>3. DoomedRowsCovered'
  <2> SUFFICES ASSUME archiver.pc # "sleeping", NEW t \in price_ticks, t.ts < RetentionCutoff
               PROVE  (OnItsWay(t) \/ (Hour(t.ts) \notin archiver.hours /\ Settled(t)))'
    BY <1>0 DEF DoomedRowsCovered, RetentionCutoff
  <2>1. OnItsWay(t) \/ (Hour(t.ts) \notin archiver.hours /\ Settled(t))
    BY DEF ArchiveInv, DoomedRowsCovered
  <2>2. Expired(Hour(t.ts)) => Expired(Hour(t.ts))'
    <3>1. Hour(t.ts) \in Nat /\ now' \in Nat /\ now <= now'
      BY <1>0, Basics DEF ArchiveInv, TablesOK
    <3> QED BY <3>1, Basics, ExpiredStays DEF Hour
  <2> QED BY <1>0, <2>1, <2>2 DEF OnItsWay, Settled, Archived, InParquet, Hour, CurrentHour
<1>4. UnfetchedIsNew'
  BY <1>0 DEF ArchiveInv, UnfetchedIsNew, InParquet, CurrentHour, Hour
<1> QED BY <1>1, <1>2, <1>3, <1>4 DEF ArchiveInv

\* The cache only grows.
LEMMA TrackStep == ASSUME ArchiveInv, NEW a \in Assets, Track(a) PROVE ArchiveInv'
<1>0. /\ Known' = Known \cup {a}
      /\ UNCHANGED <<now, price_ticks, parquet, snapshots, archiver, received, faults>>
  BY DEF Track, files, UpsertTrackedMarkets, Known
<1>1. TablesOK'
  BY <1>0 DEF ArchiveInv, TablesOK, Hour
<1>2. ArchiverOK'
  BY <1>0 DEF ArchiveInv, ArchiverOK, CurrentHour, Hour
<1>3. DoomedRowsCovered'
  BY <1>0 DEF ArchiveInv, DoomedRowsCovered, RetentionCutoff, OnItsWay, Settled, Archived,
              Expired, InParquet, Hour, CurrentHour
<1>4. UnfetchedIsNew'
  BY <1>0 DEF ArchiveInv, UnfetchedIsNew, InParquet, CurrentHour, Hour
<1> QED BY <1>1, <1>2, <1>3, <1>4 DEF ArchiveInv

\* ArchiveAssumption: a tick is not late by the whole hot retention.
LEMMA NotSoLate ==
    ASSUME NEW n \in Int, NEW m \in Int, NEW t \in Int, NEW lag \in Int, NEW hot \in Int,
           m <= n, n - t <= lag, lag <= hot
    PROVE  ~(t < m - hot)
  OBVIOUS

\* A tick that comes in is too young for the run under way to delete, and, being
\* new, in no file.
LEMMA IngestStep ==
    ASSUME ArchiveInv, NEW a \in Assets, NEW ts \in 0 .. now, IngestTick(a, ts)
    PROVE  ArchiveInv'
<1> DEFINE new == [asset |-> a, ts |-> ts]
<1>0. /\ a \in Known /\ now - ts <= MaxLag /\ new \notin received
      /\ price_ticks' = price_ticks \cup {new} /\ received' = received \cup {new}
      /\ UNCHANGED <<tracked_markets, now, parquet, snapshots, archiver, faults>>
  BY DEF IngestTick, files
<1>a. Known' = Known
  BY <1>0 DEF Known
<1>b. new.asset = a /\ new.ts = ts /\ new \in TickSet
  BY ArchiveAssumption DEF TickSet, ArchiveInv, TablesOK
<1> HIDE DEF new
<1>1. TablesOK'
  BY <1>0, <1>a, <1>b DEF ArchiveInv, TablesOK, Hour
<1>2. ArchiverOK'
  BY <1>0 DEF ArchiveInv, ArchiverOK, CurrentHour, Hour
<1>3. DoomedRowsCovered'
  <2>1. HotHours * HourLen \in Int /\ MaxLag \in Int /\ MaxLag <= HotHours * HourLen
    BY ArchiveAssumption
  <2>a. now \in Int /\ archiver.now \in Int /\ archiver.now <= now /\ ts \in Int
    BY Basics DEF ArchiveInv, ArchiverOK
  <2>2. ~(ts < RetentionCutoff)
    BY <1>0, <2>1, <2>a, NotSoLate DEF RetentionCutoff
  <2> QED
    BY <1>0, <1>b, <2>2 DEF ArchiveInv, DoomedRowsCovered, RetentionCutoff, OnItsWay, Settled,
                            Archived, Expired, InParquet, Hour, CurrentHour
<1>4. UnfetchedIsNew'
  <2>1. ~InParquet(new)
    BY <1>0 DEF ArchiveInv, TablesOK, InParquet
  <2> QED BY <1>0, <2>1 DEF ArchiveInv, UnfetchedIsNew, InParquet, CurrentHour, Hour
<1> QED BY <1>1, <1>2, <1>3, <1>4 DEF ArchiveInv

\* list_archivable_hours lists the hour of every row the run will delete.
LEMMA ListStep == ASSUME ArchiveInv, ListHours PROVE ArchiveInv'
<1> DEFINE hours == ArchivableHours(now)
<1>0. /\ archiver' = [pc |-> IF hours = {} THEN "delete" ELSE "fetch", now |-> now,
                      hours |-> hours, rows |-> {}]
      /\ UNCHANGED <<tracked_markets, now, price_ticks, parquet, snapshots, received, faults>>
  BY DEF ListHours, files
<1>a. hours \subseteq Nat
  BY Basics DEF ArchivableHours, ArchiveInv, TablesOK
<1>1. TablesOK'
  BY <1>0 DEF ArchiveInv, TablesOK, Hour, Known
<1>2. ArchiverOK'
  <2> HIDE DEF hours
  <2>1. /\ archiver'.pc = (IF hours = {} THEN "delete" ELSE "fetch") /\ archiver'.now = now
        /\ archiver'.hours = hours
    BY <1>0
  <2>2. archiver' \in ArchiverStates
    BY <1>0, <1>a, Basics DEF ArchiverStates
  <2>3. now' = now /\ now <= now
    BY <1>0, Basics
  <2> QED BY <2>1, <2>2, <2>3 DEF ArchiverOK
<1>3. DoomedRowsCovered'
  <2> SUFFICES ASSUME NEW t \in price_ticks, t.ts < now - HotHours * HourLen
               PROVE  OnItsWay(t)'
    BY <1>0 DEF DoomedRowsCovered, RetentionCutoff
  <2>1. Hour(t.ts) < Hour(now)
    BY HourFacts, Basics DEF ArchiveInv, TablesOK
  <2>2. Hour(t.ts) \in hours
    BY <2>1 DEF ArchivableHours
  <2> HIDE DEF hours
  <2> QED BY <1>0, <2>2 DEF OnItsWay, Hour
<1>4. UnfetchedIsNew'
  BY <1>0 DEF UnfetchedIsNew
<1> QED BY <1>1, <1>2, <1>3, <1>4 DEF ArchiveInv

\* The rows fetched are all there are of the hour, so a hot row of it that is
\* not among them does not exist yet.  An hour without rows is left.
LEMMA FetchStep == ASSUME ArchiveInv, FetchRows PROVE ArchiveInv'
<1> DEFINE rows == RowsOf(CurrentHour)
           left == archiver.hours \ {CurrentHour}
<1>0. /\ archiver.pc = "fetch"
      /\ UNCHANGED <<tracked_markets, now, price_ticks, parquet, snapshots, received, faults>>
      /\ IF rows = {} THEN archiver' = [archiver EXCEPT !.hours = left, !.rows = {},
                                          !.pc = IF left = {} THEN "delete" ELSE "fetch"]
                      ELSE archiver' = [archiver EXCEPT !.pc = "write", !.rows = rows]
  BY DEF FetchRows, files, NextHour
<1>a. /\ archiver \in ArchiverStates /\ CurrentHour \in archiver.hours /\ archiver.hours \subseteq Nat
      /\ archiver.now <= now /\ price_ticks \subseteq received
  BY <1>0, Basics DEF ArchiveInv, ArchiverOK, TablesOK
<1>b. rows \subseteq TickSet /\ rows \subseteq {t \in received : Hour(t.ts) = CurrentHour}
  BY DEF RowsOf, ArchiveInv, TablesOK
<1>c. \A t \in price_ticks : Hour(t.ts) = CurrentHour => t \in rows
  BY DEF RowsOf
<1>d. \A t \in price_ticks : t.ts < RetentionCutoff =>
         Hour(t.ts) \in archiver.hours \/ (Hour(t.ts) \notin archiver.hours /\ Settled(t))
  BY <1>0 DEF ArchiveInv, DoomedRowsCovered, OnItsWay
<1>1. TablesOK'
  BY <1>0 DEF ArchiveInv, TablesOK, Hour, Known
<1> HIDE DEF rows
<1>2. CASE rows = {}
  <2>0. /\ archiver'.hours = left /\ archiver'.now = archiver.now
        /\ archiver'.pc = (IF left = {} THEN "delete" ELSE "fetch")
        /\ archiver' \in ArchiverStates
    BY <1>0, <1>a, <1>2 DEF ArchiverStates
  <2>1. ArchiverOK'
    BY <1>0, <1>a, <2>0 DEF ArchiverOK
  <2>2. DoomedRowsCovered'
    <3> SUFFICES ASSUME NEW t \in price_ticks, t.ts < RetentionCutoff
                 PROVE  (OnItsWay(t) \/ (Hour(t.ts) \notin archiver.hours /\ Settled(t)))'
      BY <1>0, <2>0 DEF DoomedRowsCovered, RetentionCutoff
    <3>1. Hour(t.ts) # CurrentHour
      BY <1>2, <1>c
    <3>2. CASE Hour(t.ts) \in archiver.hours
      BY <2>0, <3>1, <3>2 DEF OnItsWay, Hour
    <3>3. CASE Hour(t.ts) \notin archiver.hours /\ Settled(t)
      BY <1>0, <2>0, <3>3 DEF Settled, Archived, Expired, Hour
    <3> QED BY <1>d, <3>2, <3>3
  <2>3. UnfetchedIsNew'
    BY <2>0 DEF UnfetchedIsNew
  <2> QED BY <1>1, <2>1, <2>2, <2>3 DEF ArchiveInv
<1>3. CASE rows # {}
  <2>0. /\ archiver'.hours = archiver.hours /\ archiver'.now = archiver.now
        /\ archiver'.pc = "write" /\ archiver'.rows = rows
        /\ archiver' \in ArchiverStates
    BY <1>0, <1>a, <1>b, <1>3 DEF ArchiverStates
  <2>a. CurrentHour' = CurrentHour
    BY <2>0 DEF CurrentHour
  <2>1. ArchiverOK'
    BY <1>0, <1>a, <1>b, <2>0, <2>a DEF ArchiverOK, Hour
  <2>2. DoomedRowsCovered'
    <3> SUFFICES ASSUME NEW t \in price_ticks, t.ts < RetentionCutoff
                 PROVE  (OnItsWay(t) \/ (Hour(t.ts) \notin archiver.hours /\ Settled(t)))'
      BY <1>0, <2>0 DEF DoomedRowsCovered, RetentionCutoff
    <3>2. CASE Hour(t.ts) \in archiver.hours
      BY <1>c, <2>0, <2>a, <3>2 DEF OnItsWay, Hour
    <3>3. CASE Hour(t.ts) \notin archiver.hours /\ Settled(t)
      BY <1>0, <2>0, <3>3 DEF Settled, Archived, Expired, Hour
    <3> QED BY <1>d, <3>2, <3>3
  <2>3. UnfetchedIsNew'
    BY <1>0, <1>c, <2>0, <2>a DEF UnfetchedIsNew, Hour
  <2> QED BY <1>1, <2>1, <2>2, <2>3 DEF ArchiveInv
<1> QED BY <1>2, <1>3

\* The new file of the hour holds what was fetched; a row of the hour in hand
\* that the run will delete was fetched.
LEMMA WriteStep == ASSUME ArchiveInv, WriteParquet PROVE ArchiveInv'
<1>0. /\ archiver.pc = "write"
      /\ archiver' = [archiver EXCEPT !.pc = "snapshot"]
      /\ parquet' = [h \in DOMAIN parquet \cup {CurrentHour} |->
                       IF h = CurrentHour THEN archiver.rows ELSE parquet[h]]
      /\ UNCHANGED <<tracked_markets, now, price_ticks, snapshots, received, faults>>
  BY DEF WriteParquet, WithFile
<1>a. /\ archiver \in ArchiverStates /\ CurrentHour \in archiver.hours /\ archiver.now <= now
      /\ archiver.rows \subseteq {t \in received : Hour(t.ts) = CurrentHour}
  BY <1>0, Basics DEF ArchiveInv, ArchiverOK
<1>b. /\ archiver'.hours = archiver.hours /\ archiver'.now = archiver.now
      /\ archiver'.pc = "snapshot" /\ archiver' \in ArchiverStates
  BY <1>0, <1>a DEF ArchiverStates
<1>c. CurrentHour' = CurrentHour
  BY <1>b DEF CurrentHour
<1>d. /\ DOMAIN parquet' = DOMAIN parquet \cup {CurrentHour}
      /\ parquet'[CurrentHour] = archiver.rows
      /\ \A h \in DOMAIN parquet : h # CurrentHour => parquet'[h] = parquet[h]
  BY <1>0
<1>1. TablesOK'
  <2>1. ASSUME NEW h \in DOMAIN parquet'
        PROVE  parquet'[h] \subseteq {t \in received : Hour(t.ts) = h}
    <3>1. CASE h = CurrentHour
      BY <1>a, <1>d, <3>1
    <3>2. CASE h # CurrentHour
      BY <1>d, <3>2 DEF ArchiveInv, TablesOK
    <3> QED BY <3>1, <3>2
  <2> QED BY <1>0, <2>1 DEF ArchiveInv, TablesOK, Hour, Known
<1>2. ArchiverOK'
  BY <1>0, <1>a, <1>b DEF ArchiverOK
<1>3. DoomedRowsCovered'
  <2> SUFFICES ASSUME NEW t \in price_ticks, t.ts < RetentionCutoff
               PROVE  (OnItsWay(t) \/ (Hour(t.ts) \notin archiver.hours /\ Settled(t)))'
    BY <1>0, <1>b DEF DoomedRowsCovered, RetentionCutoff
  <2>1. OnItsWay(t) \/ (Hour(t.ts) \notin archiver.hours /\ Settled(t))
    BY <1>0 DEF ArchiveInv, DoomedRowsCovered
  <2>2. CASE OnItsWay(t)
    <3>1. Hour(t.ts) = CurrentHour => InParquet(t)'
      BY <1>0, <1>d, <2>2 DEF OnItsWay, InParquet, Hour
    <3> QED BY <1>b, <1>c, <2>2, <3>1 DEF OnItsWay, Hour
  <2>3. CASE Hour(t.ts) \notin archiver.hours /\ Settled(t)
    <3>1. Hour(t.ts) # CurrentHour
      BY <1>a, <2>3
    <3>2. Settled(t)'
      BY <1>0, <1>d, <2>3, <3>1 DEF Settled, Archived, Expired, Hour
    <3> QED BY <1>b, <2>3, <3>2 DEF Hour
  <2> QED BY <2>1, <2>2, <2>3
<1>4. UnfetchedIsNew'
  BY <1>b DEF UnfetchedIsNew
<1> QED BY <1>1, <1>2, <1>3, <1>4 DEF ArchiveInv

\* The snapshot lists every market there is, so the rows of the hour's file are
\* settled and the hour is left.
LEMMA SnapshotStep == ASSUME ArchiveInv, WriteSnapshot PROVE ArchiveInv'
<1> DEFINE left == archiver.hours \ {CurrentHour}
<1>0. /\ archiver.pc = "snapshot"
      /\ archiver' = [archiver EXCEPT !.hours = left, !.rows = {},
                          !.pc = IF left = {} THEN "delete" ELSE "fetch"]
      /\ snapshots' = [h \in DOMAIN snapshots \cup {CurrentHour} |->
                         IF h = CurrentHour THEN Known ELSE snapshots[h]]
      /\ UNCHANGED <<tracked_markets, now, price_ticks, parquet, received, faults>>
  BY DEF WriteSnapshot, WithFile, NextHour
<1>a. /\ archiver \in ArchiverStates /\ CurrentHour \in archiver.hours /\ archiver.now <= now
      /\ archiver.hours \subseteq Nat
  BY <1>0, Basics DEF ArchiveInv, ArchiverOK
<1>b. /\ archiver'.hours = left /\ archiver'.now = archiver.now
      /\ archiver'.pc = (IF left = {} THEN "delete" ELSE "fetch")
      /\ archiver' \in ArchiverStates
  BY <1>0, <1>a DEF ArchiverStates
<1>d. /\ DOMAIN snapshots' = DOMAIN snapshots \cup {CurrentHour}
      /\ snapshots'[CurrentHour] = Known
      /\ \A h \in DOMAIN snapshots : h # CurrentHour => snapshots'[h] = snapshots[h]
  BY <1>0
<1>1. TablesOK'
  BY <1>0, <1>d DEF ArchiveInv, TablesOK, Hour, Known
<1>2. ArchiverOK'
  BY <1>0, <1>a, <1>b DEF ArchiverOK
<1>3. DoomedRowsCovered'
  <2> SUFFICES ASSUME NEW t \in price_ticks, t.ts < RetentionCutoff
               PROVE  (OnItsWay(t) \/ (Hour(t.ts) \notin archiver.hours /\ Settled(t)))'
    BY <1>0, <1>b DEF DoomedRowsCovered, RetentionCutoff
  <2>1. OnItsWay(t) \/ (Hour(t.ts) \notin archiver.hours /\ Settled(t))
    BY <1>0 DEF ArchiveInv, DoomedRowsCovered
  <2>2. CASE Hour(t.ts) \in archiver.hours /\ Hour(t.ts) # CurrentHour
    BY <1>b, <2>2 DEF OnItsWay, Hour
  <2>3. CASE Hour(t.ts) = CurrentHour
    <3>1. InParquet(t) \/ Expired(Hour(t.ts))
      BY <1>0, <1>a, <2>1, <2>3 DEF OnItsWay
    <3>2. t.asset \in Known
      BY Basics DEF ArchiveInv, TablesOK
    <3>3. Settled(t)'
      BY <1>0, <1>d, <2>3, <3>1, <3>2 DEF Settled, Archived, InParquet, Expired, Hour
    <3> QED BY <1>b, <2>3, <3>3 DEF Hour
  <2>4. CASE Hour(t.ts) \notin archiver.hours
    <3>1. Hour(t.ts) # CurrentHour /\ Settled(t)
      BY <1>a, <2>1, <2>4 DEF OnItsWay
    <3>2. Settled(t)'
      BY <1>0, <1>d, <3>1 DEF Settled, Archived, Expired, Hour
    <3> QED BY <1>b, <2>4, <3>2 DEF Hour
  <2> QED BY <2>2, <2>3, <2>4
<1>4. UnfetchedIsNew'
  BY <1>b DEF UnfetchedIsNew
<1> QED BY <1>1, <1>2, <1>3, <1>4 DEF ArchiveInv

\* A run that is over, deleted rows or cut short, leaves nothing to cover.
LEMMA AsleepOK ==
    ASSUME now' \in Nat, archiver' = Sleeping
    PROVE  ArchiverOK' /\ DoomedRowsCovered' /\ UnfetchedIsNew'
<1>1. ArchiverOK'
  BY DEF ArchiverOK, ArchiverStates, Sleeping
<1> QED BY <1>1 DEF DoomedRowsCovered, UnfetchedIsNew, Sleeping

LEMMA DeleteStep == ASSUME ArchiveInv, DeleteHot PROVE ArchiveInv'
<1>0. /\ archiver' = Sleeping /\ price_ticks' \subseteq price_ticks
      /\ UNCHANGED <<tracked_markets, now, parquet, snapshots, received, faults>>
  BY DEF DeleteHot, files
<1>1. TablesOK'
  BY <1>0 DEF ArchiveInv, TablesOK, Hour, Known
<1> QED BY <1>0, <1>1, Basics, AsleepOK DEF ArchiveInv

LEMMA CutShortStep == ASSUME ArchiveInv, NEW torn \in BOOLEAN, CutShort(torn) PROVE ArchiveInv'
<1>0. /\ archiver' = Sleeping /\ faults < MaxFaults /\ faults' = faults + 1
      /\ parquet' = parquet \/ parquet' = WithFile(parquet, CurrentHour, {})
      /\ snapshots' = snapshots \/ snapshots' = WithFile(snapshots, CurrentHour, {})
      /\ UNCHANGED <<tracked_markets, now, price_ticks, received>>
  BY DEF CutShort
<1>a. faults' \in 0 .. MaxFaults
  BY <1>0, ArchiveAssumption DEF ArchiveInv, TablesOK
<1>b. ASSUME NEW h \in DOMAIN parquet'
      PROVE  parquet'[h] = {} \/ (h \in DOMAIN parquet /\ parquet'[h] = parquet[h])
  BY <1>0 DEF WithFile
<1>c. ASSUME NEW h \in DOMAIN snapshots'
      PROVE  snapshots'[h] = {} \/ (h \in DOMAIN snapshots /\ snapshots'[h] = snapshots[h])
  BY <1>0 DEF WithFile
<1>1. TablesOK'
  BY <1>0, <1>a, <1>b, <1>c DEF ArchiveInv, TablesOK, Hour, Known
<1> QED BY <1>0, <1>1, Basics, AsleepOK DEF ArchiveInv

\* Pruning takes only files of hours that are past the archive's retention, and
\* the archive owes a row of such an hour nothing.
LEMMA PruneStep == ASSUME ArchiveInv, PruneArchive PROVE ArchiveInv'
<1>0. UNCHANGED <<tracked_markets, now, price_ticks, archiver, received, faults>>
  BY DEF PruneArchive
<1>a. /\ \A h \in DOMAIN parquet' : h \in DOMAIN parquet /\ parquet'[h] = parquet[h]
      /\ \A h \in DOMAIN snapshots' : h \in DOMAIN snapshots /\ snapshots'[h] = snapshots[h]
      /\ \A h \in DOMAIN parquet \ DOMAIN parquet' : Expired(h)
      /\ \A h \in DOMAIN snapshots \ DOMAIN snapshots' : Expired(h)
  BY DEF PruneArchive, Without
<1>1. TablesOK'
  BY <1>0, <1>a DEF ArchiveInv, TablesOK, Hour, Known
<1>2. ArchiverOK'
  BY <1>0 DEF ArchiveInv, ArchiverOK, CurrentHour, Hour
<1>3. DoomedRowsCovered'
  <2> SUFFICES ASSUME archiver.pc # "sleeping", NEW t \in price_ticks, t.ts < RetentionCutoff
               PROVE  (OnItsWay(t) \/ (Hour(t.ts) \notin archiver.hours /\ Settled(t)))'
    BY <1>0 DEF DoomedRowsCovered, RetentionCutoff
  <2>1. OnItsWay(t) \/ (Hour(t.ts) \notin archiver.hours /\ Settled(t))
    BY DEF ArchiveInv, DoomedRowsCovered
  <2>2. InParquet(t) => InParquet(t)' \/ Expired(Hour(t.ts))'
    BY <1>0, <1>a DEF InParquet, Expired, Hour
  <2>3. Settled(t) => Settled(t)'
    BY <1>0, <1>a DEF Settled, Archived, Expired, Hour
  <2>4. Expired(Hour(t.ts)) => Expired(Hour(t.ts))'
    BY <1>0 DEF Expired, Hour
  <2> QED BY <1>0, <2>1, <2>2, <2>3, <2>4 DEF OnItsWay, Hour, CurrentHour
<1>4. UnfetchedIsNew'
  BY <1>0, <1>a DEF ArchiveInv, UnfetchedIsNew, InParquet, CurrentHour, Hour
<1> QED BY <1>1, <1>2, <1>3, <1>4 DEF ArchiveInv

LEMMA StutterStep == ASSUME ArchiveInv, UNCHANGED vars PROVE ArchiveInv'
  BY DEF ArchiveInv, vars, TablesOK, ArchiverOK, DoomedRowsCovered, UnfetchedIsNew, Hour, Known,
         CurrentHour, RetentionCutoff, OnItsWay, Settled, Archived, Expired, InParquet

\* The tables, the files and the archiver's locals agree in every state: the
\* invariant the theorems below rest on.
THEOREM ArchiveInvariant == Spec => []ArchiveInv
<1>1. ASSUME ArchiveInv, [Next]_vars PROVE ArchiveInv'
  <2>1. CASE Tick
    BY <1>1, <2>1, TickStep
  <2>2. CASE \E a \in Assets : Track(a) \/ \E ts \in 0 .. now : IngestTick(a, ts)
    BY <1>1, <2>2, TrackStep, IngestStep
  <2>3. CASE ArchiverStep
    BY <1>1, <2>3, ListStep, FetchStep, WriteStep, SnapshotStep, DeleteStep DEF ArchiverStep
  <2>4. CASE \E torn \in BOOLEAN : CutShort(torn)
    BY <1>1, <2>4, CutShortStep
  <2>5. CASE PruneArchive
    BY <1>1, <2>5, PruneStep
  <2>6. CASE UNCHANGED vars
    BY <1>1, <2>6, StutterStep
  <2> QED BY <1>1, <2>1, <2>2, <2>3, <2>4, <2>5, <2>6 DEF Next
<1> QED BY <1>1, InitArchive, PTL DEF Spec
-----------------------------------------------------------------------------
(* The theorems. *)

\* The hot table holds received ticks of known markets only, every parquet file
\* only rows of its hour, and every snapshot only markets of the cache.
THEOREM ArchiveTypeCorrect == Spec => []TypeOK
<1>1. ArchiveInv => TypeOK
  BY DEF ArchiveInv, TablesOK, ArchiverOK, ArchiverStates, TypeOK
<1> QED BY <1>1, ArchiveInvariant, PTL

\* delete_price_ticks_before removes a tick only once its hour's file and
\* snapshot hold it (or are past their own retention), whatever was cut short,
\* late, or pruned meanwhile.
THEOREM NothingDeletedUnarchived == Spec => ArchivedBeforeDeleted
<1>1. ASSUME ArchiveInv, [Next]_vars
      PROVE  [\A t \in price_ticks \ price_ticks' : Archived(t) \/ Expired(Hour(t.ts))]_vars
  <2>1. CASE DeleteHot
    <3>1. archiver.pc = "delete" /\ price_ticks' = {t \in price_ticks : t.ts >= RetentionCutoff}
      BY <2>1 DEF DeleteHot
    <3>2. archiver.hours = {}
      BY <1>1, <3>1 DEF ArchiveInv, ArchiverOK
    <3>3. ASSUME NEW t \in price_ticks \ price_ticks' PROVE Archived(t) \/ Expired(Hour(t.ts))
      <4>1. t.ts < RetentionCutoff
        <5>1. ~(t.ts >= RetentionCutoff) /\ t.ts \in Int /\ RetentionCutoff \in Int
          BY <1>1, <3>1, Basics DEF ArchiveInv, TablesOK
        <5> QED BY <5>1
      <4> QED BY <1>1, <3>1, <3>2, <4>1 DEF ArchiveInv, DoomedRowsCovered, OnItsWay, Settled
    <3> QED BY <3>3
  <2>2. CASE ~DeleteHot
    <3>1. price_ticks \subseteq price_ticks'
      BY <1>1, <2>2 DEF Next, vars, Tick, Track, IngestTick, ArchiverStep, ListHours, FetchRows,
                        WriteParquet, WriteSnapshot, CutShort, PruneArchive
    <3> QED BY <3>1
  <2> QED BY <2>1, <2>2
<1> QED BY <1>1, ArchiveInvariant, PTL DEF Spec, ArchivedBeforeDeleted

\* _write_parquet replaces an hour's file, yet never loses a row that is still
\* hot: what the run did not fetch is newer than the file it replaces.
THEOREM RewriteLosesNothingHot == Spec => RewriteKeepsHotRows
<1> DEFINE Kept(h, t) == (h \in DOMAIN parquet' /\ t \in parquet'[h]) \/ Expired(h) \/ faults' # faults
<1>1. ASSUME ArchiveInv, [Next]_vars
      PROVE  [\A h \in DOMAIN parquet : \A t \in parquet[h] \cap price_ticks : Kept(h, t)]_vars
  <2> SUFFICES ASSUME NEW h \in DOMAIN parquet, NEW t \in parquet[h] \cap price_ticks
               PROVE  Kept(h, t)
    OBVIOUS
  <2>1. CASE WriteParquet
    <3>1. /\ archiver.pc = "write" /\ h \in DOMAIN parquet'
          /\ parquet'[h] = IF h = CurrentHour THEN archiver.rows ELSE parquet[h]
      BY <2>1 DEF WriteParquet, WithFile
    <3>2. Hour(t.ts) = h
      BY <1>1 DEF ArchiveInv, TablesOK
    <3>3. h = CurrentHour => t \in archiver.rows
      BY <1>1, <3>1, <3>2 DEF ArchiveInv, UnfetchedIsNew, InParquet
    <3> QED BY <3>1, <3>3
  <2>2. CASE \E torn \in BOOLEAN : CutShort(torn)
    <3>1. faults' = faults + 1 /\ faults \in Int
      BY <1>1, <2>2, ArchiveAssumption DEF CutShort, ArchiveInv, TablesOK
    <3> QED BY <3>1
  <2>3. CASE PruneArchive
    BY <2>3 DEF PruneArchive, Without
  <2>4. CASE UNCHANGED parquet
    BY <2>4
  <2>5. \/ WriteParquet \/ (\E torn \in BOOLEAN : CutShort(torn)) \/ PruneArchive
        \/ UNCHANGED parquet
    BY <1>1 DEF Next, vars, files, Tick, Track, IngestTick, ArchiverStep, ListHours, FetchRows,
                WriteSnapshot, DeleteHot
  <2> QED BY <2>1, <2>2, <2>3, <2>4, <2>5
<1> QED BY <1>1, ArchiveInvariant, PTL DEF Spec, RewriteKeepsHotRows
=============================================================================
