------------------------------ MODULE Detector ------------------------------
(***************************************************************************)
(* ShiftDetector of src/sentinel/processing/detector.py.  ingest_tick      *)
(* folds ticks into one-second bars per market; scan_once walks over the   *)
(* markets and the alert levels and waits for the store after every alert  *)
(* it creates.  At that wait ticks are ingested, markets are switched on   *)
(* and off and remove_asset runs, while the scan goes on with the deque it *)
(* took when it began: an orphan, once remove_asset has dropped it from    *)
(* _bars_by_asset.  One step of the scan runs from one wait to the next.   *)
(*                                                                         *)
(* The clock counts seconds; prices are integers.                          *)
(***************************************************************************)
EXTENDS MarketStore, Integers, Sequences, SequencesExt

CONSTANTS Levels,        \* alert levels in the order they are scanned
          WindowSec, DeltaPct, MinTicks,   \* per level: ThresholdConfig
          CooldownSec, BufferSec, StaleSec, WarmupSec, QuoteSec, MaxSpread,
          Strong, Moderate   \* [age, spread, ticks] limits of the confidences

ASSUME DetectorAssumption ==
    /\ Levels \in Seq(STRING)
    /\ {CooldownSec, BufferSec, WarmupSec} \subseteq Nat
    /\ \A n \in DOMAIN Levels : WindowSec[Levels[n]] \in Nat

VARIABLES now,
          bars_by_asset,   \* asset -> sequence of bars
          latest_tick,     \* asset -> the tick ingested last
          cooldowns,       \* <<asset, level>> -> end of the cooldown
          scan             \* scan_once: its stage and locals

detector_vars == <<bars_by_asset, latest_tick, cooldowns, scan>>

\* None as a spread: a last_trade tick.
NoSpread == -1

\* todo: the markets left, the current one first; level: the levels of it that
\* are done, 0 before _should_skip; pending: the alert being stored.
Resting == [pc |-> "sleeping", todo |-> <<>>, level |-> 0, orphans |-> <<>>,
            pending |-> <<>>, alerts |-> <<>>]

DetectorInit == /\ bars_by_asset = <<>> /\ latest_tick = <<>> /\ cooldowns = <<>>
                /\ scan = Resting

Without(map, keys) == Restrict(map, DOMAIN map \ keys)
With(map, key, value) == [x \in DOMAIN map \cup {key} |-> IF x = key THEN value ELSE map[x]]
-----------------------------------------------------------------------------
NewBar(tick) == [sec |-> tick.ts, open |-> tick.price, last |-> tick.price, count |-> 1,
                 spread |-> tick.spread, quote_ts |-> tick.ts]

\* A tick without a spread leaves the bar's quote alone.
UpdatedBar(bar, tick) ==
    LET traded == [bar EXCEPT !.last = tick.price, !.count = @ + 1]
    IN IF tick.spread = NoSpread THEN traded
       ELSE [traded EXCEPT !.spread = tick.spread, !.quote_ts = tick.ts]

\* _upsert_bar
UpsertBar(bars, tick) ==
    IF bars = <<>> \/ Last(bars).sec # tick.ts THEN Append(bars, NewBar(tick))
    ELSE [bars EXCEPT ![Len(bars)] = UpdatedBar(@, tick)]

\* _prune_bars: old bars go, from the left up to the first fresh one.
PruneBars(bars) ==
    LET fresh == {i \in DOMAIN bars : bars[i].sec >= now - BufferSec}
    IN IF fresh = {} THEN <<>> ELSE SubSeq(bars, Min(fresh), Len(bars))

\* Mutant: only quotes become the latest tick.
IngestTick_QuotesOnly(tick) ==
    LET bars == IF tick.asset \in DOMAIN bars_by_asset THEN bars_by_asset[tick.asset] ELSE <<>>
    IN /\ bars_by_asset' = With(bars_by_asset, tick.asset, PruneBars(UpsertBar(bars, tick)))
       /\ latest_tick' = IF tick.spread = NoSpread /\ tick.asset \in DOMAIN latest_tick THEN latest_tick
                         ELSE With(latest_tick, tick.asset, tick)
       /\ UNCHANGED <<cooldowns, scan>>

\* ingest_tick, up to the insert into price_ticks (see TickArchive).
IngestTick(tick) ==
    LET bars == IF tick.asset \in DOMAIN bars_by_asset THEN bars_by_asset[tick.asset] ELSE <<>>
    IN /\ bars_by_asset' = With(bars_by_asset, tick.asset, PruneBars(UpsertBar(bars, tick)))
       /\ latest_tick' = With(latest_tick, tick.asset, tick)
       /\ UNCHANGED <<cooldowns, scan>>

\* Mutant: the latest tick is forgotten.
RemoveAsset_KeepTick(a) ==
    /\ bars_by_asset' = Without(bars_by_asset, {a})
    /\ cooldowns' = Without(cooldowns, {a} \X Range(Levels))
    /\ scan' = IF a \in Range(scan.todo) \ DOMAIN scan.orphans /\ a \in DOMAIN bars_by_asset
                 THEN [scan EXCEPT !.orphans = With(@, a, bars_by_asset[a])]
                 ELSE scan
    /\ UNCHANGED latest_tick

\* remove_asset: a scan under way keeps the deque it holds.
RemoveAsset(a) ==
    /\ bars_by_asset' = Without(bars_by_asset, {a})
    /\ latest_tick' = Without(latest_tick, {a})
    /\ cooldowns' = Without(cooldowns, {a} \X Range(Levels))
    /\ scan' = IF a \in Range(scan.todo) \ DOMAIN scan.orphans /\ a \in DOMAIN bars_by_asset
                 THEN [scan EXCEPT !.orphans = With(@, a, bars_by_asset[a])]
                 ELSE scan
-----------------------------------------------------------------------------
\* _should_skip: no recent bar; no quote, except in the warm-up after a market
\* was subscribed; a quote that is old or too wide; or an inactive market.
ShouldSkip(a, bars) ==
    LET quoted == {i \in DOMAIN bars : bars[i].spread # NoSpread} IN
    \/ now - Last(bars).sec > StaleSec
    \/ quoted = {} /\ ~(a \in Known /\ now - tracked_markets[a].subscribed_at <= WarmupSec)
    \/ /\ quoted # {}
       /\ LET q == bars[Max(quoted)] IN \/ now - q.quote_ts > QuoteSec
                                        \/ q.spread > MaxSpread
                                        \/ a \in Known /\ ~tracked_markets[a].active

\* _compute_delta: the window is counted from the last bar.
InWindow(bars, l) == {i \in DOMAIN bars : bars[i].sec >= Last(bars).sec - WindowSec[l]}
TicksInWindow(bars, l) == MapThenSumSet(LAMBDA i : bars[i].count, InWindow(bars, l))
StartPrice(bars, l) == bars[Min(InWindow(bars, l))].open

AbsDiff(p, q) == IF p < q THEN q - p ELSE p - q

\* The window has moved by the level's threshold, with enough ticks.
Shifted(bars, l) ==
    /\ Len(bars) >= 2 /\ StartPrice(bars, l) # 0
    /\ TicksInWindow(bars, l) >= MinTicks[l]
    /\ AbsDiff(Last(bars).last, StartPrice(bars, l)) * 100 >= DeltaPct[l] * StartPrice(bars, l)

CoolingDown(a, l) == <<a, l>> \in DOMAIN cooldowns /\ cooldowns[<<a, l>>] > now

Within(tick, count, limit) == /\ now - tick.ts <= limit.age /\ tick.spread <= limit.spread
                              /\ count >= limit.ticks

\* _build_confidence, for a market of high liquidity: only a last_trade tick can
\* be in its warm-up, and it is weak anyhow.
Confidence(tick, count) == CASE tick.spread = NoSpread -> "weak"
                             [] Within(tick, count, Strong) -> "strong"
                             [] Within(tick, count, Moderate) -> "moderate"
                             [] OTHER -> "weak"

\* The ShiftAlert of _maybe_create_alert: the shift comes from the bars, the
\* signal quality and the current price from the latest tick.
Alert(a, bars, l) ==
    [asset |-> a, level |-> l, ts |-> now,
     start |-> StartPrice(bars, l), end |-> Last(bars).last, ticks |-> TicksInWindow(bars, l),
     current |-> latest_tick[a].price, quoted |-> latest_tick[a].spread # NoSpread,
     confidence |-> Confidence(latest_tick[a], TicksInWindow(bars, l))]
-----------------------------------------------------------------------------
\* The locals of scan_once when it goes on: after a wait, or from its beginning
\* with the list of markets and their deques (in any order: that of the dict is
\* the order of the first ticks).  There is no wait before the first alert.
Scanning == IF scan.pc = "scanning" THEN {scan}
            ELSE {[Resting EXCEPT !.pc = "scanning", !.todo = order] :
                    order \in SetToSeqs(DOMAIN bars_by_asset)}

\* The deques of the markets left: that of a market already past _should_skip
\* (its levels are being scanned) as it is, the others pruned.
Entered(s, k) == k = 1 /\ s.level > 0
Held(s, k) == IF s.todo[k] \in DOMAIN s.orphans THEN s.orphans[s.todo[k]]
                                                ELSE bars_by_asset[s.todo[k]]
Deques(s) == [k \in DOMAIN s.todo |-> IF Entered(s, k) THEN Held(s, k) ELSE PruneBars(Held(s, k))]

\* The markets and levels at which _maybe_create_alert returns an alert, from
\* where the scan stands; the scan stops at the first.
Fires(s, deques, k, n) ==
    /\ k = 1 => n > s.level
    /\ deques[k] # <<>>
    /\ Entered(s, k) \/ ~ShouldSkip(s.todo[k], deques[k])
    /\ Shifted(deques[k], Levels[n])
    /\ ~CoolingDown(s.todo[k], Levels[n])
    /\ s.todo[k] \in Known \cap DOMAIN latest_tick
Firing(s, deques) ==
    {p \in (DOMAIN deques) \X (DOMAIN Levels) : Fires(s, deques, p[1], p[2])}
IsFirst(p, S) == \A q \in S : p[1] < q[1] \/ (p[1] = q[1] /\ p[2] <= q[2])

\* What the scan does to the buffers of the markets it passes, the first to the
\* k-th: deques are pruned, a market whose deque runs empty is dropped.
Passed(s, deques, k) ==
    LET emptied == {s.todo[i] : i \in {j \in 1 .. k : Held(s, j) # <<>> /\ deques[j] = <<>>}}
        pruned == {i \in 1 .. k : s.todo[i] \notin DOMAIN s.orphans \cup emptied}
    IN /\ bars_by_asset' = [a \in DOMAIN bars_by_asset \ emptied |->
                              IF \E i \in pruned : s.todo[i] = a
                                THEN deques[CHOOSE i \in pruned : s.todo[i] = a]
                                ELSE bars_by_asset[a]]
       /\ latest_tick' = Without(latest_tick, emptied)

\* The scan while insert_shift_event is awaited for an alert of the k-th
\* market's n-th level.
AwaitInsert(s, deques, k, n) ==
    [s EXCEPT !.todo = SubSeq(@, k, Len(@)), !.level = n,
              !.orphans = [a \in DOMAIN @ \cap {s.todo[i] : i \in k .. Len(s.todo)} |->
                             IF a = s.todo[k] THEN deques[k] ELSE s.orphans[a]],
              !.alerts = @ \o s.pending,
              !.pending = <<Alert(s.todo[k], deques[k], Levels[n])>>]

\* Mutant: the cooldown ends a second early.
Cooled_Short(key) == With(cooldowns, key, now + CooldownSec - 1)
Cooled(key) == With(cooldowns, key, now + CooldownSec)

\* From one wait (or the beginning) to the next alert: its cooldown is set
\* before its insert is awaited.
ScanToAlert ==
    /\ scan.pc # "dispatching"
    /\ \E s \in Scanning : \E deques \in {Deques(s)} : \E firing \in {Firing(s, deques)} :
         \E p \in firing : /\ IsFirst(p, firing)
                           /\ Passed(s, deques, p[1])
                           /\ cooldowns' = Cooled(<<s.todo[p[1]], Levels[p[2]]>>)
                           /\ scan' = AwaitInsert(s, deques, p[1], p[2])

\* No further alert: the scan is over with the alerts it has collected.
ScanToEnd ==
    /\ scan.pc # "dispatching"
    /\ \E s \in Scanning : \E deques \in {Deques(s)} :
         Firing(s, deques) = {} /\ Passed(s, deques, Len(s.todo))
    /\ UNCHANGED cooldowns
=============================================================================
