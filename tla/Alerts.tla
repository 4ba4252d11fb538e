------------------------------- MODULE Alerts -------------------------------
(***************************************************************************)
(* From ticks to notifications: the detector's ingest and scan loops, the  *)
(* dispatcher, and what the gatekeeper and market_resolved events do to    *)
(* the store and the detector meanwhile.  scan_loop waits for the          *)
(* dispatcher before it scans again.                                       *)
(***************************************************************************)
EXTENDS Detector, Dispatcher

CONSTANTS StartTime,     \* the clock when the markets were subscribed
          MaxClock,      \* bound: the clock stops here
          Prices, Spreads,
          MaxTicks,      \* bound: ticks received
          MaxSwitches,   \* bound: markets switched on, off or resolved
          MaxRestarts    \* bound: times the application dies

\* Wall-clock times are far from 0, which set_market_active uses for "never".
ASSUME ClockAssumption == /\ {StartTime, MaxClock} \subseteq Nat
                          /\ WarmupSec < StartTime /\ StartTime <= MaxClock
ASSUME TickAssumption == Prices \subseteq Nat

VARIABLES ticks, switches, restarts,   \* how often so far
          fired    \* history: alerts whose cooldown the process remembers

counters == <<ticks, switches, restarts>>
vars == <<tracked_markets, now, detector_vars, dispatcher_vars, counters, fired>>

Init == /\ tracked_markets = [a \in Assets |-> Row(TRUE, StartTime)]
        /\ now = StartTime
        /\ DetectorInit /\ DispatcherInit
        /\ ticks = 0 /\ switches = 0 /\ restarts = 0 /\ fired = {}

Tick == /\ now < MaxClock /\ now' = now + 1
        /\ UNCHANGED <<tracked_markets, detector_vars, dispatcher_vars, counters, fired>>

\* A tick of a market the server still streams, active or not.
Ingest(a, price, spread) ==
    /\ ticks < MaxTicks /\ ticks' = ticks + 1
    /\ IngestTick([asset |-> a, price |-> price, spread |-> spread, ts |-> now])
    /\ UNCHANGED <<tracked_markets, now, dispatcher_vars, switches, restarts, fired>>

\* The gatekeeper takes a market off the list, or puts it back.  The detector
\* is not told.
Switch(a) ==
    /\ switches < MaxSwitches /\ switches' = switches + 1
    /\ SetMarketActive({a}, ~tracked_markets[a].active, now)
    /\ UNCHANGED <<now, detector_vars, dispatcher_vars, ticks, restarts, fired>>

\* on_market_resolved of app.py: the store first, then remove_asset, which runs
\* in the step that completes the store call.
Resolved(a) ==
    /\ switches < MaxSwitches /\ switches' = switches + 1
    /\ SetMarketActive({a}, FALSE, now)
    /\ RemoveAsset(a)
    /\ fired' = {x \in fired : x.asset # a}
    /\ UNCHANGED <<now, dispatcher_vars, ticks, restarts>>

AlertCreated == /\ ScanToAlert
                /\ fired' = fired \cup {scan'.pending[1]}
                /\ UNCHANGED <<tracked_markets, now, dispatcher_vars, counters>>

\* The scan is over and hands its alerts to the dispatcher; when none is
\* selected there is nothing to wait for.
ScanEnds == /\ ScanToEnd
            /\ DispatchMany(scan.alerts \o scan.pending, now)
            /\ scan' = IF outbox' = {} THEN Resting ELSE [Resting EXCEPT !.pc = "dispatching"]
            /\ UNCHANGED <<tracked_markets, now, counters, fired>>

\* A notifier call returns; scan_loop sleeps after the last.
Notify == /\ \E entry \in outbox, heard \in BOOLEAN : Deliver(entry, heard)
          /\ scan' = IF outbox' = {} THEN Resting ELSE scan
          /\ UNCHANGED <<tracked_markets, now, bars_by_asset, latest_tick, cooldowns, counters, fired>>

\* The process dies, for instance because a store call in scan_loop or
\* ingest_loop raises, which nothing catches: buffers, cooldowns, alerts not yet
\* dispatched and the silences of events are memory.
Restart == /\ restarts < MaxRestarts /\ restarts' = restarts + 1
           /\ bars_by_asset' = <<>> /\ latest_tick' = <<>> /\ cooldowns' = <<>> /\ scan' = Resting
           /\ event_cooldowns' = <<>> /\ outbox' = {} /\ sent' = {} /\ lost' = {} /\ fired' = {}
           /\ UNCHANGED <<tracked_markets, now, ticks, switches>>

Next == \/ Tick
        \/ \E a \in Assets : \/ \E p \in Prices, s \in Spreads : Ingest(a, p, s)
                             \/ Switch(a) \/ Resolved(a)
        \/ AlertCreated \/ ScanEnds \/ Notify
        \/ Restart

Spec == Init /\ [][Next]_vars
-----------------------------------------------------------------------------
TypeOK ==
    /\ now \in StartTime .. MaxClock
    /\ DOMAIN bars_by_asset = DOMAIN latest_tick /\ DOMAIN latest_tick \subseteq Known
    /\ \A a \in DOMAIN latest_tick : latest_tick[a].asset = a
    /\ scan.pc \in {"sleeping", "scanning", "dispatching"}
    /\ scan.level \in 0 .. Len(Levels) /\ DOMAIN scan.orphans \subseteq Range(scan.todo)
    /\ outbox # {} <=> scan.pc = "dispatching"

\* A scan that comes to a market that is not active makes no alert of it, be it
\* dropped by the gatekeeper or resolved, and however fresh its ticks and quotes
\* are.  (A market may be switched off while its levels are being scanned.)
InactiveSilent ==
    [][\A a \in Assets \ ActiveAssetIds :
         scan'.pending # scan.pending /\ scan'.pending # <<>> /\ scan'.pending[1].asset = a =>
             scan.level > 0 /\ Head(scan.todo) = a]_vars

\* An alert's two halves are of the same market data: the price its shift ends
\* at is the current price it reports, unless the market was resolved during
\* the scan, which then works on a deque nobody updates.
AlertCoherent ==
    scan.pending # <<>> /\ scan.pending[1].asset \notin DOMAIN scan.orphans =>
        scan.pending[1].end = scan.pending[1].current

\* README.md:51, "Cooldown: 5 min per (market, level)": as long as the process
\* lives and the market is not resolved.
CooldownKept ==
    \A x, y \in fired : x.asset = y.asset /\ x.level = y.level /\ x # y =>
        AbsDiff(x.ts, y.ts) >= CooldownSec

Selected == outbox \cup sent \cup lost

\* README.md:309, one alert per event in event_dedup_sec: of two alerts of an
\* event, of whatever markets and scans and whether or not anybody got them, one
\* was selected no earlier than event_dedup_sec after the time of the other.
EventSilenced ==
    \A x, y \in Selected : x # y /\ EventOf[x.alert.asset] = EventOf[y.alert.asset] =>
        y.at >= x.alert.ts + DedupSec \/ x.at >= y.alert.ts + DedupSec

\* An allowed alert of a scan is passed over only for one of its event: one
\* selected now, which is handed to the notifiers unless some allowed level is
\* below min_severity, or one from less than event_dedup_sec before it.  An alert
\* that nobody got, as every notifier failed or it was below min_severity, thus
\* costs its event the alerts of event_dedup_sec and no others.
EveryAlertHandedOn ==
    [][scan.pc = "scanning" /\ scan'.pc # "scanning" /\ restarts' = restarts =>
         LET alerts == scan.alerts \o scan.pending
         IN \A i \in Eligible(alerts) : \E y \in Selected' :
              /\ EventOf[y.alert.asset] = EventOf[alerts[i].asset]
              /\ \/ y.at = now /\ (AllowedLevels \subseteq SevereLevels => y \in outbox')
                 \/ y.alert.ts + DedupSec > alerts[i].ts]_vars
=============================================================================
