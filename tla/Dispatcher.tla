----------------------------- MODULE Dispatcher -----------------------------
(***************************************************************************)
(* NotificationDispatcher of src/sentinel/notifications/base.py: of the    *)
(* alerts of one scan it selects at most one per event, silences the event *)
(* for event_dedup_sec from that alert's time on, and hands the selected   *)
(* alerts to the notifiers.                                                *)
(***************************************************************************)
EXTENDS Integers, Sequences, SequencesExt

CONSTANTS EventOf,        \* the event_slug of an asset's market
          AllowedLevels, ExcludedConfidences, ExcludeTrades,   \* AgentAlertPolicy
          MinPrice, MaxPrice, MinMove, DedupSec,
          SevereLevels    \* the levels at or above min_severity

ASSUME DedupAssumption == DedupSec \in Nat

VARIABLES event_cooldowns,   \* event -> end of its silence
          outbox,            \* selected alerts on their way to the notifiers
          sent, lost         \* history, this process: alerts somebody got, and nobody

dispatcher_vars == <<event_cooldowns, outbox, sent, lost>>

DispatcherInit == event_cooldowns = <<>> /\ outbox = {} /\ sent = {} /\ lost = {}

Move(alert) == IF alert.end < alert.start THEN alert.start - alert.end ELSE alert.end - alert.start

\* _is_allowed; the liquidity floor is left out, every market has enough.
IsAllowed(alert) == /\ alert.level \in AllowedLevels
                    /\ alert.confidence \notin ExcludedConfidences
                    /\ ~(ExcludeTrades /\ ~alert.quoted)
                    /\ alert.current >= MinPrice /\ alert.current <= MaxPrice
                    /\ Move(alert) >= MinMove

\* delta_pct, rounded to four decimals.
Delta(alert) == (Move(alert) * 1000000) \div alert.start

\* _rank_key without the liquidity, compared as Python compares tuples.
LevelScore(l) == CASE l = "confirmation" -> 2 [] l = "trend" -> 1 [] OTHER -> 0
ConfidenceScore(c) == CASE c = "strong" -> 2 [] c = "moderate" -> 1 [] OTHER -> 0
RankKey(x) == <<LevelScore(x.level), ConfidenceScore(x.confidence), Delta(x), Move(x), x.ticks>>
Outranks(x, y) ==
    LET rx == RankKey(x)
        ry == RankKey(y)
    IN \E i \in DOMAIN rx : rx[i] > ry[i] /\ \A j \in 1 .. i - 1 : rx[j] = ry[j]

\* The positions of the eligible alerts, and of those of one event.
Eligible(alerts) == {i \in DOMAIN alerts : IsAllowed(alerts[i])}
EventGroup(alerts, event) == {i \in Eligible(alerts) : EventOf[alerts[i].asset] = event}

\* max over the group; the first of equals.
Best(alerts, group) ==
    alerts[Min({i \in group : \A j \in group : ~Outranks(alerts[j], alerts[i])})]

\* Mutant: the silence ends a second early.
Silenced_Early(event, time) ==
    event \in DOMAIN event_cooldowns /\ event_cooldowns[event] > time + 1

\* Mutant: the silence includes its end.
Silenced_AtEnd(event, time) ==
    event \in DOMAIN event_cooldowns /\ event_cooldowns[event] >= time

Silenced(event, time) == event \in DOMAIN event_cooldowns /\ event_cooldowns[event] > time

\* The alerts select_for_dispatch returns; time is that of the newest eligible
\* alert, of whatever event.
SelectForDispatch(alerts) ==
    LET eligible == Eligible(alerts)
        time == Max({alerts[i].ts : i \in eligible})
        events == {EventOf[alerts[i].asset] : i \in eligible}
    IN {Best(alerts, EventGroup(alerts, e)) : e \in {f \in events : ~Silenced(f, time)}}

\* The cooldowns after the selection.
Silence(selected) ==
    [e \in DOMAIN event_cooldowns \cup {EventOf[x.asset] : x \in selected} |->
       IF \E x \in selected : EventOf[x.asset] = e
         THEN (CHOOSE x \in selected : EventOf[x.asset] = e).ts + DedupSec
         ELSE event_cooldowns[e]]

\* dispatch_many up to its first wait.  min_severity is looked at after the
\* selection: an alert below it has silenced its event and goes nowhere.
DispatchMany(alerts, time) ==
    LET selected == SelectForDispatch(alerts)
        Entries(S) == {[alert |-> x, at |-> time] : x \in S}
    IN /\ event_cooldowns' = Silence(selected)
       /\ outbox' = Entries({x \in selected : x.level \in SevereLevels})
       /\ lost' = lost \cup Entries({x \in selected : x.level \notin SevereLevels})
       /\ UNCHANGED sent

\* _fan_out and _dispatch_one: the notifiers are tried once each.  When all of
\* them raise, nobody has the alert; it is not tried again, and its event stays
\* silent.
Deliver(entry, heard) ==
    /\ entry \in outbox /\ outbox' = outbox \ {entry}
    /\ sent' = IF heard THEN sent \cup {entry} ELSE sent
    /\ lost' = IF heard THEN lost ELSE lost \cup {entry}
    /\ UNCHANGED event_cooldowns
=============================================================================
