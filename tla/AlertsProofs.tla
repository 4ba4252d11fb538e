---------------------------- MODULE AlertsProofs ----------------------------
(***************************************************************************)
(* Proofs about Alerts for any markets, levels, events, prices and         *)
(* periods, with ticks, switches, resolutions and restarts at every wait   *)
(* of a scan.                                                              *)
(***************************************************************************)
EXTENDS Alerts, FiniteSetTheorems, WellFoundedInduction, NaturalsInduction, TLAPS

-----------------------------------------------------------------------------
(* The inductive invariant, by parts. *)

PosNat == Nat \ {0}
BarSet == [sec : Nat, open : Nat, last : Nat, count : Nat, spread : Spreads, quote_ts : Nat]
TickSet == [asset : Assets, price : Nat, spread : Spreads, ts : Nat]
AlertSet == [asset : Assets, level : STRING, ts : Nat, start : PosNat, end : Nat, ticks : Nat,
             current : Nat, quoted : BOOLEAN, confidence : {"weak", "moderate", "strong"}]

\* A market that is not active has no time of subscription.
StoreOK ==
    /\ now \in StartTime .. MaxClock
    /\ Known = Assets
    /\ \A a \in Assets : /\ tracked_markets[a].active \in BOOLEAN
                         /\ ~tracked_markets[a].active => tracked_markets[a].subscribed_at = 0

\* Bars and latest tick are of the same moment.
BufferOK(a) ==
    /\ bars_by_asset[a] \in Seq(BarSet)
    /\ latest_tick[a].asset = a /\ latest_tick[a].price \in Nat
    /\ bars_by_asset[a] # <<>> => Last(bars_by_asset[a]).last = latest_tick[a].price
BuffersOK ==
    /\ IsFiniteSet(DOMAIN bars_by_asset) /\ DOMAIN bars_by_asset \subseteq Assets
    /\ DOMAIN latest_tick = DOMAIN bars_by_asset
    /\ \A a \in DOMAIN bars_by_asset : BufferOK(a)

\* The scan has a deque for each market left to it.
ScanSet == [pc : {"sleeping", "scanning", "dispatching"}, todo : Seq(Assets),
            level : 0 .. Len(Levels), orphans : UNION {[S -> Seq(BarSet)] : S \in SUBSET Assets},
            pending : Seq(AlertSet), alerts : Seq(AlertSet)]
Distinct(seq) == \A i, j \in DOMAIN seq : seq[i] = seq[j] => i = j
ScanForm(s) ==
    /\ s \in ScanSet /\ Distinct(s.todo)
    /\ DOMAIN s.orphans \subseteq Range(s.todo)
    /\ Range(s.todo) \subseteq DOMAIN bars_by_asset \cup DOMAIN s.orphans
    /\ s.pending = <<>> \/ \E x \in AlertSet : s.pending = <<x>>

\* Cooldowns reach as far as the alerts the process remembers demand.
CooldownsOK ==
    /\ \A key \in DOMAIN cooldowns : cooldowns[key] \in Nat
    /\ \A x \in fired : /\ x \in AlertSet /\ x.ts <= now
                        /\ <<x.asset, x.level>> \in DOMAIN cooldowns
                        /\ x.ts + CooldownSec <= cooldowns[<<x.asset, x.level>>]

\* So do the silences of events.  The alerts of the scan under way are newer
\* than all that have gone out.
Collected == scan.alerts \o scan.pending
Covered(y) ==
    /\ y.alert \in AlertSet /\ y.at \in Nat /\ y.at <= now /\ y.alert.ts <= now
    /\ EventOf[y.alert.asset] \in DOMAIN event_cooldowns
    /\ y.alert.ts + DedupSec <= event_cooldowns[EventOf[y.alert.asset]]
    /\ \A i \in DOMAIN Collected : y.alert.ts <= Collected[i].ts
SilencesOK ==
    /\ outbox # {} <=> scan.pc = "dispatching"
    /\ restarts \in Nat
    /\ \A i \in DOMAIN Collected : Collected[i].ts <= now
    /\ \A y \in Selected : Covered(y)

\* An event is silent because of an alert that was selected.
SilencesCaused ==
    \A e \in DOMAIN event_cooldowns : \E x \in Selected :
        EventOf[x.alert.asset] = e /\ x.alert.ts + DedupSec = event_cooldowns[e]

AlertsInv == /\ StoreOK /\ BuffersOK /\ ScanForm(scan) /\ CooldownsOK /\ SilencesOK
             /\ AlertCoherent /\ CooldownKept /\ EventSilenced /\ SilencesCaused
-----------------------------------------------------------------------------
(* Numbers and sums. *)

LEMMA LeastElement ==
    ASSUME NEW T \in SUBSET Nat, T # {}
    PROVE  \E x \in T : \A y \in T : x <= y
<1> DEFINE R == {ss \in Nat \X Nat : ss[1] < ss[2]}
<1>1. IsWellFoundedOn(R, Nat)
  BY NatLessThanWellFounded, Zenon DEF OpToRel
<1>2. \E x \in T : \A y \in T : <<y, x>> \notin R
  <2> HIDE DEF R
  <2> QED BY <1>1, WFMin, Zenon
<1>3. PICK x \in T : \A y \in T : <<y, x>> \notin R
  BY <1>2
<1>4. ASSUME NEW y \in T PROVE x <= y
  <2>1. x \in Nat /\ y \in Nat /\ <<y, x>> \notin R
    BY <1>3
  <2>2. ~(y < x)
    BY <2>1
  <2> QED BY <2>1, <2>2
<1> QED BY <1>4

\* The least element of a set of numbers is what Min returns.
LEMMA MinFacts ==
    ASSUME NEW T \in SUBSET Nat, T # {}
    PROVE  Min(T) \in T /\ \A y \in T : Min(T) <= y
BY LeastElement DEF Min

\* A bounded set of numbers has a greatest one.
LEMMA MaxFacts ==
    ASSUME NEW T \in SUBSET Nat, T # {}, NEW n \in Nat, \A x \in T : x <= n
    PROVE  Max(T) \in T /\ \A y \in T : y <= Max(T)
<1> DEFINE D == {n - x : x \in T}
<1>1. D \in SUBSET Nat /\ D # {}
  <2>1. \A x \in T : x \in Nat /\ n - x \in Nat
    OBVIOUS
  <2>2. PICK x \in T : TRUE
    OBVIOUS
  <2>3. n - x \in D
    OBVIOUS
  <2> QED BY <2>1, <2>3
<1>2. PICK d \in D : \A e \in D : d <= e
  BY <1>1, LeastElement
<1>3. PICK m \in T : d = n - m
  OBVIOUS
<1>4. \A y \in T : m >= y
  <2> SUFFICES ASSUME NEW y \in T PROVE m >= y
    OBVIOUS
  <2>1. n - y \in D
    OBVIOUS
  <2> QED BY <1>2, <1>3, <2>1
<1>5. Max(T) \in T /\ \A y \in T : Max(T) >= y
  BY <1>4 DEF Max
<1> QED BY <1>5

\* The fields of a bar.
LEMMA BarFacts ==
    ASSUME NEW bars \in Seq(BarSet), NEW i \in DOMAIN bars
    PROVE  /\ bars[i] \in BarSet
           /\ bars[i].sec \in Nat /\ bars[i].open \in Nat /\ bars[i].last \in Nat
           /\ bars[i].count \in Nat /\ bars[i].quote_ts \in Nat /\ bars[i].spread \in Spreads
<1>1. bars[i] \in BarSet
  OBVIOUS
<1> QED BY <1>1 DEF BarSet

\* What a fold over the set s adds up, one element after the other.
Picked(s) == CHOOSE i \in s : TRUE
Added(bars, f, s) == IF s = {} THEN 0 ELSE bars[Picked(s)].count + f[s \ {Picked(s)}]

LEMMA PickedFacts ==
    ASSUME NEW S, IsFiniteSet(S), NEW s \in SUBSET S, s # {}
    PROVE  /\ Picked(s) \in s /\ s \ {Picked(s)} \in SUBSET S
           /\ Cardinality(s) \in Nat \ {0} /\ Cardinality(s \ {Picked(s)}) = Cardinality(s) - 1
<1>1. Picked(s) \in s
  BY DEF Picked
<1>2. IsFiniteSet(s)
  BY FS_Subset
<1>3. Cardinality(s) \in Nat /\ Cardinality(s) # 0
  BY <1>2, FS_CardinalityType, FS_EmptySet
<1>4. Cardinality(s \ {Picked(s)}) = Cardinality(s) - 1
  BY <1>1, <1>2, FS_RemoveElement
<1> QED BY <1>1, <1>3, <1>4

\* There is a function that adds up counts over the subsets of a finite set.
LEMMA SumExists ==
    ASSUME NEW bars \in Seq(BarSet), NEW S \in SUBSET DOMAIN bars, IsFiniteSet(S)
    PROVE  \E f : f = [s \in SUBSET S |-> Added(bars, f, s)]
<1> DEFINE Small(n) == {s \in SUBSET S : Cardinality(s) <= n}
           Good(n) == \E f \in [Small(n) -> Nat] : \A s \in Small(n) : f[s] = Added(bars, f, s)
           Bad == {n \in Nat : ~Good(n)}
<1>0. \A i \in S : bars[i].count \in Nat
  BY BarFacts
<1>1. \A s \in SUBSET S : IsFiniteSet(s) /\ Cardinality(s) \in Nat
  BY FS_Subset, FS_CardinalityType
<1>2. Good(0)
  <2> DEFINE f == [s \in Small(0) |-> 0]
  <2>1. \A s \in Small(0) : s = {}
    BY <1>1, FS_EmptySet
  <2>2. f \in [Small(0) -> Nat] /\ \A s \in Small(0) : f[s] = Added(bars, f, s)
    BY <2>1 DEF Added
  <2> HIDE DEF f
  <2> QED BY <2>2
<1>3. ASSUME NEW n \in Nat, Good(n) PROVE Good(n + 1)
  <2>1. PICK f \in [Small(n) -> Nat] : \A s \in Small(n) : f[s] = Added(bars, f, s)
    BY <1>3
  <2> DEFINE g == [s \in Small(n + 1) |-> Added(bars, f, s)]
  <2>2. ASSUME NEW s \in Small(n + 1), s # {}
        PROVE  Picked(s) \in S /\ s \ {Picked(s)} \in Small(n) /\ s \ {Picked(s)} \in Small(n + 1)
    BY <1>1, <2>2, PickedFacts
  <2>3. ASSUME NEW s \in Small(n + 1) PROVE Added(bars, f, s) \in Nat
    <3>1. CASE s = {}
      BY <3>1 DEF Added
    <3>2. CASE s # {}
      <4>1. bars[Picked(s)].count \in Nat /\ f[s \ {Picked(s)}] \in Nat
        BY <1>0, <2>1, <2>2, <3>2
      <4> HIDE DEF Small
      <4> QED BY <3>2, <4>1 DEF Added
    <3> QED BY <3>1, <3>2
  <2>4. ASSUME NEW s \in Small(n + 1) PROVE g[s] = Added(bars, g, s)
    <3>1. CASE s = {}
      BY <3>1 DEF Added
    <3>2. CASE s # {}
      <4> DEFINE t == s \ {Picked(s)}
      <4>1. t \in Small(n) /\ t \in Small(n + 1)
        BY <2>2, <3>2
      <4>2. g[t] = f[t]
        <5> HIDE DEF Small, t
        <5> QED BY <2>1, <4>1
      <4>3. g[s] = bars[Picked(s)].count + f[t]
        <5> HIDE DEF Small
        <5> QED BY <3>2 DEF Added
      <4> HIDE DEF g
      <4> QED BY <3>2, <4>2, <4>3 DEF Added
    <3> QED BY <3>1, <3>2
  <2>5. g \in [Small(n + 1) -> Nat]
    <3> HIDE DEF Small
    <3> QED BY <2>3
  <2> HIDE DEF g
  <2> QED BY <2>4, <2>5
<1>4. Bad = {}
  <2> SUFFICES ASSUME Bad # {} PROVE FALSE
    OBVIOUS
  <2> HIDE DEF Good
  <2>1. PICK b \in Bad : \A c \in Bad : b <= c
    BY LeastElement
  <2>2. b # 0 /\ b \in Nat /\ ~Good(b)
    BY <1>2
  <2>3. b - 1 \in Nat /\ Good(b - 1)
    BY <2>1, <2>2
  <2>4. Good((b - 1) + 1)
    BY <1>3, <2>3
  <2> QED BY <2>2, <2>4
<1>5. Cardinality(S) \in Nat /\ Small(Cardinality(S)) = SUBSET S
  <2>1. \A s \in SUBSET S : Cardinality(s) <= Cardinality(S)
    BY FS_Subset
  <2> QED BY <1>1, <2>1
<1>6. PICK f \in [SUBSET S -> Nat] : \A s \in SUBSET S : f[s] = Added(bars, f, s)
  BY <1>4, <1>5
<1>7. f = [s \in SUBSET S |-> Added(bars, f, s)]
  BY <1>6
<1> QED BY <1>7

\* The number of ticks in a window is a number.
LEMMA TicksFacts ==
    ASSUME NEW bars \in Seq(BarSet), NEW l
    PROVE  TicksInWindow(bars, l) \in Nat
<1> DEFINE S == InWindow(bars, l)
           sum == CHOOSE f : f = [s \in SUBSET S |-> Added(bars, f, s)]
           Wrong == {n \in Nat : \E s \in SUBSET S : Cardinality(s) = n /\ sum[s] \notin Nat}
<1>1. S \in SUBSET DOMAIN bars /\ IsFiniteSet(S)
  <2>1. DOMAIN bars = 1 .. Len(bars) /\ Len(bars) \in Nat /\ S \in SUBSET DOMAIN bars
    BY DEF InWindow
  <2>2. IsFiniteSet(DOMAIN bars)
    BY <2>1, FS_Interval
  <2> QED BY <2>1, <2>2, FS_Subset
<1>2. TicksInWindow(bars, l) = sum[S]
  BY DEF TicksInWindow, MapThenSumSet, MapThenFoldSet, Added, Picked
<1> HIDE DEF S
<1>3. sum = [s \in SUBSET S |-> Added(bars, sum, s)]
  BY <1>1, SumExists, Zenon
<1> HIDE DEF sum
<1>4. \A i \in S : bars[i].count \in Nat
  BY <1>1, BarFacts
<1>5. Wrong = {}
  <2> SUFFICES ASSUME Wrong # {} PROVE FALSE
    OBVIOUS
  <2>1. PICK n \in Wrong : \A m \in Wrong : n <= m
    BY LeastElement
  <2>2. PICK s \in SUBSET S : Cardinality(s) = n /\ sum[s] \notin Nat
    OBVIOUS
  <2>3. sum[s] = Added(bars, sum, s)
    BY <1>3
  <2>4. s # {}
    BY <2>2, <2>3 DEF Added
  <2>5. /\ Picked(s) \in s /\ s \ {Picked(s)} \in SUBSET S
        /\ Cardinality(s) \in Nat \ {0} /\ Cardinality(s \ {Picked(s)}) = Cardinality(s) - 1
    BY <1>1, <2>4, PickedFacts
  <2>6. n - 1 \in Nat /\ n - 1 \notin Wrong
    BY <2>1, <2>2, <2>5
  <2>7. sum[s \ {Picked(s)}] \in Nat
    BY <2>2, <2>5, <2>6
  <2>8. bars[Picked(s)].count \in Nat
    BY <1>4, <2>5
  <2> QED BY <2>2, <2>3, <2>4, <2>7, <2>8 DEF Added
<1>6. Cardinality(S) \in Nat
  BY <1>1, FS_CardinalityType
<1> QED BY <1>2, <1>5, <1>6
-----------------------------------------------------------------------------
(* Bars. *)

\* _prune_bars takes bars from the left, so what is left ends as before.
LEMMA PruneFacts ==
    ASSUME NEW bars \in Seq(BarSet), now \in Nat
    PROVE  /\ PruneBars(bars) \in Seq(BarSet)
           /\ PruneBars(bars) # <<>> => bars # <<>> /\ Last(PruneBars(bars)) = Last(bars)
<1> DEFINE fresh == {i \in DOMAIN bars : bars[i].sec >= now - BufferSec}
<1>1. CASE fresh = {}
  <2>1. PruneBars(bars) = <<>>
    BY <1>1 DEF PruneBars
  <2> QED BY <2>1
<1>2. CASE fresh # {}
  <2>1. fresh \in SUBSET Nat /\ fresh \subseteq 1 .. Len(bars) /\ Len(bars) \in Nat
    OBVIOUS
  <2>2. Min(fresh) \in 1 .. Len(bars)
    BY <1>2, <2>1, MinFacts
  <2>3. PruneBars(bars) = SubSeq(bars, Min(fresh), Len(bars))
    BY <1>2 DEF PruneBars
  <2> HIDE DEF fresh
  <2>4. PICK m \in 1 .. Len(bars) : PruneBars(bars) = SubSeq(bars, m, Len(bars))
    BY <2>2, <2>3
  <2>5. /\ SubSeq(bars, m, Len(bars)) \in Seq(BarSet)
        /\ Len(SubSeq(bars, m, Len(bars))) = Len(bars) - m + 1
        /\ SubSeq(bars, m, Len(bars))[Len(bars) - m + 1] = bars[Len(bars)]
    BY <2>1
  <2>6. bars # <<>>
    BY <2>1, <2>4
  <2> QED BY <2>4, <2>5, <2>6 DEF Last
<1> QED BY <1>1, <1>2

\* _upsert_bar leaves the tick's price as that of the last bar.
LEMMA UpsertFacts ==
    ASSUME NEW bars \in Seq(BarSet), NEW tick \in TickSet
    PROVE  /\ UpsertBar(bars, tick) \in Seq(BarSet) /\ UpsertBar(bars, tick) # <<>>
           /\ Last(UpsertBar(bars, tick)).last = tick.price
<1>1. NewBar(tick) \in BarSet /\ NewBar(tick).last = tick.price
  BY DEF NewBar, BarSet, TickSet
<1>2. CASE bars = <<>> \/ Last(bars).sec # tick.ts
  <2>1. UpsertBar(bars, tick) = Append(bars, NewBar(tick))
    BY <1>2 DEF UpsertBar
  <2> QED BY <1>1, <2>1 DEF Last
<1>3. CASE ~(bars = <<>> \/ Last(bars).sec # tick.ts)
  <2> DEFINE old == bars[Len(bars)]
             new == UpdatedBar(old, tick)
             upd == [bars EXCEPT ![Len(bars)] = new]
  <2>1. Len(bars) \in DOMAIN bars /\ old \in BarSet
    BY <1>3
  <2>2. UpsertBar(bars, tick) = upd
    BY <1>3 DEF UpsertBar
  <2>3. new \in BarSet /\ new.last = tick.price
    <3> HIDE DEF old
    <3> DEFINE traded == [old EXCEPT !.last = tick.price, !.count = @ + 1]
    <3>1. traded \in BarSet /\ traded.last = tick.price
      <4>1. old.count + 1 \in Nat /\ tick.price \in Nat
        BY <2>1 DEF BarSet, TickSet
      <4>2. traded = [old EXCEPT !.last = tick.price, !.count = old.count + 1]
        OBVIOUS
      <4> QED BY <2>1, <4>1, <4>2 DEF BarSet
    <3>2. new = IF tick.spread = NoSpread THEN traded
                ELSE [traded EXCEPT !.spread = tick.spread, !.quote_ts = tick.ts]
      BY DEF UpdatedBar
    <3> HIDE DEF traded, new
    <3> QED BY <3>1, <3>2 DEF BarSet, TickSet
  <2> HIDE DEF new
  <2>4. upd \in Seq(BarSet) /\ Len(upd) = Len(bars) /\ upd[Len(bars)] = new
    BY <2>1, <2>3
  <2>5. upd # <<>>
    BY <2>1, <2>4
  <2> QED BY <2>2, <2>3, <2>4, <2>5 DEF Last
<1> QED BY <1>2, <1>3

\* _compute_delta: the window always holds the last bar.
LEMMA StartFacts ==
    ASSUME NEW bars \in Seq(BarSet), bars # <<>>, NEW n \in DOMAIN Levels
    PROVE  StartPrice(bars, Levels[n]) \in Nat
<1> DEFINE w == InWindow(bars, Levels[n])
<1>1. Len(bars) \in DOMAIN bars /\ bars[Len(bars)].sec \in Nat
  BY BarFacts
<1>2. WindowSec[Levels[n]] \in Nat
  BY DetectorAssumption
<1>3. w \in SUBSET Nat /\ w \subseteq DOMAIN bars /\ Len(bars) \in w
  BY <1>1, <1>2 DEF InWindow, Last
<1>4. Min(w) \in DOMAIN bars
  <2> HIDE DEF w
  <2> QED BY <1>3, MinFacts
<1>5. bars[Min(w)].open \in Nat
  BY <1>4, BarFacts
<1> QED BY <1>5 DEF StartPrice
-----------------------------------------------------------------------------
(* The scan. *)

\* What the parts of a scan are, and that such parts make one.
LEMMA FieldsOfScan ==
    ASSUME NEW s \in ScanSet
    PROVE  /\ s.pc \in {"sleeping", "scanning", "dispatching"} /\ s.todo \in Seq(Assets)
           /\ s.level \in 0 .. Len(Levels) /\ DOMAIN s.orphans \subseteq Assets
           /\ s.orphans \in [DOMAIN s.orphans -> Seq(BarSet)]
           /\ s.pending \in Seq(AlertSet) /\ s.alerts \in Seq(AlertSet)
<1>1. s.orphans \in UNION {[S -> Seq(BarSet)] : S \in SUBSET Assets}
  BY DEF ScanSet
<1>2. PICK S \in SUBSET Assets : s.orphans \in [S -> Seq(BarSet)]
  BY <1>1
<1>3. DOMAIN s.orphans = S
  BY <1>2
<1>4. /\ s.pc \in {"sleeping", "scanning", "dispatching"} /\ s.todo \in Seq(Assets)
      /\ s.level \in 0 .. Len(Levels) /\ s.pending \in Seq(AlertSet) /\ s.alerts \in Seq(AlertSet)
  BY DEF ScanSet
<1> QED BY <1>2, <1>3, <1>4

LEMMA MakeScan ==
    ASSUME NEW p \in {"sleeping", "scanning", "dispatching"}, NEW t \in Seq(Assets),
           NEW l \in 0 .. Len(Levels), NEW o, DOMAIN o \subseteq Assets,
           o \in [DOMAIN o -> Seq(BarSet)], NEW q \in Seq(AlertSet), NEW r \in Seq(AlertSet)
    PROVE  [pc |-> p, todo |-> t, level |-> l, orphans |-> o, pending |-> q, alerts |-> r] \in ScanSet
<1>1. o \in UNION {[S -> Seq(BarSet)] : S \in SUBSET Assets}
  OBVIOUS
<1> QED BY <1>1 DEF ScanSet

LEMMA LevelsFinite ==
    Levels \in Seq(STRING) /\ Len(Levels) \in Nat /\ DOMAIN Levels = 1 .. Len(Levels)
BY DetectorAssumption

\* A scan at rest, or being dispatched, holds nothing.
LEMMA RestingForm ==
    ASSUME NEW p \in {"sleeping", "scanning", "dispatching"}
    PROVE  LET s == [Resting EXCEPT !.pc = p] IN
           /\ s \in ScanSet /\ ScanForm(s)
           /\ s.pc = p /\ s.alerts = <<>> /\ s.pending = <<>> /\ DOMAIN s.orphans = {}
           /\ Distinct(s.todo) /\ Range(s.todo) = {}
           /\ Resting = [Resting EXCEPT !.pc = "sleeping"]
<1> DEFINE s == [Resting EXCEPT !.pc = p]
<1>1. s = [pc |-> p, todo |-> <<>>, level |-> 0, orphans |-> <<>>, pending |-> <<>>, alerts |-> <<>>]
  BY DEF Resting
<1>2. /\ <<>> \in Seq(Assets) /\ <<>> \in Seq(AlertSet) /\ DOMAIN <<>> = {} /\ 0 \in 0 .. Len(Levels)
      /\ <<>> \in [{} -> Seq(BarSet)]
  BY LevelsFinite
<1>3. s \in ScanSet
  <2> HIDE DEF s
  <2> QED BY <1>1, <1>2, MakeScan
<1>4. Distinct(s.todo) /\ Range(s.todo) = {}
  BY <1>1, <1>2 DEF Distinct, Range
<1> QED BY <1>1, <1>2, <1>3, <1>4 DEF ScanForm, Resting

\* scan_once goes on where it was, or begins with one deque per market.
LEMMA ScanningForm ==
    ASSUME ScanForm(scan), BuffersOK, NEW s \in Scanning
    PROVE  /\ ScanForm(s) /\ s.pc = "scanning"
           /\ s = scan \/ (s.level = 0 /\ s.alerts = <<>> /\ s.pending = <<>>)
<1>1. CASE scan.pc = "scanning"
  BY <1>1 DEF Scanning
<1>2. CASE scan.pc # "scanning"
  <2>1. PICK t \in SetToSeqs(DOMAIN bars_by_asset) :
           s = [Resting EXCEPT !.pc = "scanning", !.todo = t]
    BY <1>2 DEF Scanning
  <2>2. IsFiniteSet(DOMAIN bars_by_asset) /\ DOMAIN bars_by_asset \subseteq Assets
    BY DEF BuffersOK
  <2>3. t \in Seq(DOMAIN bars_by_asset) /\ Distinct(t)
    BY <2>2, FS_CardinalityType DEF SetToSeqs, Distinct
  <2>4. t \in Seq(Assets) /\ Range(t) \subseteq DOMAIN bars_by_asset
    BY <2>2, <2>3 DEF Range
  <2>5. s = [pc |-> "scanning", todo |-> t, level |-> 0, orphans |-> <<>>, pending |-> <<>>,
             alerts |-> <<>>]
    BY <2>1 DEF Resting
  <2>6. /\ <<>> \in Seq(AlertSet) /\ DOMAIN <<>> = {} /\ 0 \in 0 .. Len(Levels)
        /\ <<>> \in [{} -> Seq(BarSet)]
    BY LevelsFinite
  <2>7. s \in ScanSet
    BY <2>4, <2>5, <2>6, MakeScan
  <2> QED BY <2>3, <2>4, <2>5, <2>6, <2>7 DEF ScanForm
<1> QED BY <1>1, <1>2

\* The deques a scan holds.
LEMMA DequeFacts ==
    ASSUME BuffersOK, now \in Nat, NEW s, ScanForm(s), NEW k \in DOMAIN s.todo
    PROVE  /\ s.todo[k] \in Assets /\ Held(s, k) \in Seq(BarSet)
           /\ DOMAIN Deques(s) = DOMAIN s.todo /\ Deques(s)[k] \in Seq(BarSet)
           /\ Deques(s)[k] # <<>> =>
                Held(s, k) # <<>> /\ Last(Deques(s)[k]) = Last(Held(s, k))
           /\ s.todo[k] \notin DOMAIN s.orphans =>
                s.todo[k] \in DOMAIN bars_by_asset /\ Held(s, k) = bars_by_asset[s.todo[k]]
<1>1. s \in ScanSet /\ s.todo \in Seq(Assets) /\ s.orphans \in [DOMAIN s.orphans -> Seq(BarSet)]
  BY FieldsOfScan DEF ScanForm
<1>2. s.todo[k] \in Range(s.todo) /\ s.todo[k] \in Assets
  BY <1>1 DEF Range
<1>3. s.todo[k] \in DOMAIN bars_by_asset \/ s.todo[k] \in DOMAIN s.orphans
  BY <1>2 DEF ScanForm
<1>4. s.todo[k] \notin DOMAIN s.orphans =>
        s.todo[k] \in DOMAIN bars_by_asset /\ Held(s, k) = bars_by_asset[s.todo[k]]
  BY <1>3 DEF Held
<1>5. Held(s, k) \in Seq(BarSet)
  <2>1. CASE s.todo[k] \in DOMAIN s.orphans
    BY <1>1, <2>1 DEF Held
  <2>2. CASE s.todo[k] \notin DOMAIN s.orphans
    BY <1>4, <2>2 DEF BuffersOK, BufferOK
  <2> QED BY <2>1, <2>2
<1>6. /\ DOMAIN Deques(s) = DOMAIN s.todo
      /\ Deques(s)[k] = Held(s, k) \/ Deques(s)[k] = PruneBars(Held(s, k))
  BY DEF Deques
<1>7. /\ PruneBars(Held(s, k)) \in Seq(BarSet)
      /\ PruneBars(Held(s, k)) # <<>> =>
           Held(s, k) # <<>> /\ Last(PruneBars(Held(s, k))) = Last(Held(s, k))
  BY <1>5, PruneFacts
<1> QED BY <1>2, <1>4, <1>5, <1>6, <1>7

\* The alert that is made where a market fires.
LEMMA AlertFacts ==
    ASSUME BuffersOK, now \in Nat, NEW s, ScanForm(s), NEW k \in DOMAIN s.todo,
           NEW n \in DOMAIN Levels, Fires(s, Deques(s), k, n)
    PROVE  LET x == Alert(s.todo[k], Deques(s)[k], Levels[n])
           IN /\ x \in AlertSet /\ x.asset = s.todo[k] /\ x.level = Levels[n] /\ x.ts = now
              /\ s.todo[k] \notin DOMAIN s.orphans => x.end = x.current
<1> DEFINE a == s.todo[k]
           bars == Deques(s)[k]
           x == Alert(a, bars, Levels[n])
<1>1. /\ a \in Assets /\ bars \in Seq(BarSet) /\ bars # <<>> /\ Last(bars) = Last(Held(s, k))
      /\ a \notin DOMAIN s.orphans => Held(s, k) = bars_by_asset[a]
  BY DequeFacts DEF Fires
<1>2. a \in DOMAIN latest_tick /\ a \in DOMAIN bars_by_asset
  BY DEF Fires, BuffersOK
<1>3. BufferOK(a)
  BY <1>2 DEF BuffersOK
<1>4. StartPrice(bars, Levels[n]) \in PosNat
  BY <1>1, StartFacts DEF Fires, Shifted, PosNat
<1>5. TicksInWindow(bars, Levels[n]) \in Nat
  BY <1>1, TicksFacts
<1>6. Len(bars) \in DOMAIN bars /\ Last(bars).last \in Nat
  BY <1>1, BarFacts DEF Last
<1>7. Levels[n] \in STRING
  BY LevelsFinite
<1>8. Confidence(latest_tick[a], TicksInWindow(bars, Levels[n])) \in {"weak", "moderate", "strong"}
  BY DEF Confidence
<1>9. latest_tick[a].price \in Nat
  BY <1>3 DEF BufferOK
<1>10. x = [asset |-> a, level |-> Levels[n], ts |-> now,
            start |-> StartPrice(bars, Levels[n]), end |-> Last(bars).last,
            ticks |-> TicksInWindow(bars, Levels[n]),
            current |-> latest_tick[a].price, quoted |-> latest_tick[a].spread # NoSpread,
            confidence |-> Confidence(latest_tick[a], TicksInWindow(bars, Levels[n]))]
  BY DEF Alert
<1>11. (latest_tick[a].spread # NoSpread) \in BOOLEAN
  OBVIOUS
<1> HIDE DEF a, bars, x
<1>12. x \in AlertSet /\ x.asset = a /\ x.level = Levels[n] /\ x.ts = now
       /\ x.end = Last(bars).last /\ x.current = latest_tick[a].price
  BY <1>1, <1>4, <1>5, <1>6, <1>7, <1>8, <1>9, <1>10, <1>11 DEF AlertSet
<1>13. a \notin DOMAIN s.orphans => Last(bars).last = latest_tick[a].price
  <2> SUFFICES ASSUME a \notin DOMAIN s.orphans PROVE Last(bars).last = latest_tick[a].price
    OBVIOUS
  <2>1. bars_by_asset[a] # <<>> /\ Last(bars) = Last(bars_by_asset[a])
    BY <1>1, DequeFacts DEF a, bars
  <2> QED BY <1>3, <2>1 DEF BufferOK
<1> QED BY <1>12, <1>13 DEF a, bars, x

\* The buffers after the scan has passed k markets: each is as it was, pruned,
\* or gone because its deque ran empty.
LEMMA PassedFacts ==
    ASSUME BuffersOK, now \in Nat, NEW s, ScanForm(s), NEW k \in 0 .. Len(s.todo),
           Passed(s, Deques(s), k)
    PROVE  /\ BuffersOK'
           /\ \A i \in DOMAIN s.todo : i > k \/ Deques(s)[i] # <<>> =>
                s.todo[i] \in DOMAIN bars_by_asset' \cup DOMAIN s.orphans
<1> DEFINE deques == Deques(s)
           emptied == {s.todo[i] : i \in {j \in 1 .. k : Held(s, j) # <<>> /\ deques[j] = <<>>}}
           pruned == {i \in 1 .. k : s.todo[i] \notin DOMAIN s.orphans \cup emptied}
           New(a) == IF \E i \in pruned : s.todo[i] = a
                       THEN deques[CHOOSE i \in pruned : s.todo[i] = a] ELSE bars_by_asset[a]
<1>1. /\ bars_by_asset' = [a \in DOMAIN bars_by_asset \ emptied |-> New(a)]
      /\ latest_tick' = Without(latest_tick, emptied)
  BY DEF Passed
<1>2. /\ s.todo \in Seq(Assets) /\ DOMAIN s.todo = 1 .. Len(s.todo) /\ Len(s.todo) \in Nat
      /\ Distinct(s.todo)
  BY FieldsOfScan DEF ScanForm
<1>3. 1 .. k \subseteq DOMAIN s.todo
  BY <1>2
<1>4. /\ IsFiniteSet(DOMAIN bars_by_asset) /\ DOMAIN bars_by_asset \subseteq Assets
      /\ DOMAIN latest_tick = DOMAIN bars_by_asset /\ \A a \in DOMAIN bars_by_asset : BufferOK(a)
  BY DEF BuffersOK
<1>5. DOMAIN bars_by_asset' = DOMAIN bars_by_asset \ emptied
  BY <1>1
<1>6. /\ DOMAIN latest_tick' = DOMAIN bars_by_asset \ emptied
      /\ \A a \in DOMAIN bars_by_asset \ emptied : latest_tick'[a] = latest_tick[a]
  BY <1>1, <1>4 DEF Without, Restrict
<1>7. ASSUME NEW a \in DOMAIN bars_by_asset \ emptied PROVE BufferOK(a)'
  <2>1. bars_by_asset'[a] = New(a) /\ latest_tick'[a] = latest_tick[a] /\ BufferOK(a)
    BY <1>1, <1>4, <1>6
  <2>2. CASE ~\E i \in pruned : s.todo[i] = a
    <3>1. bars_by_asset'[a] = bars_by_asset[a]
      BY <2>1, <2>2
    <3> QED BY <2>1, <3>1 DEF BufferOK
  <2>3. CASE \E i \in pruned : s.todo[i] = a
    <3>1. PICK i \in pruned : s.todo[i] = a /\ New(a) = deques[i]
      <4> DEFINE c == CHOOSE i \in pruned : s.todo[i] = a
      <4>1. c \in pruned /\ s.todo[c] = a
        BY <2>3
      <4>2. New(a) = deques[c]
        BY <2>3
      <4> HIDE DEF c, pruned, New, deques
      <4> QED BY <4>1, <4>2
    <3>2. i \in DOMAIN s.todo /\ s.todo[i] \notin DOMAIN s.orphans
      BY <1>3
    <3>3. /\ deques[i] \in Seq(BarSet)
          /\ deques[i] # <<>> => bars_by_asset[a] # <<>> /\ Last(deques[i]) = Last(bars_by_asset[a])
      BY <3>1, <3>2, DequeFacts
    <3>4. bars_by_asset'[a] = deques[i]
      BY <2>1, <3>1
    <3> HIDE DEF deques, New
    <3> QED BY <2>1, <3>3, <3>4 DEF BufferOK
  <2> QED BY <2>2, <2>3
<1>8. IsFiniteSet(DOMAIN bars_by_asset \ emptied)
  <2> HIDE DEF emptied
  <2> QED BY <1>4, FS_Subset
<1>9. BuffersOK'
  <2> HIDE DEF emptied
  <2> QED BY <1>4, <1>5, <1>6, <1>7, <1>8 DEF BuffersOK
<1>10. ASSUME NEW i \in DOMAIN s.todo, i > k \/ deques[i] # <<>>
       PROVE  s.todo[i] \in DOMAIN bars_by_asset' \cup DOMAIN s.orphans
  <2>1. s.todo[i] \notin emptied
    <3> SUFFICES ASSUME s.todo[i] \in emptied PROVE FALSE
      OBVIOUS
    <3>1. PICK j \in 1 .. k : deques[j] = <<>> /\ s.todo[j] = s.todo[i]
      OBVIOUS
    <3>2. j = i
      BY <1>2, <1>3, <3>1 DEF Distinct
    <3> QED BY <1>2, <1>10, <3>1, <3>2
  <2>2. s.todo[i] \in DOMAIN bars_by_asset \/ s.todo[i] \in DOMAIN s.orphans
    BY DequeFacts
  <2> HIDE DEF emptied
  <2> QED BY <1>5, <2>1, <2>2
<1> QED BY <1>9, <1>10

\* What the scan leaves to itself when it waits at market k: that market and
\* those behind it, with the deques it holds of them.
LEMMA AwaitForm ==
    ASSUME BuffersOK, now \in Nat, NEW s, ScanForm(s), s.pc = "scanning", NEW k \in DOMAIN s.todo,
           NEW n \in DOMAIN Levels, Fires(s, Deques(s), k, n), Passed(s, Deques(s), k),
           scan' = AwaitInsert(s, Deques(s), k, n)
    PROVE  /\ ScanForm(scan)' /\ scan'.pc = "scanning"
           /\ scan'.alerts = s.alerts \o s.pending
           /\ scan'.pending = <<Alert(s.todo[k], Deques(s)[k], Levels[n])>>
           /\ s.todo[k] \in DOMAIN s.orphans => s.todo[k] \in DOMAIN scan'.orphans
<1> DEFINE todo == SubSeq(s.todo, k, Len(s.todo))
           D == DOMAIN s.orphans \cap {s.todo[i] : i \in k .. Len(s.todo)}
           orphans == [a \in D |-> IF a = s.todo[k] THEN Deques(s)[k] ELSE s.orphans[a]]
           x == Alert(s.todo[k], Deques(s)[k], Levels[n])
<1>1. /\ s \in ScanSet /\ s.todo \in Seq(Assets) /\ Distinct(s.todo)
      /\ DOMAIN s.orphans \subseteq Assets /\ s.orphans \in [DOMAIN s.orphans -> Seq(BarSet)]
      /\ s.pending \in Seq(AlertSet) /\ s.alerts \in Seq(AlertSet)
  BY FieldsOfScan DEF ScanForm
<1>2. x \in AlertSet
  BY AlertFacts
<1>3. scan' = [pc |-> "scanning", todo |-> todo, level |-> n, orphans |-> orphans,
               pending |-> <<x>>, alerts |-> s.alerts \o s.pending]
  BY <1>1 DEF AwaitInsert, ScanSet
<1>4. /\ DOMAIN s.todo = 1 .. Len(s.todo) /\ Len(s.todo) \in Nat
      /\ todo \in Seq(Assets) /\ Len(todo) = Len(s.todo) - k + 1
      /\ DOMAIN todo = 1 .. Len(s.todo) - k + 1
      /\ \A i \in DOMAIN todo : k + i - 1 \in k .. Len(s.todo) /\ todo[i] = s.todo[k + i - 1]
  BY <1>1
<1>5. Distinct(todo)
  <2> SUFFICES ASSUME NEW i \in DOMAIN todo, NEW j \in DOMAIN todo, todo[i] = todo[j] PROVE i = j
    BY DEF Distinct
  <2> HIDE DEF todo
  <2>1. /\ k + i - 1 \in DOMAIN s.todo /\ k + j - 1 \in DOMAIN s.todo
        /\ s.todo[k + i - 1] = s.todo[k + j - 1]
    BY <1>4
  <2>2. k + i - 1 = k + j - 1
    BY <1>1, <2>1 DEF Distinct
  <2> QED BY <1>4, <2>2
<1>6. Range(todo) = {s.todo[i] : i \in k .. Len(s.todo)}
  <2>1. ASSUME NEW i \in k .. Len(s.todo) PROVE s.todo[i] \in Range(todo)
    <3>1. i - k + 1 \in DOMAIN todo /\ k + (i - k + 1) - 1 = i
      BY <1>4
    <3> QED BY <1>4, <3>1 DEF Range
  <2> QED BY <1>4, <2>1 DEF Range
<1>7. orphans \in [D -> Seq(BarSet)] /\ D \subseteq Assets
  <2>1. Deques(s)[k] \in Seq(BarSet)
    BY DequeFacts
  <2> QED BY <1>1, <2>1
<1>8. n \in 0 .. Len(Levels) /\ <<x>> \in Seq(AlertSet) /\ s.alerts \o s.pending \in Seq(AlertSet)
  BY <1>1, <1>2, LevelsFinite
<1>9. scan' \in ScanSet
  <2>1. DOMAIN orphans = D
    OBVIOUS
  <2>2. todo \in Seq(Assets) /\ n \in 0 .. Len(Levels)
    BY <1>4, <1>8
  <2> HIDE DEF orphans, todo, x, D
  <2>3. [pc |-> "scanning", todo |-> todo, level |-> n, orphans |-> orphans,
         pending |-> <<x>>, alerts |-> s.alerts \o s.pending] \in ScanSet
    BY <1>7, <1>8, <2>1, <2>2, MakeScan
  <2> QED BY <1>3, <2>3
<1>10. Range(todo) \subseteq DOMAIN bars_by_asset' \cup D
  <2> SUFFICES ASSUME NEW i \in k .. Len(s.todo)
               PROVE  s.todo[i] \in DOMAIN bars_by_asset' \cup D
    BY <1>6
  <2>1. i \in DOMAIN s.todo /\ k \in 0 .. Len(s.todo)
    BY <1>4
  <2>2. i > k \/ Deques(s)[i] # <<>>
    BY <1>4 DEF Fires
  <2>3. s.todo[i] \in DOMAIN bars_by_asset' \cup DOMAIN s.orphans
    BY <2>1, <2>2, PassedFacts
  <2> QED BY <2>3
<1>11. /\ scan'.todo = todo /\ scan'.orphans = orphans /\ DOMAIN orphans = D
       /\ scan'.pending = <<x>> /\ scan'.alerts = s.alerts \o s.pending /\ scan'.pc = "scanning"
  <2>1. DOMAIN orphans = D
    OBVIOUS
  <2> HIDE DEF orphans, todo, x, D
  <2> DEFINE all == s.alerts \o s.pending
  <2>2. scan' = [pc |-> "scanning", todo |-> todo, level |-> n, orphans |-> orphans,
                 pending |-> <<x>>, alerts |-> all]
    BY <1>3
  <2> HIDE DEF all
  <2>3. /\ scan'.todo = todo /\ scan'.orphans = orphans /\ scan'.pending = <<x>>
        /\ scan'.alerts = all /\ scan'.pc = "scanning"
    BY <2>2
  <2> QED BY <2>1, <2>3 DEF all
<1>12. D \subseteq Range(todo)
  BY <1>6
<1>13. ScanForm(scan)'
  <2> HIDE DEF orphans, todo, x, D
  <2> QED BY <1>2, <1>5, <1>9, <1>10, <1>11, <1>12 DEF ScanForm, Distinct, Range
<1>14. s.todo[k] \in DOMAIN s.orphans => s.todo[k] \in D
  BY <1>4
<1> QED BY <1>11, <1>13, <1>14
-----------------------------------------------------------------------------
(* The dispatcher's choice. *)

\* The numbers _rank_key compares.
KeyOf(i, x) == RankKey(x)[i]
LEMMA KeyFacts ==
    ASSUME NEW x \in AlertSet
    PROVE  /\ \A i \in 1 .. 5 : KeyOf(i, x) \in Int
           /\ DOMAIN RankKey(x) = 1 .. 5
<1>1. x.start \in PosNat /\ x.end \in Nat /\ x.ticks \in Nat
  BY DEF AlertSet
<1>2. Move(x) \in Nat
  BY <1>1 DEF Move, PosNat
<1>3. Delta(x) \in Int
  <2>1. Move(x) * 1000000 \in Nat /\ x.start \in Nat \ {0}
    BY <1>1, <1>2 DEF PosNat
  <2>2. \A a \in Nat, b \in Nat \ {0} : a \div b \in Int
    BY Z3
  <2> QED BY <2>1, <2>2 DEF Delta
<1>4. LevelScore(x.level) \in Int
  BY DEF LevelScore
<1>5. ConfidenceScore(x.confidence) \in Int
  BY DEF ConfidenceScore
<1> QED BY <1>1, <1>2, <1>3, <1>4, <1>5 DEF RankKey, KeyOf

\* Tuples are compared from the left.
Beats(x, y) ==
    \/ KeyOf(1, x) > KeyOf(1, y)
    \/ KeyOf(1, x) = KeyOf(1, y) /\ KeyOf(2, x) > KeyOf(2, y)
    \/ /\ KeyOf(1, x) = KeyOf(1, y) /\ KeyOf(2, x) = KeyOf(2, y)
       /\ KeyOf(3, x) > KeyOf(3, y)
    \/ /\ KeyOf(1, x) = KeyOf(1, y) /\ KeyOf(2, x) = KeyOf(2, y) /\ KeyOf(3, x) = KeyOf(3, y)
       /\ KeyOf(4, x) > KeyOf(4, y)
    \/ /\ KeyOf(1, x) = KeyOf(1, y) /\ KeyOf(2, x) = KeyOf(2, y) /\ KeyOf(3, x) = KeyOf(3, y)
       /\ KeyOf(4, x) = KeyOf(4, y) /\ KeyOf(5, x) > KeyOf(5, y)

LEMMA OutranksBeats ==
    ASSUME NEW x \in AlertSet, NEW y \in AlertSet
    PROVE  Outranks(x, y) <=> Beats(x, y)
<1>1. Outranks(x, y) <=> \E i \in 1 .. 5 : /\ KeyOf(i, x) > KeyOf(i, y)
                                           /\ \A j \in 1 .. i - 1 : KeyOf(j, x) = KeyOf(j, y)
  BY KeyFacts DEF Outranks, KeyOf
<1>2. 1 .. 5 = {1, 2, 3, 4, 5}
  OBVIOUS
<1>3. /\ 1 .. 1 - 1 = {} /\ 1 .. 2 - 1 = {1} /\ 1 .. 3 - 1 = {1, 2} /\ 1 .. 4 - 1 = {1, 2, 3}
      /\ 1 .. 5 - 1 = {1, 2, 3, 4}
  OBVIOUS
<1> QED BY <1>1, <1>2, <1>3 DEF Beats

\* The order is strict.
LEMMA RankOrder ==
    ASSUME NEW x \in AlertSet, NEW y \in AlertSet, NEW z \in AlertSet
    PROVE  ~Outranks(x, x) /\ (Outranks(x, y) /\ Outranks(y, z) => Outranks(x, z))
<1>1. \A i \in {1, 2, 3, 4, 5} : KeyOf(i, x) \in Int /\ KeyOf(i, y) \in Int /\ KeyOf(i, z) \in Int
  BY KeyFacts
<1>2. ~Beats(x, x) /\ (Beats(x, y) /\ Beats(y, z) => Beats(x, z))
  BY <1>1 DEF Beats
<1> QED BY <1>2, OutranksBeats

\* So every group of alerts has one that is not outranked.
Unbeaten(alerts, group, i) == \A j \in group : ~Outranks(alerts[j], alerts[i])
LEMMA BestExists ==
    ASSUME NEW alerts \in Seq(AlertSet), NEW group \in SUBSET DOMAIN alerts, group # {}
    PROVE  \E i \in group : Unbeaten(alerts, group, i)
<1> DEFINE Bad == {n \in Nat : \E S \in SUBSET DOMAIN alerts :
                      S # {} /\ S \subseteq 1 .. n /\ ~\E i \in S : Unbeaten(alerts, S, i)}
<1>1. Bad = {}
  <2> SUFFICES ASSUME Bad # {} PROVE FALSE
    OBVIOUS
  <2>1. PICK n \in Bad : \A m \in Bad : n <= m
    BY LeastElement
  <2>2. PICK S \in SUBSET DOMAIN alerts :
           S # {} /\ S \subseteq 1 .. n /\ ~\E i \in S : Unbeaten(alerts, S, i)
    OBVIOUS
  <2>3. n \in Nat /\ n # 0
    BY <2>2
  <2>4. n - 1 \in Nat /\ n - 1 \notin Bad
    <3> HIDE DEF Bad
    <3> QED BY <2>1, <2>3
  <2>5. ASSUME NEW T \in SUBSET DOMAIN alerts, T # {}, T \subseteq 1 .. n - 1
        PROVE  \E i \in T : Unbeaten(alerts, T, i)
    BY <2>4, <2>5
  <2>6. n \in S
    <3> SUFFICES ASSUME n \notin S PROVE FALSE
      OBVIOUS
    <3>1. S \subseteq 1 .. n - 1
      BY <2>2, <2>3
    <3> QED BY <2>2, <2>5, <3>1
  <2> DEFINE T == S \ {n}
  <2>7. T \subseteq 1 .. n - 1 /\ T \in SUBSET DOMAIN alerts
    BY <2>2, <2>3
  <2>8. \A i \in S : alerts[i] \in AlertSet
    BY <2>2
  <2>9. CASE T = {}
    <3>1. Unbeaten(alerts, S, n)
      BY <2>6, <2>8, <2>9, RankOrder DEF Unbeaten
    <3> QED BY <2>2, <2>6, <3>1
  <2>10. CASE T # {}
    <3>1. PICK i \in T : Unbeaten(alerts, T, i)
      BY <2>5, <2>7, <2>10
    <3>2. CASE Outranks(alerts[n], alerts[i])
      <4>1. ASSUME NEW j \in S, Outranks(alerts[j], alerts[n]) PROVE FALSE
        <5>1. alerts[j] \in AlertSet /\ alerts[n] \in AlertSet /\ alerts[i] \in AlertSet
          BY <2>6, <2>8, <3>1
        <5>2. Outranks(alerts[j], alerts[i]) /\ j # n
          BY <3>2, <4>1, <5>1, RankOrder
        <5> QED BY <3>1, <5>2 DEF Unbeaten
      <4>2. Unbeaten(alerts, S, n)
        BY <4>1 DEF Unbeaten
      <4> QED BY <2>2, <2>6, <4>2
    <3>3. CASE ~Outranks(alerts[n], alerts[i])
      <4>1. Unbeaten(alerts, S, i)
        BY <3>1, <3>3 DEF Unbeaten
      <4> QED BY <2>2, <3>1, <4>1
    <3> QED BY <3>2, <3>3
  <2> QED BY <2>9, <2>10
<1>2. Len(alerts) \in Nat /\ group \subseteq 1 .. Len(alerts)
  OBVIOUS
<1>3. Len(alerts) \notin Bad
  BY <1>1
<1> QED BY <1>2, <1>3

\* max(group, key=_rank_key) is one of the group.
LEMMA BestFacts ==
    ASSUME NEW alerts \in Seq(AlertSet), NEW group \in SUBSET DOMAIN alerts, group # {}
    PROVE  \E i \in group : Best(alerts, group) = alerts[i]
<1> DEFINE T == {i \in group : Unbeaten(alerts, group, i)}
<1>1. T \in SUBSET Nat /\ T # {}
  BY BestExists
<1>2. Min(T) \in T
  BY <1>1, MinFacts
<1>3. Best(alerts, group) = alerts[Min(T)]
  BY DEF Best, Unbeaten
<1> QED BY <1>2, <1>3

\* select_for_dispatch's now_ms.
TimeOf(alerts) == Max({alerts[i].ts : i \in Eligible(alerts)})

\* The selection: one alert per event that is not silent, and the time of an
\* eligible alert is at most that of the selection.
LEMMA SelectionFacts ==
    ASSUME NEW alerts \in Seq(AlertSet), NEW t \in Nat, \A i \in DOMAIN alerts : alerts[i].ts <= t
    PROVE  /\ \A x \in SelectForDispatch(alerts) :
                /\ \E i \in Eligible(alerts) : x = alerts[i]
                /\ ~Silenced(EventOf[x.asset], TimeOf(alerts))
           /\ \A x, y \in SelectForDispatch(alerts) : EventOf[x.asset] = EventOf[y.asset] => x = y
           /\ \A i \in Eligible(alerts) :
                /\ TimeOf(alerts) \in Nat /\ TimeOf(alerts) <= t /\ alerts[i].ts <= TimeOf(alerts)
                /\ \/ Silenced(EventOf[alerts[i].asset], TimeOf(alerts))
                   \/ \E y \in SelectForDispatch(alerts) : EventOf[y.asset] = EventOf[alerts[i].asset]
<1> DEFINE E == {EventOf[alerts[i].asset] : i \in Eligible(alerts)}
           Chosen(e) == Best(alerts, EventGroup(alerts, e))
<1>1. Eligible(alerts) \subseteq DOMAIN alerts /\ \A i \in DOMAIN alerts : alerts[i].ts \in Nat
  <2>1. \A i \in DOMAIN alerts : alerts[i] \in AlertSet
    OBVIOUS
  <2> QED BY <2>1 DEF Eligible, AlertSet
<1>2. SelectForDispatch(alerts) =
        {Chosen(e) : e \in {f \in E : ~Silenced(f, TimeOf(alerts))}}
  BY DEF SelectForDispatch, TimeOf
<1>3. ASSUME NEW e \in E
      PROVE  (\E i \in Eligible(alerts) : Chosen(e) = alerts[i]) /\ EventOf[Chosen(e).asset] = e
  <2>1. EventGroup(alerts, e) \in SUBSET DOMAIN alerts /\ EventGroup(alerts, e) # {}
    BY <1>1 DEF EventGroup
  <2>2. PICK i \in EventGroup(alerts, e) : Chosen(e) = alerts[i]
    BY <2>1, BestFacts
  <2>3. i \in Eligible(alerts) /\ EventOf[alerts[i].asset] = e
    BY DEF EventGroup
  <2> QED BY <2>2, <2>3
<1>4. ASSUME NEW i \in Eligible(alerts)
      PROVE  TimeOf(alerts) \in Nat /\ TimeOf(alerts) <= t /\ alerts[i].ts <= TimeOf(alerts)
  <2> DEFINE T == {alerts[j].ts : j \in Eligible(alerts)}
  <2>1. T \in SUBSET Nat /\ alerts[i].ts \in T /\ \A x \in T : x <= t
    BY <1>1
  <2>2. Max(T) \in T /\ \A y \in T : y <= Max(T)
    <3> HIDE DEF T
    <3> QED BY <2>1, MaxFacts
  <2>3. TimeOf(alerts) = Max(T)
    BY DEF TimeOf
  <2> HIDE DEF T
  <2> QED BY <2>1, <2>2, <2>3
<1> HIDE DEF Chosen
<1>5. ASSUME NEW x \in SelectForDispatch(alerts)
      PROVE  \E e \in E : x = Chosen(e) /\ ~Silenced(e, TimeOf(alerts))
  BY <1>2
<1>6. ASSUME NEW i \in Eligible(alerts), ~Silenced(EventOf[alerts[i].asset], TimeOf(alerts))
      PROVE  \E y \in SelectForDispatch(alerts) : EventOf[y.asset] = EventOf[alerts[i].asset]
  <2>1. EventOf[alerts[i].asset] \in E
    OBVIOUS
  <2>2. PICK e \in E : e = EventOf[alerts[i].asset] /\ ~Silenced(e, TimeOf(alerts))
    BY <1>6, <2>1
  <2>3. Chosen(e) \in SelectForDispatch(alerts)
    BY <1>2, <2>2
  <2> QED BY <1>3, <2>2, <2>3
<1> HIDE DEF E
<1>7. ASSUME NEW x \in SelectForDispatch(alerts)
      PROVE  (\E i \in Eligible(alerts) : x = alerts[i]) /\ ~Silenced(EventOf[x.asset], TimeOf(alerts))
  BY <1>3, <1>5
<1>8. ASSUME NEW x \in SelectForDispatch(alerts), NEW y \in SelectForDispatch(alerts),
             EventOf[x.asset] = EventOf[y.asset]
      PROVE  x = y
  BY <1>3, <1>5, <1>8
<1> QED BY <1>4, <1>6, <1>7, <1>8

\* The silences after a selection.
LEMMA SilenceFacts ==
    ASSUME NEW S, \A x, y \in S : EventOf[x.asset] = EventOf[y.asset] => x = y
    PROVE  /\ DOMAIN Silence(S) = DOMAIN event_cooldowns \cup {EventOf[x.asset] : x \in S}
           /\ \A x \in S : Silence(S)[EventOf[x.asset]] = x.ts + DedupSec
           /\ \A e \in DOMAIN event_cooldowns :
                (\A x \in S : EventOf[x.asset] # e) => Silence(S)[e] = event_cooldowns[e]
<1> DEFINE D == DOMAIN event_cooldowns \cup {EventOf[x.asset] : x \in S}
           End(e) == IF \E x \in S : EventOf[x.asset] = e
                       THEN (CHOOSE x \in S : EventOf[x.asset] = e).ts + DedupSec
                       ELSE event_cooldowns[e]
<1>1. Silence(S) = [e \in D |-> End(e)]
  BY DEF Silence
<1>2. ASSUME NEW x \in S PROVE End(EventOf[x.asset]) = x.ts + DedupSec
  <2>1. (CHOOSE y \in S : EventOf[y.asset] = EventOf[x.asset]) = x
    OBVIOUS
  <2> QED BY <2>1
<1>3. ASSUME NEW e, \A x \in S : EventOf[x.asset] # e PROVE End(e) = event_cooldowns[e]
  BY <1>3
<1> HIDE DEF End
<1> QED BY <1>1, <1>2, <1>3
-----------------------------------------------------------------------------
(* Steps that leave the scan and the dispatcher alone. *)

\* The times are numbers.
LEMMA ClockFacts ==
    /\ StartTime \in Nat /\ MaxClock \in Nat /\ WarmupSec < StartTime /\ StartTime <= MaxClock
    /\ CooldownSec \in Nat /\ BufferSec \in Nat /\ WarmupSec \in Nat /\ DedupSec \in Nat
    /\ StoreOK => now \in Nat
BY ClockAssumption, DetectorAssumption, DedupAssumption DEF StoreOK

\* The alerts a scan has collected are alerts.
LEMMA CollectedFacts ==
    ASSUME NEW s, ScanForm(s)
    PROVE  /\ s.alerts \o s.pending \in Seq(AlertSet)
           /\ \A i \in DOMAIN (s.alerts \o s.pending) :
                (s.alerts \o s.pending)[i] \in AlertSet /\ (s.alerts \o s.pending)[i].ts \in Nat
<1> DEFINE c == s.alerts \o s.pending
<1>1. c \in Seq(AlertSet)
  BY FieldsOfScan DEF ScanForm
<1> HIDE DEF c
<1>2. \A i \in DOMAIN c : c[i] \in AlertSet
  BY <1>1
<1>3. \A i \in DOMAIN c : c[i].ts \in Nat
  BY <1>2 DEF AlertSet
<1> QED BY <1>1, <1>2, <1>3 DEF c

\* What the alerts already made and sent demand goes on being true.
LEMMA SilencesKept ==
    ASSUME StoreOK, SilencesOK, EventSilenced, SilencesCaused, ScanForm(scan),
           now' \in Nat, now <= now', UNCHANGED <<dispatcher_vars, restarts>>,
           scan'.pc = scan.pc, scan'.alerts = scan.alerts, scan'.pending = scan.pending
    PROVE  SilencesOK' /\ EventSilenced' /\ SilencesCaused'
<1> USE DEF dispatcher_vars
<1>1. now \in Nat
  BY ClockFacts
<1>2. Collected' = Collected /\ Selected' = Selected
  BY DEF Collected, Selected
<1>3. \A i \in DOMAIN Collected : Collected[i].ts \in Nat
  BY CollectedFacts DEF Collected
<1>4. \A y \in Selected : y.alert.ts \in Nat /\ y.at \in Nat
  BY DEF SilencesOK, Covered, AlertSet
<1>5. ASSUME NEW y \in Selected PROVE Covered(y)'
  BY <1>1, <1>2, <1>4 DEF SilencesOK, Covered
<1>6. \A i \in DOMAIN Collected' : Collected'[i].ts <= now'
  BY <1>1, <1>2, <1>3 DEF SilencesOK
<1>7. SilencesOK'
  BY <1>2, <1>5, <1>6 DEF SilencesOK
<1> QED BY <1>7 DEF EventSilenced, SilencesCaused, Selected

\* A step in which only time, buffers and the store move.
LEMMA Untouched ==
    ASSUME AlertsInv, now' \in Nat, now <= now',
           UNCHANGED <<scan, dispatcher_vars, cooldowns, fired, restarts>>
    PROVE  /\ CooldownsOK' /\ SilencesOK' /\ AlertCoherent' /\ CooldownKept'
           /\ EventSilenced' /\ SilencesCaused'
<1> USE DEF AlertsInv
<1>1. now \in Nat
  BY ClockFacts
<1>2. CooldownsOK'
  <2>1. \A x \in fired : x.ts \in Nat
    BY DEF CooldownsOK, AlertSet
  <2> QED BY <1>1, <2>1 DEF CooldownsOK
<1>3. SilencesOK' /\ EventSilenced' /\ SilencesCaused'
  BY SilencesKept
<1>4. AlertCoherent' /\ CooldownKept'
  BY DEF AlertCoherent, CooldownKept
<1> QED BY <1>2, <1>3, <1>4

LEMMA ScanKept ==
    ASSUME ScanForm(scan), scan' = scan, DOMAIN bars_by_asset \subseteq DOMAIN bars_by_asset'
    PROVE  ScanForm(scan)'
BY DEF ScanForm, Distinct, Range

\* time passes
LEMMA TickStep ==
    ASSUME AlertsInv, Tick
    PROVE  AlertsInv'
<1> USE DEF AlertsInv
<1>1. now' = now + 1 /\ now < MaxClock /\ now \in Nat
      /\ UNCHANGED <<tracked_markets, bars_by_asset, latest_tick, cooldowns, scan, dispatcher_vars,
                     restarts, fired>>
  BY ClockFacts DEF Tick, detector_vars, counters
<1>2. StoreOK'
  BY <1>1, ClockFacts DEF StoreOK, Known
<1>3. BuffersOK'
  BY <1>1 DEF BuffersOK, BufferOK
<1>4. ScanForm(scan)'
  BY <1>1, ScanKept
<1> QED BY <1>1, <1>2, <1>3, <1>4, Untouched

\* ingest_tick
LEMMA IngestStep ==
    ASSUME AlertsInv, NEW a \in Assets, NEW p \in Prices, NEW d \in Spreads, Ingest(a, p, d)
    PROVE  AlertsInv'
<1> USE DEF AlertsInv
<1> DEFINE tick == [asset |-> a, price |-> p, spread |-> d, ts |-> now]
           bars == IF a \in DOMAIN bars_by_asset THEN bars_by_asset[a] ELSE <<>>
           new == PruneBars(UpsertBar(bars, tick))
<1>1. /\ bars_by_asset' = With(bars_by_asset, a, new) /\ latest_tick' = With(latest_tick, a, tick)
      /\ UNCHANGED <<tracked_markets, now, cooldowns, scan, dispatcher_vars, restarts, fired>>
  BY DEF Ingest, IngestTick
<1>2. now \in Nat /\ p \in Nat /\ tick \in TickSet
  BY ClockFacts, TickAssumption DEF TickSet
<1>3. bars \in Seq(BarSet)
  <2>1. CASE a \in DOMAIN bars_by_asset
    BY <2>1 DEF BuffersOK, BufferOK
  <2>2. CASE a \notin DOMAIN bars_by_asset
    BY <2>2
  <2> QED BY <2>1, <2>2
<1>4. new \in Seq(BarSet) /\ (new # <<>> => Last(new).last = p)
  <2>1. UpsertBar(bars, tick) \in Seq(BarSet) /\ Last(UpsertBar(bars, tick)).last = tick.price
    BY <1>2, <1>3, UpsertFacts
  <2> QED BY <1>2, <2>1, PruneFacts
<1> HIDE DEF new
<1>5. /\ DOMAIN bars_by_asset' = DOMAIN bars_by_asset \cup {a}
      /\ DOMAIN latest_tick' = DOMAIN bars_by_asset \cup {a}
      /\ bars_by_asset'[a] = new /\ latest_tick'[a] = tick
      /\ \A x \in DOMAIN bars_by_asset \ {a} :
           bars_by_asset'[x] = bars_by_asset[x] /\ latest_tick'[x] = latest_tick[x]
  <2> HIDE DEF tick
  <2> QED BY <1>1 DEF BuffersOK, With
<1>6. tick.asset = a /\ tick.price = p
  OBVIOUS
<1> HIDE DEF tick
<1>7. ASSUME NEW x \in DOMAIN bars_by_asset' PROVE BufferOK(x)'
  <2>1. CASE x = a
    BY <1>2, <1>4, <1>5, <1>6, <2>1 DEF BufferOK
  <2>2. CASE x # a
    BY <1>5, <2>2 DEF BuffersOK, BufferOK
  <2> QED BY <2>1, <2>2
<1>8. IsFiniteSet(DOMAIN bars_by_asset')
  BY <1>5, FS_AddElement DEF BuffersOK
<1>9. BuffersOK'
  BY <1>5, <1>7, <1>8 DEF BuffersOK
<1>10. StoreOK'
  BY <1>1 DEF StoreOK, Known
<1>11. ScanForm(scan)'
  BY <1>1, <1>5, ScanKept
<1> QED BY <1>1, <1>2, <1>9, <1>10, <1>11, Untouched

\* set_market_active
LEMMA StoreStep ==
    ASSUME StoreOK, NEW a \in Assets, NEW v \in BOOLEAN, SetMarketActive({a}, v, now), now' = now
    PROVE  StoreOK'
<1>1. /\ Known' = Assets
      /\ \A x \in Assets : tracked_markets'[x] = IF x = a THEN Row(v, IF v THEN now ELSE 0)
                                                ELSE tracked_markets[x]
  BY DEF SetMarketActive, StoreOK, Known
<1>2. ASSUME NEW x \in Assets
      PROVE  /\ tracked_markets'[x].active \in BOOLEAN
             /\ ~tracked_markets'[x].active => tracked_markets'[x].subscribed_at = 0
  BY <1>1 DEF StoreOK, Row
<1> QED BY <1>1, <1>2 DEF StoreOK

\* The gatekeeper switches a market.
LEMMA SwitchStep ==
    ASSUME AlertsInv, NEW a \in Assets, Switch(a)
    PROVE  AlertsInv'
<1> USE DEF AlertsInv
<1>1. /\ SetMarketActive({a}, ~tracked_markets[a].active, now)
      /\ UNCHANGED <<now, bars_by_asset, latest_tick, cooldowns, scan, dispatcher_vars,
                     restarts, fired>>
  BY DEF Switch, detector_vars
<1>2. StoreOK' /\ now \in Nat
  BY <1>1, StoreStep, ClockFacts DEF StoreOK
<1>3. BuffersOK'
  BY <1>1 DEF BuffersOK, BufferOK
<1>4. ScanForm(scan)'
  BY <1>1, ScanKept
<1> QED BY <1>1, <1>2, <1>3, <1>4, Untouched
-----------------------------------------------------------------------------
(* Resolution, scan and dispatch. *)

\* on_market_resolved: a scan that has the market before it keeps its deque.
LEMMA ResolvedStep ==
    ASSUME AlertsInv, NEW a \in Assets, Resolved(a)
    PROVE  AlertsInv'
<1> USE DEF AlertsInv
<1>1. /\ SetMarketActive({a}, FALSE, now)
      /\ bars_by_asset' = Without(bars_by_asset, {a})
      /\ latest_tick' = Without(latest_tick, {a})
      /\ cooldowns' = Without(cooldowns, {a} \X Range(Levels))
      /\ scan' = IF a \in Range(scan.todo) \ DOMAIN scan.orphans /\ a \in DOMAIN bars_by_asset
                   THEN [scan EXCEPT !.orphans = With(scan.orphans, a, bars_by_asset[a])] ELSE scan
      /\ fired' = {x \in fired : x.asset # a}
      /\ UNCHANGED <<now, dispatcher_vars, restarts>>
  BY DEF Resolved, RemoveAsset
<1>2. StoreOK' /\ now \in Nat /\ now' \in Nat /\ now <= now'
  <2>1. now' = now /\ now \in Nat
    BY <1>1, ClockFacts
  <2>2. StoreOK'
    BY <1>1, <2>1, StoreStep
  <2> QED BY <2>1, <2>2
<1>3. /\ DOMAIN bars_by_asset' = DOMAIN bars_by_asset \ {a}
      /\ DOMAIN latest_tick' = DOMAIN bars_by_asset \ {a}
      /\ \A x \in DOMAIN bars_by_asset \ {a} :
           bars_by_asset'[x] = bars_by_asset[x] /\ latest_tick'[x] = latest_tick[x]
  BY <1>1 DEF Without, Restrict, BuffersOK
<1>4. BuffersOK'
  <2>1. IsFiniteSet(DOMAIN bars_by_asset')
    BY <1>3, FS_RemoveElement DEF BuffersOK
  <2> QED BY <1>3, <2>1 DEF BuffersOK, BufferOK
<1>5. CooldownsOK'
  <2>1. /\ DOMAIN cooldowns' = DOMAIN cooldowns \ ({a} \X Range(Levels))
        /\ \A key \in DOMAIN cooldowns' : cooldowns'[key] = cooldowns[key]
    BY <1>1 DEF Without, Restrict
  <2>2. ASSUME NEW x \in fired' PROVE <<x.asset, x.level>> \in DOMAIN cooldowns'
    <3>1. x \in fired /\ x.asset # a
      BY <1>1
    <3>2. <<x.asset, x.level>> \in DOMAIN cooldowns
      BY <3>1 DEF CooldownsOK
    <3> QED BY <2>1, <3>1, <3>2
  <2> QED BY <1>1, <2>1, <2>2 DEF CooldownsOK
<1>6. CooldownKept'
  BY <1>1 DEF CooldownKept
<1>7. CASE ~(a \in Range(scan.todo) \ DOMAIN scan.orphans /\ a \in DOMAIN bars_by_asset)
  <2>1. scan' = scan
    BY <1>1, <1>7
  <2>2. ScanForm(scan)'
    BY <1>3, <1>7, <2>1 DEF ScanForm, Distinct, Range
  <2>3. SilencesOK' /\ EventSilenced' /\ SilencesCaused' /\ AlertCoherent'
    BY <1>1, <1>2, <2>1, SilencesKept DEF AlertCoherent
  <2> QED BY <1>2, <1>4, <1>5, <1>6, <2>2, <2>3
<1>8. CASE a \in Range(scan.todo) \ DOMAIN scan.orphans /\ a \in DOMAIN bars_by_asset
  <2> DEFINE o == With(scan.orphans, a, bars_by_asset[a])
  <2>1. /\ scan \in ScanSet /\ scan.todo \in Seq(Assets) /\ DOMAIN scan.orphans \subseteq Assets
        /\ scan.orphans \in [DOMAIN scan.orphans -> Seq(BarSet)]
        /\ scan.pc \in {"sleeping", "scanning", "dispatching"} /\ scan.level \in 0 .. Len(Levels)
        /\ scan.pending \in Seq(AlertSet) /\ scan.alerts \in Seq(AlertSet)
    BY FieldsOfScan DEF ScanForm
  <2>2. /\ DOMAIN o = DOMAIN scan.orphans \cup {a} /\ o[a] = bars_by_asset[a]
        /\ \A x \in DOMAIN scan.orphans \ {a} : o[x] = scan.orphans[x]
    BY DEF With
  <2>3. o \in [DOMAIN o -> Seq(BarSet)] /\ DOMAIN o \subseteq Assets
    <3>1. bars_by_asset[a] \in Seq(BarSet)
      BY <1>8 DEF BuffersOK, BufferOK
    <3>2. o = [x \in DOMAIN scan.orphans \cup {a} |->
                 IF x = a THEN bars_by_asset[a] ELSE scan.orphans[x]]
      BY DEF With
    <3> QED BY <2>1, <2>2, <3>1, <3>2
  <2>4. scan' = [scan EXCEPT !.orphans = o]
    BY <1>1, <1>8
  <2> HIDE DEF o
  <2>5. scan' = [pc |-> scan.pc, todo |-> scan.todo, level |-> scan.level, orphans |-> o,
                 pending |-> scan.pending, alerts |-> scan.alerts]
    BY <2>1, <2>4 DEF ScanSet
  <2>6. /\ scan'.pc = scan.pc /\ scan'.todo = scan.todo /\ scan'.orphans = o
        /\ scan'.pending = scan.pending /\ scan'.alerts = scan.alerts
    BY <2>5
  <2>7. scan' \in ScanSet
    <3>1. [pc |-> scan.pc, todo |-> scan.todo, level |-> scan.level, orphans |-> o,
           pending |-> scan.pending, alerts |-> scan.alerts] \in ScanSet
      BY <2>1, <2>3, MakeScan
    <3> QED BY <2>5, <3>1
  <2>8. ScanForm(scan)'
    BY <1>3, <1>8, <2>2, <2>6, <2>7 DEF ScanForm, Distinct, Range
  <2>9. SilencesOK' /\ EventSilenced' /\ SilencesCaused'
    BY <1>1, <1>2, <2>6, SilencesKept
  <2>10. AlertCoherent'
    BY <2>2, <2>6 DEF AlertCoherent
  <2> QED BY <1>2, <1>4, <1>5, <1>6, <2>8, <2>9, <2>10
<1> QED BY <1>7, <1>8

\* A scan makes an alert of its k-th market's n-th level and waits for the store.
Creates(s, k, n) ==
    /\ Fires(s, Deques(s), k, n) /\ Passed(s, Deques(s), k)
    /\ cooldowns' = Cooled(<<s.todo[k], Levels[n]>>)
    /\ scan' = AwaitInsert(s, Deques(s), k, n)

LEMMA AlertMade ==
    ASSUME AlertCreated
    PROVE  \E s \in Scanning : \E k \in DOMAIN s.todo, n \in DOMAIN Levels : Creates(s, k, n)
<1>1. PICK s \in Scanning : \E p \in Firing(s, Deques(s)) :
         /\ Passed(s, Deques(s), p[1])
         /\ cooldowns' = Cooled(<<s.todo[p[1]], Levels[p[2]]>>)
         /\ scan' = AwaitInsert(s, Deques(s), p[1], p[2])
  BY DEF AlertCreated, ScanToAlert
<1>2. PICK p \in Firing(s, Deques(s)) :
         /\ Passed(s, Deques(s), p[1])
         /\ cooldowns' = Cooled(<<s.todo[p[1]], Levels[p[2]]>>)
         /\ scan' = AwaitInsert(s, Deques(s), p[1], p[2])
  BY <1>1
<1>3. p[1] \in DOMAIN Deques(s) /\ p[2] \in DOMAIN Levels /\ Fires(s, Deques(s), p[1], p[2])
  BY DEF Firing
<1>4. DOMAIN Deques(s) = DOMAIN s.todo
  BY DEF Deques
<1>5. Creates(s, p[1], p[2])
  BY <1>2, <1>3 DEF Creates
<1> QED BY <1>3, <1>4, <1>5

LEMMA AlertStep ==
    ASSUME AlertsInv, AlertCreated
    PROVE  AlertsInv'
<1> USE DEF AlertsInv
<1>0. now \in Nat /\ now' = now /\ UNCHANGED <<tracked_markets, event_cooldowns, outbox, sent, lost,
                                                    restarts>>
  BY ClockFacts DEF AlertCreated, dispatcher_vars, counters
<1>1. scan.pc # "dispatching" /\ fired' = fired \cup {scan'.pending[1]}
  BY DEF AlertCreated, ScanToAlert
<1>2. PICK s \in Scanning : \E k \in DOMAIN s.todo, n \in DOMAIN Levels : Creates(s, k, n)
  BY AlertMade
<1>3. /\ ScanForm(s) /\ s.pc = "scanning"
      /\ s = scan \/ (s.level = 0 /\ s.alerts = <<>> /\ s.pending = <<>>)
  BY ScanningForm
<1>4. PICK k \in DOMAIN s.todo, n \in DOMAIN Levels : Creates(s, k, n)
  BY <1>2
<1>5. /\ Fires(s, Deques(s), k, n) /\ Passed(s, Deques(s), k)
      /\ cooldowns' = Cooled(<<s.todo[k], Levels[n]>>)
      /\ scan' = AwaitInsert(s, Deques(s), k, n)
  BY <1>4 DEF Creates
<1> DEFINE x == Alert(s.todo[k], Deques(s)[k], Levels[n])
           key == <<s.todo[k], Levels[n]>>
<1>6. /\ x \in AlertSet /\ x.asset = s.todo[k] /\ x.level = Levels[n] /\ x.ts = now
      /\ s.todo[k] \notin DOMAIN s.orphans => x.end = x.current
  BY <1>0, <1>3, <1>5, AlertFacts
<1>7. /\ ScanForm(scan)' /\ scan'.pc = "scanning" /\ scan'.alerts = s.alerts \o s.pending
      /\ scan'.pending = <<x>>
      /\ s.todo[k] \in DOMAIN s.orphans => s.todo[k] \in DOMAIN scan'.orphans
  BY <1>0, <1>3, <1>5, AwaitForm
<1>8. BuffersOK'
  <2>1. k \in 0 .. Len(s.todo)
    BY <1>3, FieldsOfScan DEF ScanForm
  <2> QED BY <1>0, <1>3, <1>5, <2>1, PassedFacts
<1>9. key \in DOMAIN cooldowns => cooldowns[key] <= now
  <2>1. ~CoolingDown(s.todo[k], Levels[n])
    BY <1>5 DEF Fires
  <2>2. key \in DOMAIN cooldowns => cooldowns[key] \in Nat
    BY DEF CooldownsOK
  <2> QED BY <1>0, <2>1, <2>2 DEF CoolingDown
<1> HIDE DEF x
<1>10. fired' = fired \cup {x}
  BY <1>1, <1>7
<1>11. StoreOK'
  BY <1>0 DEF StoreOK, Known
<1>12. AlertCoherent'
  BY <1>6, <1>7 DEF AlertCoherent
<1>13. ASSUME NEW y \in fired, y.asset = x.asset, y.level = x.level
       PROVE  y.ts \in Nat /\ y.ts + CooldownSec <= now
  <2>1. <<y.asset, y.level>> = key
    BY <1>6, <1>13
  <2>2. key \in DOMAIN cooldowns /\ y.ts + CooldownSec <= cooldowns[key] /\ cooldowns[key] \in Nat
    BY <2>1 DEF CooldownsOK
  <2>3. y.ts \in Nat
    BY DEF CooldownsOK, AlertSet
  <2> QED BY <1>0, <1>9, <2>2, <2>3, ClockFacts
<1>14. CooldownKept'
  <2> SUFFICES ASSUME NEW y \in fired', NEW z \in fired', y.asset = z.asset, y.level = z.level, y # z
               PROVE  AbsDiff(y.ts, z.ts) >= CooldownSec
    BY DEF CooldownKept
  <2>1. CASE y \in fired /\ z \in fired
    BY <2>1 DEF CooldownKept
  <2>2. CASE y \in fired /\ z = x
    BY <1>0, <1>6, <1>13, <2>2, ClockFacts DEF AbsDiff
  <2>3. CASE z \in fired /\ y = x
    BY <1>0, <1>6, <1>13, <2>3, ClockFacts DEF AbsDiff
  <2> QED BY <1>10, <2>1, <2>2, <2>3
<1>15. CooldownsOK'
  <2>1. /\ DOMAIN cooldowns' = DOMAIN cooldowns \cup {key} /\ cooldowns'[key] = now + CooldownSec
        /\ \A q \in DOMAIN cooldowns \ {key} : cooldowns'[q] = cooldowns[q]
    BY <1>5 DEF Cooled, With
  <2>2. now + CooldownSec \in Nat
    BY <1>0, ClockFacts
  <2>3. \A q \in DOMAIN cooldowns' : cooldowns'[q] \in Nat
    BY <2>1, <2>2 DEF CooldownsOK
  <2>4. ASSUME NEW y \in fired'
        PROVE  /\ y \in AlertSet /\ y.ts <= now' /\ <<y.asset, y.level>> \in DOMAIN cooldowns'
               /\ y.ts + CooldownSec <= cooldowns'[<<y.asset, y.level>>]
    <3>1. CASE y = x
      BY <1>0, <1>6, <2>1, <2>2, <3>1, ClockFacts
    <3>2. CASE y \in fired /\ <<y.asset, y.level>> # key
      BY <1>0, <2>1, <3>2 DEF CooldownsOK
    <3>3. CASE y \in fired /\ <<y.asset, y.level>> = key
      <4>1. y \in AlertSet /\ y.ts \in Nat /\ y.ts <= now
        BY <3>3 DEF CooldownsOK, AlertSet
      <4>2. y.ts + CooldownSec <= now + CooldownSec
        BY <1>0, <4>1, ClockFacts
      <4> QED BY <1>0, <2>1, <3>3, <4>1, <4>2
    <3> QED BY <1>10, <3>1, <3>2, <3>3
  <2> QED BY <2>3, <2>4 DEF CooldownsOK
<1>16. ASSUME NEW i \in DOMAIN Collected'
       PROVE  Collected'[i].ts = now \/ \E j \in DOMAIN Collected : Collected'[i] = Collected[j]
  <2> DEFINE c == s.alerts \o s.pending
  <2>1. c \in Seq(AlertSet) /\ (c = Collected \/ c = <<>>)
    <3>1. c \in Seq(AlertSet)
      BY <1>3, CollectedFacts
    <3>2. CASE s = scan
      BY <3>1, <3>2 DEF Collected
    <3>3. CASE s.alerts = <<>> /\ s.pending = <<>>
      BY <3>1, <3>3
    <3> QED BY <1>3, <3>2, <3>3
  <2>2. Collected' = c \o <<x>>
    BY <1>7 DEF Collected
  <2> HIDE DEF c
  <2>3. CASE i \in DOMAIN c
    BY <1>6, <2>1, <2>2, <2>3
  <2>4. CASE i \notin DOMAIN c
    <3>1. Collected'[i] = x
      BY <1>6, <1>16, <2>1, <2>2, <2>4
    <3> QED BY <1>6, <3>1
  <2> QED BY <2>3, <2>4
<1>17. SilencesOK'
  <2>1. Selected' = Selected /\ outbox = {}
    BY <1>0, <1>1 DEF Selected, SilencesOK
  <2>2. ASSUME NEW y \in Selected PROVE Covered(y)'
    <3>1. Covered(y) /\ y.alert.ts <= now
      BY DEF SilencesOK, Covered
    <3>2. ASSUME NEW i \in DOMAIN Collected' PROVE y.alert.ts <= Collected'[i].ts
      BY <1>16, <3>1 DEF Covered
    <3> QED BY <1>0, <3>1, <3>2 DEF Covered
  <2>3. ASSUME NEW i \in DOMAIN Collected' PROVE Collected'[i].ts <= now'
    BY <1>0, <1>16 DEF SilencesOK
  <2>4. outbox' = {} /\ scan'.pc # "dispatching"
    BY <1>0, <1>7, <2>1
  <2> QED BY <1>0, <2>1, <2>2, <2>3, <2>4 DEF SilencesOK
<1>18. EventSilenced' /\ SilencesCaused'
  BY <1>0 DEF EventSilenced, SilencesCaused, Selected
<1> QED BY <1>7, <1>8, <1>11, <1>12, <1>14, <1>15, <1>17, <1>18

\* The scan after its end.
LEMMA RestedForm ==
    ASSUME NEW p \in {"sleeping", "dispatching"}, scan' = [Resting EXCEPT !.pc = p]
    PROVE  ScanForm(scan)' /\ scan'.pc = p /\ AlertCoherent' /\ Collected' = <<>>
<1>1. /\ scan' \in ScanSet /\ scan'.pc = p /\ scan'.alerts = <<>> /\ scan'.pending = <<>>
      /\ DOMAIN scan'.orphans = {} /\ Distinct(scan'.todo) /\ Range(scan'.todo) = {}
  BY RestingForm
<1>2. ScanForm(scan)'
  BY <1>1 DEF ScanForm, Distinct, Range
<1> QED BY <1>1, <1>2 DEF AlertCoherent, Collected

\* dispatch_many: what it selects follows on the silences of all that was sent.
LEMMA DispatchStep ==
    ASSUME AlertsInv, outbox = {}, now' = now, restarts' = restarts,
           DispatchMany(Collected, now), Collected' = <<>>, outbox' # {} <=> scan'.pc = "dispatching"
    PROVE  SilencesOK' /\ EventSilenced' /\ SilencesCaused'
<1> USE DEF AlertsInv
<1> DEFINE S == SelectForDispatch(Collected)
           time == TimeOf(Collected)
           new == {[alert |-> x, at |-> now] : x \in S}
<1>1. event_cooldowns' = Silence(S)
  BY DEF DispatchMany
<1>2. now \in Nat /\ DedupSec \in Nat /\ restarts \in Nat
  BY ClockFacts DEF SilencesOK
<1>3. /\ Collected \in Seq(AlertSet)
      /\ \A i \in DOMAIN Collected : /\ Collected[i] \in AlertSet /\ Collected[i].ts \in Nat
                                     /\ Collected[i].ts <= now
  BY CollectedFacts DEF Collected, SilencesOK
<1>4. /\ \A x \in S : /\ \E i \in Eligible(Collected) : x = Collected[i]
                      /\ ~Silenced(EventOf[x.asset], time)
      /\ \A x, y \in S : EventOf[x.asset] = EventOf[y.asset] => x = y
      /\ \A i \in Eligible(Collected) : time \in Nat /\ time <= now
  BY <1>2, <1>3, SelectionFacts
<1>5. /\ DOMAIN Silence(S) = DOMAIN event_cooldowns \cup {EventOf[x.asset] : x \in S}
      /\ \A x \in S : Silence(S)[EventOf[x.asset]] = x.ts + DedupSec
      /\ \A e \in DOMAIN event_cooldowns :
           (\A x \in S : EventOf[x.asset] # e) => Silence(S)[e] = event_cooldowns[e]
  BY <1>4, SilenceFacts
<1>6. Selected' = new \cup Selected /\ DOMAIN Collected' = {}
  <2> HIDE DEF S
  <2>1. /\ outbox' = {[alert |-> x, at |-> now] : x \in {y \in S : y.level \in SevereLevels}}
        /\ lost' = lost \cup {[alert |-> x, at |-> now] : x \in {y \in S : y.level \notin SevereLevels}}
        /\ sent' = sent
    BY DEF DispatchMany, S
  <2> QED BY <2>1 DEF Selected
<1> HIDE DEF S, time
<1>7. ASSUME NEW x \in S
      PROVE  /\ x \in AlertSet /\ x.ts \in Nat /\ x.ts <= now /\ time \in Nat /\ time <= now
             /\ \E i \in DOMAIN Collected : x = Collected[i]
  <2>1. PICK i \in Eligible(Collected) : x = Collected[i]
    BY <1>4
  <2>2. i \in DOMAIN Collected /\ IsAllowed(x)
    BY <2>1 DEF Eligible
  <2> QED BY <1>3, <1>4, <2>1, <2>2
<1>8. ASSUME NEW y \in new PROVE y.alert \in S /\ y.at = now /\ y = [alert |-> y.alert, at |-> now]
  OBVIOUS
<1>9. ASSUME NEW x \in S PROVE [alert |-> x, at |-> now] \in new
  OBVIOUS
<1> HIDE DEF new
<1>10. ASSUME NEW y \in Selected
      PROVE  /\ Covered(y) /\ y.alert.ts \in Nat /\ y.at \in Nat
             /\ event_cooldowns[EventOf[y.alert.asset]] \in Nat
  <2>1. Covered(y)
    BY DEF SilencesOK
  <2>2. y.alert.ts \in Nat /\ EventOf[y.alert.asset] \in DOMAIN event_cooldowns
    BY <2>1 DEF Covered, AlertSet
  <2>3. PICK z \in Selected : z.alert.ts + DedupSec = event_cooldowns[EventOf[y.alert.asset]]
    BY <2>2 DEF SilencesCaused
  <2>4. z.alert.ts \in Nat
    BY DEF SilencesOK, Covered, AlertSet
  <2> QED BY <1>2, <2>1, <2>2, <2>3, <2>4 DEF Covered
<1>11. ASSUME NEW y \in Selected' PROVE Covered(y)'
  <2>1. CASE y \in new
    <3>1. /\ y.alert \in S /\ y.at = now /\ y.alert \in AlertSet /\ y.alert.ts \in Nat
          /\ y.alert.ts <= now
      BY <1>7, <1>8, <2>1
    <3>2. /\ EventOf[y.alert.asset] \in DOMAIN event_cooldowns'
          /\ event_cooldowns'[EventOf[y.alert.asset]] = y.alert.ts + DedupSec
      BY <1>1, <1>5, <3>1
    <3> QED BY <1>2, <1>6, <3>1, <3>2 DEF Covered
  <2>2. CASE y \in Selected
    <3> DEFINE e == EventOf[y.alert.asset]
    <3>1. e \in DOMAIN event_cooldowns /\ e \in DOMAIN event_cooldowns'
      BY <1>1, <1>5, <1>10, <2>2 DEF Covered
    <3>2. y.alert.ts + DedupSec <= event_cooldowns'[e]
      <4>1. CASE \E x \in S : EventOf[x.asset] = e
        <5>1. PICK x \in S : EventOf[x.asset] = e
          BY <4>1
        <5>2. event_cooldowns'[e] = x.ts + DedupSec
          BY <1>1, <1>5, <5>1
        <5>3. y.alert.ts <= x.ts /\ x.ts \in Nat /\ y.alert.ts \in Nat
          BY <1>7, <1>10, <2>2 DEF Covered
        <5> QED BY <1>2, <5>2, <5>3
      <4>2. CASE ~\E x \in S : EventOf[x.asset] = e
        <5>1. event_cooldowns'[e] = event_cooldowns[e]
          BY <1>1, <1>5, <3>1, <4>2
        <5> QED BY <1>10, <2>2, <5>1 DEF Covered
      <4> QED BY <4>1, <4>2
    <3>3. y.alert \in AlertSet /\ y.at \in Nat /\ y.at <= now /\ y.alert.ts <= now
      BY <1>10, <2>2 DEF Covered
    <3> QED BY <1>6, <3>1, <3>2, <3>3 DEF Covered
  <2> QED BY <1>6, <2>1, <2>2
<1>12. SilencesOK'
  BY <1>2, <1>6, <1>11 DEF SilencesOK
<1>13. ASSUME NEW x \in Selected, NEW y \in new, EventOf[x.alert.asset] = EventOf[y.alert.asset]
       PROVE  y.at >= x.alert.ts + DedupSec
  <2> DEFINE e == EventOf[x.alert.asset]
  <2>1. y.alert \in S /\ y.at = now /\ time \in Nat /\ time <= now
    BY <1>7, <1>8
  <2>2. ~Silenced(e, time)
    BY <1>4, <1>13, <2>1
  <2>3. /\ e \in DOMAIN event_cooldowns /\ event_cooldowns[e] \in Nat /\ x.alert.ts \in Nat
        /\ x.alert.ts + DedupSec <= event_cooldowns[e]
    BY <1>10 DEF Covered
  <2>4. event_cooldowns[e] <= time
    BY <2>1, <2>2, <2>3 DEF Silenced
  <2> QED BY <1>2, <2>1, <2>3, <2>4
<1>14. EventSilenced'
  <2> SUFFICES ASSUME NEW x \in Selected', NEW y \in Selected', x # y,
                      EventOf[x.alert.asset] = EventOf[y.alert.asset]
               PROVE  y.at >= x.alert.ts + DedupSec \/ x.at >= y.alert.ts + DedupSec
    BY DEF EventSilenced
  <2>1. CASE x \in Selected /\ y \in Selected
    BY <1>10, <2>1 DEF EventSilenced
  <2>2. CASE x \in new /\ y \in new
    <3>1. x.alert = y.alert
      BY <1>4, <1>8, <2>2
    <3> QED BY <1>8, <2>2, <3>1
  <2>3. CASE x \in Selected /\ y \in new
    BY <1>13, <2>3
  <2>4. CASE x \in new /\ y \in Selected
    BY <1>13, <2>4
  <2> QED BY <1>6, <2>1, <2>2, <2>3, <2>4
<1>15. SilencesCaused'
  <2> SUFFICES ASSUME NEW e \in DOMAIN event_cooldowns'
               PROVE  \E x \in Selected' : /\ EventOf[x.alert.asset] = e
                                           /\ x.alert.ts + DedupSec = event_cooldowns'[e]
    BY DEF SilencesCaused
  <2>1. CASE \E x \in S : EventOf[x.asset] = e
    <3>1. PICK x \in S : EventOf[x.asset] = e
      BY <2>1
    <3>2. event_cooldowns'[e] = x.ts + DedupSec
      BY <1>1, <1>5, <3>1
    <3>3. PICK y \in new : y.alert = x
      BY <1>9
    <3> QED BY <1>6, <3>1, <3>2, <3>3
  <2>2. CASE ~\E x \in S : EventOf[x.asset] = e
    <3>1. e \in DOMAIN event_cooldowns /\ event_cooldowns'[e] = event_cooldowns[e]
      BY <1>1, <1>5, <2>2
    <3>2. PICK x \in Selected : /\ EventOf[x.alert.asset] = e
                                /\ x.alert.ts + DedupSec = event_cooldowns[e]
      BY <3>1 DEF SilencesCaused
    <3>3. x \in Selected'
      BY <1>6
    <3> QED BY <3>1, <3>2, <3>3
  <2> QED BY <2>1, <2>2
<1> QED BY <1>12, <1>14, <1>15

\* The scan is over.
LEMMA EndStep ==
    ASSUME AlertsInv, ScanEnds
    PROVE  AlertsInv'
<1> USE DEF AlertsInv
<1>1. /\ scan.pc # "dispatching" /\ DispatchMany(Collected, now)
      /\ scan' = IF outbox' = {} THEN Resting ELSE [Resting EXCEPT !.pc = "dispatching"]
      /\ UNCHANGED <<tracked_markets, now, cooldowns, restarts, fired>>
  BY DEF ScanEnds, ScanToEnd, Collected, counters
<1>2. PICK s \in Scanning : Passed(s, Deques(s), Len(s.todo))
  BY DEF ScanEnds, ScanToEnd
<1>3. ScanForm(s) /\ now \in Nat
  BY ScanningForm, ClockFacts
<1>4. BuffersOK'
  <2>1. Len(s.todo) \in 0 .. Len(s.todo)
    BY <1>3, FieldsOfScan DEF ScanForm
  <2> QED BY <1>2, <1>3, <2>1, PassedFacts
<1>5. PICK p \in {"sleeping", "dispatching"} :
         scan' = [Resting EXCEPT !.pc = p] /\ (outbox' # {} <=> p = "dispatching")
  BY <1>1, RestingForm
<1>6. ScanForm(scan)' /\ scan'.pc = p /\ AlertCoherent' /\ Collected' = <<>>
  BY <1>5, RestedForm
<1>7. outbox = {}
  BY <1>1 DEF SilencesOK
<1>8. SilencesOK' /\ EventSilenced' /\ SilencesCaused'
  BY <1>1, <1>5, <1>6, <1>7, DispatchStep
<1>9. StoreOK' /\ CooldownsOK' /\ CooldownKept'
  BY <1>1 DEF StoreOK, Known, CooldownsOK, CooldownKept
<1> QED BY <1>4, <1>6, <1>8, <1>9

\* A notifier call returns.
LEMMA NotifyStep ==
    ASSUME AlertsInv, Notify
    PROVE  AlertsInv'
<1> USE DEF AlertsInv
<1>1. /\ scan' = IF outbox' = {} THEN Resting ELSE scan
      /\ UNCHANGED <<tracked_markets, now, bars_by_asset, latest_tick, cooldowns, restarts, fired,
                     event_cooldowns>>
      /\ Selected' = Selected /\ outbox # {}
  BY DEF Notify, Deliver, counters, Selected
<1>2. scan.pc = "dispatching"
  BY <1>1 DEF SilencesOK
<1>3. StoreOK' /\ BuffersOK' /\ CooldownsOK' /\ CooldownKept'
  BY <1>1 DEF StoreOK, Known, BuffersOK, BufferOK, CooldownsOK, CooldownKept
<1>4. EventSilenced' /\ SilencesCaused'
  BY <1>1 DEF EventSilenced, SilencesCaused
<1>5. CASE outbox' # {}
  <2>1. scan' = scan
    BY <1>1, <1>5
  <2>2. ScanForm(scan)' /\ AlertCoherent'
    BY <1>1, <2>1, ScanKept DEF AlertCoherent
  <2>3. Collected' = Collected
    BY <2>1 DEF Collected
  <2>4. SilencesOK'
    BY <1>1, <1>2, <1>5, <2>1, <2>3 DEF SilencesOK, Covered
  <2> QED BY <1>3, <1>4, <2>2, <2>4
<1>6. CASE outbox' = {}
  <2>1. scan' = [Resting EXCEPT !.pc = "sleeping"]
    BY <1>1, <1>6, RestingForm
  <2>2. ScanForm(scan)' /\ scan'.pc = "sleeping" /\ AlertCoherent' /\ Collected' = <<>>
    BY <2>1, RestedForm
  <2>3. DOMAIN Collected' = {}
    BY <2>2
  <2>4. SilencesOK'
    BY <1>1, <1>6, <2>2, <2>3 DEF SilencesOK, Covered
  <2> QED BY <1>3, <1>4, <2>2, <2>4
<1> QED BY <1>5, <1>6

\* A process that begins: nothing is buffered, silent or under way.
LEMMA FreshProcess ==
    ASSUME StoreOK, bars_by_asset = <<>>, latest_tick = <<>>, cooldowns = <<>>, scan = Resting,
           event_cooldowns = <<>>, outbox = {}, sent = {}, lost = {}, fired = {},
           restarts \in Nat
    PROVE  AlertsInv
<1>1. DOMAIN <<>> = {} /\ IsFiniteSet({})
  BY FS_EmptySet
<1>2. BuffersOK
  BY <1>1 DEF BuffersOK
<1>3. /\ ScanForm(scan) /\ scan.pc = "sleeping" /\ scan.alerts = <<>> /\ scan.pending = <<>>
  BY RestingForm
<1>4. Collected = <<>>
  BY <1>3 DEF Collected
<1>5. SilencesOK /\ EventSilenced /\ SilencesCaused
  BY <1>1, <1>3, <1>4 DEF SilencesOK, EventSilenced, SilencesCaused, Selected
<1>6. CooldownsOK /\ CooldownKept /\ AlertCoherent
  BY <1>1, <1>3 DEF CooldownsOK, CooldownKept, AlertCoherent
<1> QED BY <1>2, <1>3, <1>5, <1>6 DEF AlertsInv

\* The program begins.
LEMMA InitAlerts ==
    ASSUME Init
    PROVE  AlertsInv
<1>1. tracked_markets = [a \in Assets |-> Row(TRUE, StartTime)] /\ now = StartTime
  BY DEF Init
<1>2. Known = Assets /\ \A a \in Assets : tracked_markets[a] = Row(TRUE, StartTime)
  BY <1>1 DEF Known
<1>3. Row(TRUE, StartTime).active = TRUE
  BY DEF Row
<1>4. now \in StartTime .. MaxClock
  BY <1>1, ClockAssumption
<1>5. StoreOK
  BY <1>2, <1>3, <1>4, Zenon DEF StoreOK
<1>6. restarts \in Nat
  BY DEF Init
<1> QED BY <1>5, <1>6, FreshProcess DEF Init, DetectorInit, DispatcherInit

\* The process dies; the store stays.
LEMMA RestartStep ==
    ASSUME AlertsInv, Restart
    PROVE  AlertsInv'
<1>1. /\ bars_by_asset' = <<>> /\ latest_tick' = <<>> /\ cooldowns' = <<>> /\ scan' = Resting
      /\ event_cooldowns' = <<>> /\ outbox' = {} /\ sent' = {} /\ lost' = {} /\ fired' = {}
      /\ restarts' = restarts + 1 /\ UNCHANGED <<tracked_markets, now>>
  BY DEF Restart
<1>2. StoreOK' /\ restarts' \in Nat
  BY <1>1 DEF AlertsInv, StoreOK, Known, SilencesOK
<1>3. DOMAIN <<>> = {} /\ IsFiniteSet({})
  BY FS_EmptySet
<1>4. BuffersOK'
  BY <1>1, <1>3 DEF BuffersOK
<1>5. scan' = [Resting EXCEPT !.pc = "sleeping"]
  BY <1>1, RestingForm
<1>6. ScanForm(scan)' /\ scan'.pc = "sleeping" /\ AlertCoherent' /\ Collected' = <<>>
  BY <1>5, RestedForm
<1>7. SilencesOK' /\ EventSilenced' /\ SilencesCaused'
  BY <1>1, <1>2, <1>3, <1>6 DEF SilencesOK, EventSilenced, SilencesCaused, Selected
<1>8. CooldownsOK' /\ CooldownKept'
  BY <1>1, <1>3 DEF CooldownsOK, CooldownKept
<1> QED BY <1>2, <1>4, <1>6, <1>7, <1>8 DEF AlertsInv

\* Buffers, scan, cooldowns and silences agree in every state.
THEOREM AlertsInvariant == Spec => []AlertsInv
<1>1. ASSUME AlertsInv, [Next]_vars PROVE AlertsInv'
  <2>1. CASE Tick
    BY <1>1, <2>1, TickStep
  <2>2. ASSUME NEW a \in Assets, NEW p \in Prices, NEW d \in Spreads, Ingest(a, p, d)
        PROVE  AlertsInv'
    BY <1>1, <2>2, IngestStep
  <2>3. ASSUME NEW a \in Assets, Switch(a) \/ Resolved(a) PROVE AlertsInv'
    BY <1>1, <2>3, SwitchStep, ResolvedStep
  <2>4. CASE AlertCreated
    BY <1>1, <2>4, AlertStep
  <2>5. CASE ScanEnds
    BY <1>1, <2>5, EndStep
  <2>6. CASE Notify
    BY <1>1, <2>6, NotifyStep
  <2>7. CASE Restart
    BY <1>1, <2>7, RestartStep
  <2>8. CASE UNCHANGED vars
    <3>1. UNCHANGED <<tracked_markets, now, bars_by_asset, latest_tick, cooldowns, scan,
                      dispatcher_vars, restarts, fired>>
      BY <2>8 DEF vars, detector_vars, counters
    <3>2. StoreOK' /\ BuffersOK' /\ now \in Nat
      BY <1>1, <3>1, ClockFacts DEF AlertsInv, StoreOK, Known, BuffersOK, BufferOK
    <3>3. ScanForm(scan)'
      BY <1>1, <3>1, ScanKept DEF AlertsInv
    <3>4. /\ CooldownsOK' /\ SilencesOK' /\ AlertCoherent' /\ CooldownKept'
          /\ EventSilenced' /\ SilencesCaused'
      BY <1>1, <3>1, <3>2, Untouched
    <3> QED BY <3>2, <3>3, <3>4 DEF AlertsInv
  <2> QED BY <1>1, <2>1, <2>2, <2>3, <2>4, <2>5, <2>6, <2>7, <2>8 DEF Next
<1> QED BY <1>1, InitAlerts, PTL DEF Spec
-----------------------------------------------------------------------------
(* The theorems. *)

\* Bars and latest ticks are of the same known markets, and the dispatcher has
\* alerts in hand exactly while scan_loop waits for it.
THEOREM AlertsTypeCorrect == Spec => []TypeOK
<1>1. ASSUME AlertsInv PROVE TypeOK
  <2>1. /\ scan.pc \in {"sleeping", "scanning", "dispatching"} /\ scan.level \in 0 .. Len(Levels)
        /\ DOMAIN scan.orphans \subseteq Range(scan.todo)
    BY <1>1, FieldsOfScan DEF AlertsInv, ScanForm
  <2> QED BY <1>1, <2>1 DEF AlertsInv, StoreOK, BuffersOK, BufferOK, SilencesOK, TypeOK
<1> QED BY <1>1, AlertsInvariant, PTL

\* AlertCoherent: _maybe_create_alert never joins bars of one moment with the
\* latest tick of another, whatever was ingested while the scan was waiting.
THEOREM AlertsCoherent == Spec => []AlertCoherent
<1>1. AlertsInv => AlertCoherent
  BY DEF AlertsInv
<1> QED BY <1>1, AlertsInvariant, PTL

\* CooldownKept: two alerts of a market and level are cooldown_sec apart, in one
\* scan or in two.
THEOREM CooldownsKept == Spec => []CooldownKept
<1>1. AlertsInv => CooldownKept
  BY DEF AlertsInv
<1> QED BY <1>1, AlertsInvariant, PTL

\* EventSilenced: of two alerts of an event one was selected no earlier than
\* event_dedup_sec after the other was made.
THEOREM EventsSilenced == Spec => []EventSilenced
<1>1. AlertsInv => EventSilenced
  BY DEF AlertsInv
<1> QED BY <1>1, AlertsInvariant, PTL

\* A step that neither makes an alert nor ends a scan leaves the alert being
\* stored as it is, or ends a dispatch or the process.
LEMMA ScanMoves ==
    ASSUME AlertsInv, [Next]_vars, ~AlertCreated, ~ScanEnds
    PROVE  \/ scan'.pc = scan.pc /\ scan'.pending = scan.pending
           \/ scan'.pending = <<>> /\ (scan.pc # "scanning" \/ restarts' # restarts)
<1>1. CASE scan' = scan
  BY <1>1
<1>2. ASSUME NEW a \in Assets, Resolved(a)
      PROVE  scan'.pc = scan.pc /\ scan'.pending = scan.pending
  <2>1. scan \in ScanSet
    BY DEF AlertsInv, ScanForm
  <2>2. scan' = scan \/ \E o : scan' = [scan EXCEPT !.orphans = o]
    BY <1>2 DEF Resolved, RemoveAsset
  <2> QED BY <2>1, <2>2 DEF ScanSet
<1>3. CASE Notify
  <2>1. outbox # {} /\ (scan' = scan \/ scan' = Resting)
    BY <1>3 DEF Notify, Deliver
  <2>2. scan.pc = "dispatching"
    BY <2>1 DEF AlertsInv, SilencesOK
  <2> QED BY <2>1, <2>2, RestingForm
<1>4. CASE Restart
  <2>1. restarts \in Nat
    BY DEF AlertsInv, SilencesOK
  <2> QED BY <1>4, <2>1, RestingForm DEF Restart
<1>5. CASE UNCHANGED vars
  BY <1>1, <1>5 DEF vars, detector_vars
<1>6. CASE Tick
  BY <1>1, <1>6 DEF Tick, detector_vars
<1>7. ASSUME NEW a \in Assets, Switch(a) PROVE scan' = scan
  BY <1>7 DEF Switch, detector_vars
<1>8. ASSUME NEW a \in Assets, NEW p \in Prices, NEW d \in Spreads, Ingest(a, p, d)
      PROVE  scan' = scan
  BY <1>8 DEF Ingest, IngestTick
<1> QED BY <1>1, <1>2, <1>3, <1>4, <1>5, <1>6, <1>7, <1>8 DEF Next

\* _should_skip returns True for a market that is not active: it has a quote, or
\* no time of subscription to be in the warm-up of.
LEMMA InactiveSkipped ==
    ASSUME StoreOK, NEW a \in Assets \ ActiveAssetIds, NEW bars
    PROVE  ShouldSkip(a, bars)
<1>1. a \in Known /\ ~tracked_markets[a].active /\ tracked_markets[a].subscribed_at = 0
  BY DEF StoreOK, ActiveAssetIds
<1>2. now \in Nat /\ WarmupSec \in Nat /\ WarmupSec < now
  BY ClockFacts DEF StoreOK
<1>3. ~(now - tracked_markets[a].subscribed_at <= WarmupSec)
  BY <1>1, <1>2
<1> QED BY <1>1, <1>3 DEF ShouldSkip

\* InactiveSilent: _should_skip stops a scan at a market that the gatekeeper
\* dropped or that was resolved, unless the scan was already at its levels.
THEOREM InactiveMarketsSilent == Spec => InactiveSilent
<1> DEFINE A == \A a \in Assets \ ActiveAssetIds :
                  scan'.pending # scan.pending /\ scan'.pending # <<>> /\ scan'.pending[1].asset = a =>
                      scan.level > 0 /\ Head(scan.todo) = a
<1>1. ASSUME AlertsInv, [Next]_vars PROVE [A]_vars
  <2> SUFFICES ASSUME NEW a \in Assets \ ActiveAssetIds, scan'.pending # scan.pending,
                      scan'.pending # <<>>, scan'.pending[1].asset = a
               PROVE  scan.level > 0 /\ Head(scan.todo) = a
    OBVIOUS
  <2> USE <1>1 DEF AlertsInv
  <2>1. CASE ScanEnds
    <3>1. scan' = Resting \/ scan' = [Resting EXCEPT !.pc = "dispatching"]
      BY <2>1 DEF ScanEnds
    <3>2. scan'.pending = <<>>
      BY <3>1, RestingForm
    <3> QED BY <3>2
  <2>2. CASE AlertCreated
    <3>1. PICK s \in Scanning : \E k \in DOMAIN s.todo, n \in DOMAIN Levels : Creates(s, k, n)
      BY <2>2, AlertMade
    <3>2. PICK k \in DOMAIN s.todo, n \in DOMAIN Levels : Creates(s, k, n)
      BY <3>1
    <3>3. ScanForm(s) /\ s.pc = "scanning" /\ (s = scan \/ s.level = 0)
      BY ScanningForm
    <3>4. /\ Fires(s, Deques(s), k, n) /\ Passed(s, Deques(s), k)
          /\ scan' = AwaitInsert(s, Deques(s), k, n) /\ now \in Nat
      BY <3>2, ClockFacts DEF Creates
    <3>5. scan'.pending = <<Alert(s.todo[k], Deques(s)[k], Levels[n])>>
      BY <3>3, <3>4, AwaitForm
    <3>6. Alert(s.todo[k], Deques(s)[k], Levels[n]).asset = s.todo[k]
      BY DEF Alert
    <3>7. s.todo[k] = a
      BY <3>5, <3>6
    <3>8. k = 1 /\ s.level > 0
      BY <3>4, <3>7, InactiveSkipped DEF Fires, Entered
    <3> QED BY <3>3, <3>7, <3>8
  <2>3. CASE ~AlertCreated /\ ~ScanEnds
    BY <2>3, ScanMoves
  <2> QED BY <2>1, <2>2, <2>3
<1> QED BY <1>1, AlertsInvariant, PTL DEF Spec, InactiveSilent

\* EveryAlertHandedOn: select_for_dispatch drops an allowed alert only for one of
\* its event that goes to the notifiers now, or that was selected less than
\* event_dedup_sec before it, although the silence is looked up at the time of
\* the newest alert, and whichever notifiers failed before.
THEOREM AlertsHandedOn == Spec => EveryAlertHandedOn
<1> DEFINE A == scan.pc = "scanning" /\ scan'.pc # "scanning" /\ restarts' = restarts =>
                  LET alerts == scan.alerts \o scan.pending
                  IN \A i \in Eligible(alerts) : \E y \in Selected' :
                       /\ EventOf[y.alert.asset] = EventOf[alerts[i].asset]
                       /\ \/ y.at = now /\ (AllowedLevels \subseteq SevereLevels => y \in outbox')
                          \/ y.alert.ts + DedupSec > alerts[i].ts
<1>1. ASSUME AlertsInv, [Next]_vars PROVE [A]_vars
  <2> SUFFICES ASSUME scan.pc = "scanning", scan'.pc # "scanning", restarts' = restarts,
                      NEW i \in Eligible(Collected)
               PROVE  \E y \in Selected' :
                        /\ EventOf[y.alert.asset] = EventOf[Collected[i].asset]
                        /\ \/ y.at = now /\ (AllowedLevels \subseteq SevereLevels => y \in outbox')
                           \/ y.alert.ts + DedupSec > Collected[i].ts
    BY DEF Collected
  <2> USE <1>1 DEF AlertsInv
  <2> DEFINE S == SelectForDispatch(Collected)
             time == TimeOf(Collected)
             e == EventOf[Collected[i].asset]
  <2>1. ScanEnds
    <3>1. CASE AlertCreated
      <4>1. PICK s \in Scanning : \E k \in DOMAIN s.todo, n \in DOMAIN Levels : Creates(s, k, n)
        BY <3>1, AlertMade
      <4>2. PICK k \in DOMAIN s.todo, n \in DOMAIN Levels : Creates(s, k, n)
        BY <4>1
      <4>3. ScanForm(s) /\ s.pc = "scanning" /\ now \in Nat
        BY ScanningForm, ClockFacts
      <4> QED BY <4>2, <4>3, AwaitForm DEF Creates
    <3> QED BY <3>1, ScanMoves
  <2>2. DispatchMany(Collected, now)
    BY <2>1 DEF ScanEnds, Collected
  <2>3. /\ sent' = sent /\ lost \subseteq lost'
        /\ lost' = lost \cup {[alert |-> x, at |-> now] : x \in {y \in S : y.level \notin SevereLevels}}
        /\ outbox' = {[alert |-> x, at |-> now] : x \in {y \in S : y.level \in SevereLevels}}
    BY <2>2 DEF DispatchMany
  <2>4. /\ Collected \in Seq(AlertSet) /\ now \in Nat /\ DedupSec \in Nat
        /\ \A j \in DOMAIN Collected : Collected[j].ts \in Nat /\ Collected[j].ts <= now
    BY CollectedFacts, ClockFacts DEF Collected, SilencesOK
  <2>5. /\ \A x \in S : \E j \in Eligible(Collected) : x = Collected[j]
        /\ time \in Nat /\ Collected[i].ts <= time
        /\ Silenced(e, time) \/ \E y \in S : EventOf[y.asset] = e
    BY <2>4, SelectionFacts
  <2>6. Collected[i].ts \in Nat
    BY <2>4 DEF Eligible
  <2> HIDE DEF S, time, e
  <2>7. CASE \E x \in S : EventOf[x.asset] = e
    <3>1. PICK x \in S : EventOf[x.asset] = e
      BY <2>7
    <3>2. x.level \in AllowedLevels
      BY <2>5 DEF Eligible, IsAllowed
    <3> DEFINE y == [alert |-> x, at |-> now]
    <3>3. y.alert = x /\ y.at = now
      OBVIOUS
    <3>4. (x.level \in SevereLevels => y \in outbox') /\ (x.level \notin SevereLevels => y \in lost')
      BY <2>3
    <3> HIDE DEF y
    <3>5. y \in Selected' /\ (AllowedLevels \subseteq SevereLevels => y \in outbox')
      BY <3>2, <3>4 DEF Selected
    <3> QED BY <3>1, <3>3, <3>5 DEF e
  <2>8. CASE Silenced(e, time)
    <3>1. e \in DOMAIN event_cooldowns /\ event_cooldowns[e] > time
      BY <2>8 DEF Silenced
    <3>2. PICK y \in Selected : EventOf[y.alert.asset] = e /\ y.alert.ts + DedupSec = event_cooldowns[e]
      BY <3>1 DEF SilencesCaused
    <3>3. y.alert.ts \in Nat
      BY DEF SilencesOK, Covered, AlertSet
    <3>4. y.alert.ts + DedupSec > Collected[i].ts
      BY <2>4, <2>5, <2>6, <3>1, <3>2, <3>3
    <3>5. y \in Selected'
      BY <2>3 DEF SilencesOK, Selected
    <3> QED BY <3>2, <3>4, <3>5 DEF e
  <2> QED BY <2>5, <2>7, <2>8
<1> QED BY <1>1, AlertsInvariant, PTL DEF Spec, EveryAlertHandedOn
=============================================================================
