----------------------------- MODULE FeedProofs -----------------------------
(***************************************************************************)
(* Proofs about Feed for any markets, API answers, cap and queue bound,    *)
(* with lost connections, failing store calls and restarts at any step.    *)
(***************************************************************************)
EXTENDS Feed, Integers, FiniteSetTheorems, SequenceTheorems, WellFoundedInduction,
        NaturalsInduction, TLAPS

-----------------------------------------------------------------------------
(* The inductive invariant, by parts. *)

Todos == {<<>>, <<"upsert">>, <<"upsert", "activate">>, <<"upsert", "deactivate">>,
          <<"upsert", "activate", "deactivate">>, <<"activate">>,
          <<"activate", "deactivate">>, <<"deactivate">>}
GkStates == [pc : {"starting", "sleeping", "failed"}, todo : Todos, tracked : SUBSET Assets,
             new : SUBSET Assets, removed : SUBSET Assets]
CommandSet == [operation : {"subscribe", "unsubscribe"}, asset_ids : SUBSET Assets]

RowSet == [active : BOOLEAN, subscribed_at : {0, PollTime}]
StoreOK == Known \subseteq Assets /\ \A a \in Known : tracked_markets[a] \in RowSet

\* A poll begins with room for its commands, and only the client shortens the
\* queue while it is under way.
QueueOK ==
    /\ command_queue \in Seq(CommandSet) /\ Len(command_queue) <= QueueBound + 1
    /\ gk.todo # <<>> => Len(command_queue) < QueueBound

ClientOK ==
    /\ {running, connected, sending} \subseteq BOOLEAN
    /\ missed \cup announced \cup active_asset_ids \cup streamed \cup inbox \subseteq Assets
    /\ inbox \subseteq announced
    /\ sending => connected
    /\ connected /\ ~sending => streamed = active_asset_ids

\* The locals of run_once while store calls are left.  Deactivating comes last,
\* so while a run is under way none of the markets it removes has been touched.
RunOK ==
    /\ gk \in GkStates
    /\ gk.todo = <<>> => gk.new = {}
    /\ gk.todo # <<>> =>
         /\ gk.new \subseteq gk.tracked /\ gk.removed \cap gk.tracked = {}
         /\ WillDo("deactivate") <=> gk.removed # {}
         /\ WillDo("upsert") => /\ gk.tracked \ Known \subseteq gk.new
                                /\ WillDo("activate") <=> gk.new # {}
         /\ ~WillDo("upsert") => gk.tracked \subseteq Known
         /\ ~WillDo("activate") => gk.new \subseteq ActiveAssetIds \cup announced

\* Where a queue of commands takes a set of ids.
Naming(q, a) == {i \in DOMAIN q : a \in q[i].asset_ids}
Streams(q, set, a) ==
    \/ Naming(q, a) = {} /\ a \in set
    \/ \E i \in Naming(q, a) : q[i].operation = "subscribe" /\ \A j \in Naming(q, a) : j <= i

\* SubscriptionAccount for the commands already queued: true of a failed run.
QueueAccount ==
    \A a \in Assets :
        /\ a \in ActiveAssetIds \ (missed \cup gk.new) => Streams(command_queue, active_asset_ids, a)
        /\ Streams(command_queue, active_asset_ids, a) => a \in ActiveAssetIds \cup announced

\* The cap, and what a run under way makes of it.
SmallSet(S) == IsFiniteSet(S) /\ Cardinality(S) <= MaxMarkets
CapOK ==
    /\ gk.todo # <<>> => SmallSet(gk.tracked) /\ ActiveAssetIds \subseteq gk.tracked \cup gk.removed
    /\ gk.todo = <<>> /\ gk.pc = "sleeping" => SmallSet(ActiveAssetIds)

FeedInv == StoreOK /\ QueueOK /\ ClientOK /\ RunOK /\ QueueAccount /\ CapOK
-----------------------------------------------------------------------------
(* extract_tracked_markets *)

LEMMA LeastElement ==
    ASSUME NEW T \in SUBSET Nat, T # {}
    PROVE  \E x \in T : \A y \in T : x <= y
<1> DEFINE R == {ss \in Nat \X Nat : ss[1] < ss[2]}
<1>1. IsWellFoundedOn(R, Nat)
  BY NatLessThanWellFounded, Zenon DEF OpToRel
<1>2. \E x \in T : \A y \in T : <<y, x>> \notin R
  <2> HIDE DEF R
  <2> QED BY <1>1, WFMin, Zenon
<1>3. PICK x \in T : \A y \in T : <<y, x>> \notin R
  BY <1>2
<1>4. ASSUME NEW y \in T PROVE x <= y
  <2>1. x \in Nat /\ y \in Nat /\ <<y, x>> \notin R
    BY <1>3
  <2>2. ~(y < x)
    BY <2>1
  <2> QED BY <2>1, <2>2
<1> QED BY <1>4

\* A strict total order of a set, and what comes before an element in it.
StrictOrder(B, C) ==
    /\ B \subseteq C \X C
    /\ \A i \in C : <<i, i>> \notin B
    /\ \A i, j \in C : i # j => <<i, j>> \in B \/ <<j, i>> \in B
    /\ \A i, j, k \in C : <<i, j>> \in B /\ <<j, k>> \in B => <<i, k>> \in B
Below(B, C, i) == {j \in C : <<j, i>> \in B}
First(B, C, n) == {k \in C : Cardinality(Below(B, C, k)) < n}

\* However a set is ordered, the elements with fewer than n before them are at
\* most n: all others of them are before the last.
LEMMA RankCap ==
    ASSUME NEW C, IsFiniteSet(C), NEW n \in Nat, NEW B, StrictOrder(B, C)
    PROVE  IsFiniteSet(First(B, C, n)) /\ Cardinality(First(B, C, n)) <= n
<1> DEFINE S == First(B, C, n)
           rank == [k \in C |-> Cardinality(Below(B, C, k))]
           free == {n - rank[k] : k \in S}
<1>0. S \subseteq C /\ \A k \in S : rank[k] < n
  BY DEF First
<1>1. IsFiniteSet(S) /\ Cardinality(S) \in Nat
  BY <1>0, FS_Subset, FS_CardinalityType
<1>2. \A k \in C : IsFiniteSet(Below(B, C, k)) /\ rank[k] \in Nat
  <2>1. \A k \in C : Below(B, C, k) \in SUBSET C
    BY DEF Below
  <2> QED BY <2>1, FS_Subset, FS_CardinalityType
<1>r. \A k \in C : rank[k] = Cardinality(Below(B, C, k))
  OBVIOUS
<1> HIDE DEF S, rank
<1>3. CASE S = {}
  <2>1. Cardinality(S) = 0
    BY <1>3, FS_EmptySet
  <2> QED BY <1>1, <2>1 DEF S
<1>4. CASE S # {}
  <2>1. free \in SUBSET Nat /\ free # {}
    BY <1>0, <1>2, <1>4
  <2>2. PICK x \in free : \A y \in free : x <= y
    BY <2>1, LeastElement
  <2>3. PICK last \in S : x = n - rank[last]
    OBVIOUS
  <2>4. \A k \in S : rank[k] <= rank[last]
    <3>1. ASSUME NEW k \in S PROVE rank[k] <= rank[last]
      <4>1. n - rank[last] <= n - rank[k]
        BY <2>2, <2>3
      <4>2. rank[k] \in Nat /\ rank[last] \in Nat
        BY <1>0, <1>2
      <4> QED BY <4>1, <4>2
    <3> QED BY <3>1
  <2>5. ASSUME NEW j \in S, j # last PROVE j \in Below(B, C, last)
    <3> SUFFICES ASSUME j \notin Below(B, C, last) PROVE FALSE
      OBVIOUS
    <3>1. <<last, j>> \in B /\ j \in C /\ last \in C
      BY <1>0, <2>5 DEF StrictOrder, Below
    <3>2. /\ Below(B, C, last) \cup {last} \subseteq Below(B, C, j)
          /\ last \notin Below(B, C, last)
      BY <3>1 DEF StrictOrder, Below
    <3>3. rank[last] \in Nat /\ rank[j] \in Nat
      BY <1>2, <3>1
    <3>4. Cardinality(Below(B, C, last) \cup {last}) = rank[last] + 1
      BY <1>2, <1>r, <3>1, <3>2, FS_AddElement
    <3>5. Cardinality(Below(B, C, last) \cup {last}) <= rank[j]
      BY <1>2, <1>r, <3>1, <3>2, FS_Subset
    <3> QED BY <2>4, <3>3, <3>4, <3>5
  <2>6. Cardinality(S \ {last}) <= rank[last]
    <3>1. S \ {last} \subseteq Below(B, C, last) /\ IsFiniteSet(Below(B, C, last))
      BY <1>0, <1>2, <2>5
    <3> QED BY <1>0, <1>r, <3>1, FS_Subset
  <2>7. Cardinality(S \ {last}) = Cardinality(S) - 1
    BY <1>1, FS_RemoveElement
  <2>8. rank[last] < n /\ rank[last] \in Nat
    BY <1>0, <1>2
  <2>9. Cardinality(S) <= n
    BY <1>1, <2>6, <2>7, <2>8
  <2> QED BY <1>1, <2>9 DEF S
<1> QED BY <1>3, <1>4

\* extract_tracked_markets returns at most max_markets ids, however the volumes
\* tie and however often an id is listed.
LEMMA ExtractCapped ==
    ASSUME NEW listing \in Listings
    PROVE  LET T == ExtractTrackedMarkets(listing) IN T \subseteq Assets /\ SmallSet(T)
<1> DEFINE C == {i \in DOMAIN listing : Candidate(listing[i])}
           Ahead(i) == {j \in C : \/ listing[j].volume > listing[i].volume
                                  \/ listing[j].volume = listing[i].volume /\ j < i}
           B == {p \in C \X C : p[1] \in Ahead(p[2])}
           S == {k \in C : Cardinality(Ahead(k)) < MaxMarkets}
           asset == [k \in S |-> listing[k].asset]
           T == {listing[k].asset : k \in S}
<1>1. ExtractTrackedMarkets(listing) = T
  BY DEF ExtractTrackedMarkets
<1>a. /\ \A i \in DOMAIN listing : listing[i].volume \in Nat /\ listing[i].asset \in Assets
      /\ DOMAIN listing = 1 .. Len(listing) /\ Len(listing) \in Nat
  <2> DEFINE Records == [asset : Assets, open : BOOLEAN, excluded : BOOLEAN,
                         volume : Nat, liquidity : Nat]
  <2>1. listing \in Seq(Records)
    BY GatekeeperAssumption
  <2>2. \A r \in Records : r.volume \in Nat /\ r.asset \in Assets
    OBVIOUS
  <2> HIDE DEF Records
  <2>3. /\ DOMAIN listing = 1 .. Len(listing) /\ Len(listing) \in Nat
        /\ \A i \in DOMAIN listing : listing[i] \in Records
    BY <2>1
  <2> QED BY <2>2, <2>3
<1>2. \A i \in C : i \in Nat /\ listing[i].volume \in Nat /\ listing[i].asset \in Assets
  BY <1>a
<1>3. IsFiniteSet(C) /\ MaxMarkets \in Nat
  <2>1. IsFiniteSet(1 .. Len(listing))
    BY <1>a, FS_Interval
  <2> QED BY <1>a, <2>1, FS_Subset, GatekeeperAssumption
<1>4. StrictOrder(B, C)
  <2>1. \A i, j \in C : <<i, j>> \in B <=>
           \/ listing[i].volume > listing[j].volume
           \/ listing[i].volume = listing[j].volume /\ i < j
    OBVIOUS
  <2>2. B \subseteq C \X C
    OBVIOUS
  <2> HIDE DEF C, B
  <2> QED BY <1>2, <2>1, <2>2 DEF StrictOrder
<1>5. S = First(B, C, MaxMarkets)
  <2>1. \A k \in C : Ahead(k) = Below(B, C, k)
    BY DEF Below
  <2> QED BY <2>1, Zenon DEF First
<1>6. IsFiniteSet(S) /\ Cardinality(S) <= MaxMarkets
  <2> HIDE DEF C, B, S
  <2> QED BY <1>3, <1>4, <1>5, RankCap
<1>7. IsFiniteSet(T) /\ Cardinality(T) <= Cardinality(S)
  <2>1. asset \in Surjection(S, T)
    BY DEF Surjection
  <2> HIDE DEF S, T, asset
  <2> QED BY <1>6, <2>1, FS_Surjection
<1>8. T \subseteq Assets
  BY <1>2
<1>9. Cardinality(S) \in Nat /\ Cardinality(T) \in Nat
  BY <1>6, <1>7, FS_CardinalityType
<1> HIDE DEF S, T
<1> QED BY <1>1, <1>3, <1>6, <1>7, <1>8, <1>9 DEF SmallSet
-----------------------------------------------------------------------------
(* run_once's store calls *)

Has(t, call) == \E i \in DOMAIN t : t[i] = call

\* Short sequences, which the provers do not put together by themselves.
LEMMA TwoElements ==
    ASSUME NEW x, NEW y
    PROVE  <<x>> \o <<y>> = <<x, y>>
<1> DEFINE S == {x, y}
           s == <<x>> \o <<y>>
           t == <<x, y>>
<1>1. /\ <<x>> \in Seq(S) /\ <<y>> \in Seq(S)
      /\ t \in Seq(S) /\ Len(t) = 2 /\ t[1] = x /\ t[2] = y
  OBVIOUS
<1>2. s \in Seq(S) /\ Len(s) = 2 /\ s[1] = x /\ s[2] = y
  BY <1>1
<1> HIDE DEF S, s, t
<1>3. \A i \in 1 .. Len(s) : s[i] = t[i]
  BY <1>1, <1>2
<1>4. s = t
  BY <1>1, <1>2, <1>3, SeqEqual
<1> QED BY <1>4 DEF s, t

LEMMA ThreeElements ==
    ASSUME NEW x, NEW y, NEW z
    PROVE  <<x, y>> \o <<z>> = <<x, y, z>>
<1> DEFINE S == {x, y, z}
           s == <<x, y>> \o <<z>>
           t == <<x, y, z>>
<1>1. /\ <<x, y>> \in Seq(S) /\ <<z>> \in Seq(S)
      /\ t \in Seq(S) /\ Len(t) = 3 /\ t[1] = x /\ t[2] = y /\ t[3] = z
  OBVIOUS
<1>2. s \in Seq(S) /\ Len(s) = 3 /\ s[1] = x /\ s[2] = y /\ s[3] = z
  BY <1>1
<1> HIDE DEF S, s, t
<1>3. \A i \in 1 .. Len(s) : s[i] = t[i]
  BY <1>1, <1>2
<1>4. s = t
  BY <1>1, <1>2, <1>3, SeqEqual
<1> QED BY <1>4 DEF s, t

\* The calls left after the next one.
LEMMA TodoFacts ==
    ASSUME NEW t \in Todos, t # <<>>
    PROVE  /\ Tail(t) \in Todos
           /\ Head(t) = "upsert" =>
                /\ Has(t, "upsert") /\ ~Has(Tail(t), "upsert")
                /\ Has(Tail(t), "activate") <=> Has(t, "activate")
                /\ Has(Tail(t), "deactivate") <=> Has(t, "deactivate")
           /\ Head(t) = "activate" =>
                /\ ~Has(t, "upsert") /\ Has(t, "activate")
                /\ ~Has(Tail(t), "upsert") /\ ~Has(Tail(t), "activate")
                /\ Has(Tail(t), "deactivate") <=> Has(t, "deactivate")
           /\ Head(t) = "deactivate" =>
                /\ ~Has(t, "upsert") /\ ~Has(t, "activate") /\ Has(t, "deactivate")
                /\ Tail(t) = <<>>
<1>1. CASE t \in {<<"upsert">>, <<"activate">>, <<"deactivate">>}
  <2>1. CASE t = <<"upsert">>
    BY <2>1 DEF Todos, Has
  <2>2. CASE t = <<"activate">>
    BY <2>2 DEF Todos, Has
  <2>3. CASE t = <<"deactivate">>
    BY <2>3 DEF Todos, Has
  <2> QED BY <1>1, <2>1, <2>2, <2>3
<1>2. CASE t = <<"upsert", "activate">>
  BY <1>2 DEF Todos, Has
<1>3. CASE t = <<"upsert", "deactivate">>
  BY <1>3 DEF Todos, Has
<1>4. CASE t = <<"upsert", "activate", "deactivate">>
  <2>1. Head(t) = "upsert" /\ Tail(t) = <<"activate", "deactivate">>
    BY <1>4
  <2>2. Has(t, "upsert") /\ Has(t, "activate") /\ Has(t, "deactivate")
    BY <1>4 DEF Has
  <2>3. /\ Has(<<"activate", "deactivate">>, "activate")
        /\ Has(<<"activate", "deactivate">>, "deactivate")
        /\ ~Has(<<"activate", "deactivate">>, "upsert")
    BY DEF Has
  <2> QED BY <2>1, <2>2, <2>3 DEF Todos
<1>5. CASE t = <<"activate", "deactivate">>
  BY <1>5 DEF Todos, Has
<1> QED BY <1>1, <1>2, <1>3, <1>4, <1>5 DEF Todos

LEMMA NothingLeft == ASSUME NEW c PROVE ~Has(<<>>, c)
  BY DEF Has

\* The calls of a new run.
LEMMA StoreCallsFacts ==
    ASSUME NEW g, g.new \subseteq g.tracked
    PROVE  /\ StoreCalls(g) \in Todos
           /\ StoreCalls(g) = <<>> <=> g.tracked = {} /\ g.removed = {}
           /\ Has(StoreCalls(g), "upsert") <=> g.tracked # {}
           /\ Has(StoreCalls(g), "activate") <=> g.new # {}
           /\ Has(StoreCalls(g), "deactivate") <=> g.removed # {}
<1>1. CASE g.tracked = {} /\ g.removed = {}
  <2>1. StoreCalls(g) = <<>>
    BY <1>1 DEF StoreCalls
  <2> QED BY <1>1, <2>1 DEF Todos, Has
<1>2. CASE g.tracked = {} /\ g.removed # {}
  <2>1. StoreCalls(g) = <<"deactivate">>
    <3>1. /\ (IF g.tracked = {} THEN <<>> ELSE <<"upsert">>) = <<>>
          /\ (IF g.new = {} THEN <<>> ELSE <<"activate">>) = <<>>
          /\ (IF g.removed = {} THEN <<>> ELSE <<"deactivate">>) = <<"deactivate">>
      BY <1>2
    <3>2. <<>> \o <<>> = <<>> /\ <<>> \o <<"deactivate">> = <<"deactivate">>
      OBVIOUS
    <3> QED BY <3>1, <3>2 DEF StoreCalls
  <2> QED BY <1>2, <2>1 DEF Todos, Has
<1>3. CASE g.tracked # {} /\ g.new = {} /\ g.removed = {}
  <2>1. StoreCalls(g) = <<"upsert">>
    BY <1>3 DEF StoreCalls
  <2> QED BY <1>3, <2>1 DEF Todos, Has
<1>4. CASE g.tracked # {} /\ g.new = {} /\ g.removed # {}
  <2>1. StoreCalls(g) = <<"upsert", "deactivate">>
    <3>1. <<"upsert">> \o <<"deactivate">> = <<"upsert", "deactivate">>
      BY TwoElements
    <3> QED BY <1>4, <3>1 DEF StoreCalls
  <2> QED BY <1>4, <2>1 DEF Todos, Has
<1>5. CASE g.tracked # {} /\ g.new # {} /\ g.removed = {}
  <2>1. StoreCalls(g) = <<"upsert", "activate">>
    <3>1. <<"upsert">> \o <<"activate">> = <<"upsert", "activate">>
      BY TwoElements
    <3> QED BY <1>5, <3>1 DEF StoreCalls
  <2> QED BY <1>5, <2>1 DEF Todos, Has
<1>6. CASE g.tracked # {} /\ g.new # {} /\ g.removed # {}
  <2>1. StoreCalls(g) = <<"upsert", "activate", "deactivate">>
    <3>1. <<"upsert">> \o <<"activate">> = <<"upsert", "activate">>
      BY TwoElements
    <3>2. <<"upsert", "activate">> \o <<"deactivate">> = <<"upsert", "activate", "deactivate">>
      BY ThreeElements
    <3> QED BY <1>6, <3>1, <3>2 DEF StoreCalls
  <2> QED BY <1>6, <2>1 DEF Todos, Has
<1> QED BY <1>1, <1>2, <1>3, <1>4, <1>5, <1>6
-----------------------------------------------------------------------------
(* The commands *)

\* A command at the end of the queue decides about the ids it names.
LEMMA StreamsAppend ==
    ASSUME NEW q \in Seq(CommandSet), NEW c \in CommandSet, NEW set, NEW a
    PROVE  Streams(Append(q, c), set, a) <=>
             IF a \in c.asset_ids THEN c.operation = "subscribe" ELSE Streams(q, set, a)
<1> DEFINE r == Append(q, c)
<1>1. /\ Len(q) \in Nat /\ DOMAIN q = 1 .. Len(q) /\ DOMAIN r = 1 .. Len(q) + 1
      /\ r[Len(q) + 1] = c /\ \A i \in 1 .. Len(q) : r[i] = q[i]
  OBVIOUS
<1> HIDE DEF r
<1>2. CASE a \in c.asset_ids
  <2>1. Len(q) + 1 \in Naming(r, a) /\ \A j \in Naming(r, a) : j \in Int /\ j <= Len(q) + 1
    BY <1>1, <1>2 DEF Naming
  <2> QED BY <1>1, <1>2, <2>1 DEF Streams, r
<1>3. CASE a \notin c.asset_ids
  <2>1. Naming(r, a) = Naming(q, a) /\ \A i \in Naming(q, a) : r[i] = q[i]
    BY <1>1, <1>3 DEF Naming
  <2> QED BY <1>3, <2>1 DEF Streams, r
<1> QED BY <1>2, <1>3

\* _command_loop takes the first command and changes the set by it: nothing
\* changes about where the queue leads.
LEMMA StreamsTail ==
    ASSUME NEW q \in Seq(CommandSet), q # <<>>, NEW set, NEW a
    PROVE  Streams(Tail(q), After(set, Head(q)), a) <=> Streams(q, set, a)
<1> DEFINE r == Tail(q)
           c == Head(q)
<1>1. /\ Len(q) \in Nat \ {0} /\ DOMAIN q = 1 .. Len(q) /\ DOMAIN r = 1 .. Len(q) - 1
      /\ q[1] = c /\ \A i \in 1 .. Len(q) - 1 : r[i] = q[i + 1]
  OBVIOUS
<1>2. c \in CommandSet
  OBVIOUS
<1>3. a \in After(set, c) <=> IF a \in c.asset_ids THEN c.operation = "subscribe" ELSE a \in set
  BY <1>2 DEF After, CommandSet
<1> HIDE DEF r, c
<1>4. /\ \A i \in Naming(r, a) : i \in Nat /\ i + 1 \in Naming(q, a) /\ r[i] = q[i + 1]
      /\ \A i \in Naming(q, a) : i \in Nat /\ i >= 1 /\ (i # 1 => i - 1 \in Naming(r, a) /\ q[i] = r[i - 1])
      /\ 1 \in Naming(q, a) <=> a \in c.asset_ids
  BY <1>1 DEF Naming
<1>5. CASE Naming(r, a) = {}
  <2>1. Naming(q, a) = IF a \in c.asset_ids THEN {1} ELSE {}
    BY <1>4, <1>5
  <2> QED BY <1>1, <1>3, <1>5, <2>1 DEF Streams, r, c
<1>6. CASE Naming(r, a) # {}
  <2>1. Naming(q, a) # {}
    BY <1>4, <1>6
  <2>2. ASSUME NEW i \in Naming(r, a), r[i].operation = "subscribe", \A j \in Naming(r, a) : j <= i
        PROVE  Streams(q, set, a)
    <3>1. ASSUME NEW j \in Naming(q, a) PROVE j <= i + 1
      <4>1. CASE j = 1
        BY <1>4, <4>1
      <4>2. CASE j # 1
        <5>1. j - 1 \in Naming(r, a) /\ j \in Nat /\ i \in Nat
          BY <1>4, <4>2
        <5>2. j - 1 <= i
          BY <2>2, <5>1
        <5> QED BY <5>1, <5>2
      <4> QED BY <4>1, <4>2
    <3> QED BY <1>4, <2>2, <3>1 DEF Streams
  <2>3. ASSUME NEW i \in Naming(q, a), q[i].operation = "subscribe", \A j \in Naming(q, a) : j <= i
        PROVE  Streams(r, After(set, c), a)
    <3>1. i # 1
      <4>1. PICK k \in Naming(r, a) : TRUE
        BY <1>6
      <4>2. k \in Nat /\ k + 1 <= i /\ k >= 1
        BY <1>1, <1>4, <2>3, <4>1 DEF Naming
      <4> QED BY <4>2
    <3>2. i - 1 \in Naming(r, a) /\ r[i - 1].operation = "subscribe" /\ i \in Nat
      BY <1>4, <2>3, <3>1
    <3>3. ASSUME NEW j \in Naming(r, a) PROVE j <= i - 1
      <4>1. j \in Nat /\ j + 1 <= i
        BY <1>4, <2>3
      <4> QED BY <3>2, <4>1
    <3> QED BY <3>2, <3>3 DEF Streams
  <2> QED BY <1>6, <2>1, <2>2, <2>3 DEF Streams, r, c
<1> QED BY <1>5, <1>6

\* The commands at the end of a run.
LEMMA CommandsFacts ==
    ASSUME NEW q \in Seq(CommandSet), NEW g, g.new \in SUBSET Assets, g.removed \in SUBSET Assets,
           g.new \cap g.removed = {}
    PROVE  /\ q \o Commands(g) \in Seq(CommandSet) /\ Len(q \o Commands(g)) <= Len(q) + 2
           /\ \A set, a : Streams(q \o Commands(g), set, a) <=>
                            a \in g.new \/ (a \notin g.removed /\ Streams(q, set, a))
           /\ g.new = {} /\ g.removed = {} => q \o Commands(g) = q
<1> DEFINE sub == [operation |-> "subscribe", asset_ids |-> g.new]
           unsub == [operation |-> "unsubscribe", asset_ids |-> g.removed]
           q1 == IF g.new = {} THEN q ELSE Append(q, sub)
           q2 == IF g.removed = {} THEN q1 ELSE Append(q1, unsub)
<1>1. sub \in CommandSet /\ unsub \in CommandSet /\ Len(q) \in Nat
  BY DEF CommandSet
<1>2. q \o Commands(g) = q2
  <2>1. CASE g.new = {} /\ g.removed = {}
    BY <2>1 DEF Commands
  <2>2. CASE g.new # {} /\ g.removed = {}
    BY <1>1, <2>2 DEF Commands
  <2>3. CASE g.new = {} /\ g.removed # {}
    BY <1>1, <2>3 DEF Commands
  <2>4. CASE g.new # {} /\ g.removed # {}
    BY <1>1, <2>4 DEF Commands
  <2> QED BY <2>1, <2>2, <2>3, <2>4
<1>3. q1 \in Seq(CommandSet) /\ Len(q1) <= Len(q) + 1
  BY <1>1
<1>4. ASSUME NEW set, NEW a
      PROVE  Streams(q1, set, a) <=> a \in g.new \/ Streams(q, set, a)
  <2>1. CASE g.new = {}
    BY <2>1
  <2>2. CASE g.new # {}
    BY <1>1, <2>2, StreamsAppend
  <2> QED BY <2>1, <2>2
<1> HIDE DEF q1
<1>5. q2 \in Seq(CommandSet) /\ Len(q2) <= Len(q) + 2
  BY <1>1, <1>3
<1>6. ASSUME NEW set, NEW a
      PROVE  Streams(q2, set, a) <=> a \in g.new \/ (a \notin g.removed /\ Streams(q, set, a))
  <2>1. CASE g.removed = {}
    BY <1>4, <2>1
  <2>2. CASE g.removed # {}
    BY <1>1, <1>3, <1>4, <2>2, StreamsAppend
  <2> QED BY <2>1, <2>2
<1>7. g.new = {} /\ g.removed = {} => q2 = q
  BY DEF q1
<1> HIDE DEF q2
<1> QED BY <1>2, <1>5, <1>6, <1>7
-----------------------------------------------------------------------------
(* The store *)

LEMMA UpsertFacts ==
    ASSUME StoreOK, NEW ids \in SUBSET Assets, UpsertTrackedMarkets(ids)
    PROVE  /\ StoreOK' /\ Known' = Known \cup ids
           /\ ActiveAssetIds' = ActiveAssetIds \cup (ids \ Known)
  BY DEF StoreOK, UpsertTrackedMarkets, ActiveAssetIds, Known, Row, RowSet

LEMMA SetActiveFacts ==
    ASSUME StoreOK, NEW ids, NEW active \in BOOLEAN, SetMarketActive(ids, active, PollTime)
    PROVE  /\ StoreOK' /\ Known' = Known
           /\ ActiveAssetIds' = IF active THEN ActiveAssetIds \cup (ids \cap Known)
                                         ELSE ActiveAssetIds \ ids
  BY DEF StoreOK, SetMarketActive, ActiveAssetIds, Known, Row, RowSet

LEMMA SmallerSet == ASSUME NEW S, SmallSet(S), NEW T, T \subseteq S PROVE SmallSet(T)
<1>1. IsFiniteSet(T) /\ Cardinality(T) <= Cardinality(S)
  BY FS_Subset DEF SmallSet
<1>2. Cardinality(T) \in Nat /\ Cardinality(S) \in Nat
  BY <1>1, FS_CardinalityType DEF SmallSet
<1> QED BY <1>1, <1>2, GatekeeperAssumption DEF SmallSet
-----------------------------------------------------------------------------
(* Each action preserves the invariant. *)

LEMMA InitFeed == Init => FeedInv
<1> SUFFICES ASSUME Init PROVE FeedInv
  OBVIOUS
<1>0. /\ tracked_markets = <<>> /\ gk = Idle("starting") /\ command_queue = <<>> /\ missed = {}
      /\ running = FALSE /\ connected = FALSE /\ active_asset_ids = {} /\ sending = FALSE
      /\ streamed = {} /\ inbox = {} /\ announced = {}
  BY DEF Init, GatekeeperInit, ClientInit
<1>1. Known = {} /\ ActiveAssetIds = {}
  BY <1>0 DEF Known, ActiveAssetIds
<1>2. StoreOK
  BY <1>1 DEF StoreOK
<1>3. gk.todo = <<>> /\ gk.pc = "starting" /\ gk.new = {} /\ gk \in GkStates
  BY <1>0 DEF Idle, GkStates, Todos
<1>4. QueueOK
  BY <1>0, <1>3, GatekeeperAssumption DEF QueueOK
<1>5. ClientOK
  BY <1>0 DEF ClientOK
<1>6. RunOK /\ CapOK
  BY <1>3 DEF RunOK, CapOK
<1>7. QueueAccount
  BY <1>0, <1>1 DEF QueueAccount, Streams, Naming
<1> QED BY <1>2, <1>4, <1>5, <1>6, <1>7 DEF FeedInv

\* Connections come and go and the server announces: the client's set, the
\* queue and the run under way stay.
LEMMA ConnectionStep ==
    ASSUME FeedInv, UNCHANGED <<tracked_markets, gk, command_queue, missed, active_asset_ids>>,
           announced \subseteq announced', ClientOK'
    PROVE  FeedInv'
<1>0. Known' = Known /\ ActiveAssetIds' = ActiveAssetIds
  BY DEF Known, ActiveAssetIds
<1>1. StoreOK' /\ QueueOK'
  BY <1>0 DEF FeedInv, StoreOK, QueueOK
<1>2. RunOK'
  BY <1>0 DEF FeedInv, RunOK, WillDo
<1>3. QueueAccount'
  BY <1>0 DEF FeedInv, QueueAccount, Streams, Naming
<1>4. CapOK'
  BY <1>0 DEF FeedInv, CapOK
<1> QED BY <1>1, <1>2, <1>3, <1>4 DEF FeedInv

LEMMA ClientSteps ==
    ASSUME FeedInv, ClientConnects \/ ClientSends \/ ConnectionLost \/ ServerResolves \/ ResolutionFails
    PROVE  FeedInv'
<1>1. CASE ClientConnects
  <2>1. ClientOK'
    BY <1>1 DEF FeedInv, ClientOK, ClientConnects, Connect, gatekeeper_vars
  <2> QED BY <1>1, <2>1, ConnectionStep DEF ClientConnects, Connect, gatekeeper_vars
<1>2. CASE ClientSends
  <2>1. ClientOK'
    BY <1>2 DEF FeedInv, ClientOK, ClientSends, Send, gatekeeper_vars
  <2> QED BY <1>2, <2>1, ConnectionStep DEF ClientSends, Send, gatekeeper_vars
<1>3. CASE ConnectionLost
  <2>1. ClientOK'
    BY <1>3 DEF FeedInv, ClientOK, ConnectionLost, Drop, Disconnect, gatekeeper_vars
  <2> QED BY <1>3, <2>1, ConnectionStep DEF ConnectionLost, Drop, Disconnect, gatekeeper_vars
<1>4. CASE ServerResolves
  <2>1. ClientOK'
    BY <1>4 DEF FeedInv, ClientOK, ServerResolves, Resolve, gatekeeper_vars
  <2> QED BY <1>4, <2>1, ConnectionStep DEF ServerResolves, Resolve, gatekeeper_vars
<1>5. CASE ResolutionFails
  <2>1. ClientOK'
    BY <1>5 DEF FeedInv, ClientOK, ResolutionFails, Disconnect
  <2> QED BY <1>5, <2>1, ConnectionStep DEF ResolutionFails, Disconnect
<1> QED BY <1>1, <1>2, <1>3, <1>4, <1>5

\* The client's set moves on by the command the queue loses.
LEMMA TakeCommandStep == ASSUME FeedInv, ClientTakesCommand PROVE FeedInv'
<1>0. /\ connected /\ ~sending /\ command_queue # <<>> /\ sending' = TRUE
      /\ active_asset_ids' = After(active_asset_ids, Head(command_queue))
      /\ command_queue' = Tail(command_queue)
      /\ UNCHANGED <<tracked_markets, gk, missed, running, connected, streamed, inbox, announced>>
  BY DEF ClientTakesCommand, TakeCommand
<1>a. Known' = Known /\ ActiveAssetIds' = ActiveAssetIds
  BY <1>0 DEF Known, ActiveAssetIds
<1>b. /\ command_queue \in Seq(CommandSet) /\ command_queue' \in Seq(CommandSet)
      /\ Len(command_queue') = Len(command_queue) - 1 /\ Len(command_queue) \in Nat
      /\ Head(command_queue) \in CommandSet
  BY <1>0 DEF FeedInv, QueueOK
<1>1. StoreOK'
  BY <1>0, <1>a DEF FeedInv, StoreOK
<1>2. QueueOK'
  BY <1>0, <1>b, GatekeeperAssumption DEF FeedInv, QueueOK
<1>3. ClientOK'
  <2>1. active_asset_ids' \subseteq Assets
    BY <1>0, <1>b DEF FeedInv, ClientOK, After, CommandSet
  <2> QED BY <1>0, <2>1 DEF FeedInv, ClientOK
<1>4. RunOK'
  BY <1>0, <1>a DEF FeedInv, RunOK, WillDo
<1>5. QueueAccount'
  <2>1. \A a : Streams(command_queue', active_asset_ids', a) <=> Streams(command_queue, active_asset_ids, a)
    BY <1>0, <1>b, StreamsTail
  <2> QED BY <1>0, <1>a, <2>1 DEF FeedInv, QueueAccount
<1>6. CapOK'
  BY <1>0, <1>a DEF FeedInv, CapOK
<1> QED BY <1>1, <1>2, <1>3, <1>4, <1>5, <1>6 DEF FeedInv

\* A resolved market stops being active and has been announced.
LEMMA ResolvedStep == ASSUME FeedInv, ClientResolves PROVE FeedInv'
<1>1. PICK a \in Assets : MarketResolved(a, PollTime)
  BY DEF ClientResolves
<1>0. /\ a \in inbox /\ SetMarketActive({a}, FALSE, PollTime) /\ inbox' = inbox \ {a}
      /\ UNCHANGED <<gk, command_queue, missed, running, connected, active_asset_ids, sending,
                     streamed, announced>>
  BY <1>1 DEF ClientResolves, MarketResolved, gatekeeper_vars
<1>a. /\ StoreOK' /\ Known' = Known /\ ActiveAssetIds' = ActiveAssetIds \ {a}
      /\ a \in announced
  BY <1>0, SetActiveFacts DEF FeedInv, ClientOK
<1>2. QueueOK'
  BY <1>0 DEF FeedInv, QueueOK
<1>3. ClientOK'
  BY <1>0 DEF FeedInv, ClientOK
<1>4. RunOK'
  BY <1>0, <1>a DEF FeedInv, RunOK, WillDo
<1>5. QueueAccount'
  BY <1>0, <1>a DEF FeedInv, QueueAccount, Streams, Naming
<1>6. CapOK'
  BY <1>0, <1>a, SmallerSet DEF FeedInv, CapOK
<1> QED BY <1>a, <1>2, <1>3, <1>4, <1>5, <1>6 DEF FeedInv

\* A restart cuts every active market off: nothing is left to account for.
LEMMA RestartStep == ASSUME FeedInv, Restart PROVE FeedInv'
<1>0. /\ gk' = Idle("starting") /\ command_queue' = <<>> /\ missed' = ActiveAssetIds
      /\ running' = FALSE /\ connected' = FALSE /\ active_asset_ids' = {} /\ sending' = FALSE
      /\ streamed' = {} /\ inbox' = {} /\ UNCHANGED <<tracked_markets, announced>>
  BY DEF Restart
<1>a. Known' = Known /\ ActiveAssetIds' = ActiveAssetIds /\ ActiveAssetIds \subseteq Assets
  BY <1>0 DEF Known, ActiveAssetIds, FeedInv, StoreOK
<1>b. gk'.todo = <<>> /\ gk'.pc = "starting" /\ gk'.new = {} /\ gk' \in GkStates
  BY <1>0 DEF Idle, GkStates, Todos
<1>1. StoreOK'
  BY <1>0, <1>a DEF FeedInv, StoreOK
<1>2. QueueOK'
  BY <1>0, <1>b, GatekeeperAssumption DEF QueueOK
<1>3. ClientOK'
  BY <1>0, <1>a DEF FeedInv, ClientOK
<1>4. RunOK' /\ CapOK'
  BY <1>b DEF RunOK, CapOK
<1>5. QueueAccount'
  BY <1>0, <1>a DEF QueueAccount, Streams, Naming
<1> QED BY <1>1, <1>2, <1>3, <1>4, <1>5 DEF FeedInv

\* A failed run leaves its own markets cut off and the others as they were.
LEMMA FaultStep == ASSUME FeedInv, PollFails PROVE FeedInv'
<1>0. /\ gk' = Idle("failed") /\ missed' = missed \cup (gk.new \cap ActiveAssetIds)
      /\ running' = (running \/ gk'.pc = "sleeping")
      /\ UNCHANGED <<tracked_markets, command_queue, connected, active_asset_ids, sending,
                     streamed, inbox, announced>>
  BY DEF PollFails, GatekeeperStep, GatekeeperFault, client_vars
<1>a. Known' = Known /\ ActiveAssetIds' = ActiveAssetIds /\ ActiveAssetIds \subseteq Assets
  BY <1>0 DEF Known, ActiveAssetIds, FeedInv, StoreOK
<1>b. gk'.todo = <<>> /\ gk'.pc = "failed" /\ gk'.new = {} /\ gk' \in GkStates
  BY <1>0 DEF Idle, GkStates, Todos
<1>1. StoreOK'
  BY <1>0, <1>a DEF FeedInv, StoreOK
<1>2. QueueOK'
  BY <1>0, <1>b DEF FeedInv, QueueOK
<1>3. ClientOK'
  BY <1>0, <1>a DEF FeedInv, ClientOK
<1>4. RunOK' /\ CapOK'
  BY <1>b DEF RunOK, CapOK
<1>5. QueueAccount'
  BY <1>0, <1>a, <1>b DEF FeedInv, QueueAccount, Streams, Naming
<1> QED BY <1>1, <1>2, <1>3, <1>4, <1>5 DEF FeedInv

\* A poll compares the answer with the store: the commands it is going to queue
\* bring the client where the store will be.
LEMMA FetchStep ==
    ASSUME FeedInv, NEW listing \in Listings, GatekeeperStep(Fetch(listing))
    PROVE  FeedInv'
<1> DEFINE T == ExtractTrackedMarkets(listing)
           g == [pc |-> gk.pc, todo |-> <<>>, tracked |-> T,
                 new |-> T \ ActiveAssetIds, removed |-> ActiveAssetIds \ T]
<1>0. /\ gk.todo = <<>> /\ Len(command_queue) < QueueBound /\ Proceed(g, StoreCalls(g))
      /\ running' = (running \/ gk'.pc = "sleeping")
      /\ UNCHANGED <<tracked_markets, connected, active_asset_ids, sending, streamed, inbox, announced>>
  BY DEF GatekeeperStep, Fetch, client_vars
<1>a. /\ Known' = Known /\ ActiveAssetIds' = ActiveAssetIds /\ ActiveAssetIds \subseteq Known
      /\ Known \subseteq Assets
  BY <1>0 DEF Known, ActiveAssetIds, FeedInv, StoreOK
<1>b. T \subseteq Assets /\ SmallSet(T)
  BY ExtractCapped
<1>c. /\ g.tracked = T /\ g.new = T \ ActiveAssetIds /\ g.removed = ActiveAssetIds \ T
      /\ g.pc = gk.pc
  OBVIOUS
<1>d. /\ gk.pc \in {"starting", "sleeping", "failed"} /\ gk.new = {}
      /\ command_queue \in Seq(CommandSet)
  BY <1>0 DEF FeedInv, RunOK, GkStates, QueueOK
<1>e. \A r \in Todos : [g EXCEPT !.todo = r] \in GkStates
  BY <1>a, <1>b, <1>d DEF GkStates
<1>f. \A r : LET n == [g EXCEPT !.todo = r] IN
         n.todo = r /\ n.tracked = T /\ n.new = g.new /\ n.removed = g.removed
  OBVIOUS
<1> HIDE DEF g, T
<1>1. StoreOK'
  BY <1>0, <1>a DEF FeedInv, StoreOK
<1>2. CASE StoreCalls(g) # <<>>
  <2>0. /\ gk' = [g EXCEPT !.todo = StoreCalls(g)] /\ UNCHANGED <<command_queue, missed>>
    BY <1>0, <1>2 DEF Proceed
  <2>1. /\ gk'.todo = StoreCalls(g) /\ gk'.tracked = T /\ gk'.new = T \ ActiveAssetIds
        /\ gk'.removed = ActiveAssetIds \ T /\ gk' \in GkStates /\ gk'.todo # <<>>
    BY <1>2, <1>c, <1>e, <1>f, <2>0, StoreCallsFacts
  <2>2. QueueOK'
    BY <1>0, <2>0 DEF FeedInv, QueueOK
  <2>3. ClientOK'
    BY <1>0, <2>0 DEF FeedInv, ClientOK
  <2>4. RunOK'
    <3>1. /\ Has(gk'.todo, "upsert") <=> T # {}
          /\ Has(gk'.todo, "activate") <=> gk'.new # {}
          /\ Has(gk'.todo, "deactivate") <=> gk'.removed # {}
      BY <1>c, <2>1, StoreCallsFacts
    <3> QED BY <1>0, <1>a, <2>1, <3>1 DEF RunOK, WillDo, Has
  <2>5. QueueAccount'
    BY <1>0, <1>a, <1>d, <2>0 DEF FeedInv, QueueAccount, Streams, Naming
  <2>6. CapOK'
    BY <1>a, <1>b, <2>1 DEF CapOK
  <2> QED BY <1>1, <2>2, <2>3, <2>4, <2>5, <2>6 DEF FeedInv
<1>3. CASE StoreCalls(g) = <<>>
  <2>0. T = {} /\ ActiveAssetIds = {} /\ g.new = {} /\ g.removed = {}
    BY <1>3, <1>c, StoreCallsFacts
  <2>1. /\ gk' = Idle("sleeping") /\ command_queue' = command_queue /\ missed' = missed
    BY <1>0, <1>3, <1>d, <2>0, CommandsFacts DEF Proceed
  <2>a. gk'.todo = <<>> /\ gk'.new = {} /\ gk' \in GkStates
    BY <2>1 DEF Idle, GkStates, Todos
  <2>2. QueueOK'
    BY <1>0, <2>1, <2>a DEF FeedInv, QueueOK
  <2>3. ClientOK'
    BY <1>0, <2>1 DEF FeedInv, ClientOK
  <2>4. RunOK'
    BY <2>a DEF RunOK
  <2>5. QueueAccount'
    BY <1>0, <1>a, <1>d, <2>1, <2>a DEF FeedInv, QueueAccount, Streams, Naming
  <2>6. CapOK'
    BY <1>a, <1>b, <2>0, <2>a DEF CapOK
  <2> QED BY <1>1, <2>2, <2>3, <2>4, <2>5, <2>6 DEF FeedInv
<1> QED BY <1>2, <1>3

\* What a store call of run_once does, seen from the calls r that are left.
CallEffect(r) ==
    /\ r \in Todos /\ ~Has(r, "upsert")
    /\ StoreOK' /\ gk.tracked \subseteq Known'
    /\ ActiveAssetIds' \subseteq (ActiveAssetIds \cup gk.new) \cap (gk.tracked \cup gk.removed)
    /\ ActiveAssetIds \ gk.removed \subseteq ActiveAssetIds'
    /\ r # <<>> => /\ ActiveAssetIds \subseteq ActiveAssetIds'
                   /\ Has(r, "deactivate") <=> gk.removed # {}
    /\ r = <<>> => ActiveAssetIds' \cap gk.removed = {}
    /\ ~Has(r, "activate") => gk.new \subseteq ActiveAssetIds' \cup announced

\* After any store call the run goes on, or is through and queues its commands.
LEMMA CallStep ==
    ASSUME FeedInv, gk.todo # <<>>, NEW r, CallEffect(r), GatekeeperStep(Proceed(gk, r))
    PROVE  FeedInv'
<1>0. /\ Proceed(gk, r) /\ running' = (running \/ gk'.pc = "sleeping")
      /\ UNCHANGED <<connected, active_asset_ids, sending, streamed, inbox, announced>>
  BY DEF GatekeeperStep, client_vars
<1>a. /\ gk \in GkStates /\ gk.new \subseteq gk.tracked /\ gk.removed \cap gk.tracked = {}
      /\ gk.new \subseteq Assets /\ gk.removed \subseteq Assets /\ gk.new \cap gk.removed = {}
  BY DEF FeedInv, RunOK, GkStates
<1>1. StoreOK'
  BY DEF CallEffect
<1>2. CASE r # <<>>
  <2>0. gk' = [gk EXCEPT !.todo = r] /\ UNCHANGED <<command_queue, missed>>
    BY <1>0, <1>2 DEF Proceed
  <2>1. /\ gk'.todo = r /\ gk'.tracked = gk.tracked /\ gk'.new = gk.new
        /\ gk'.removed = gk.removed /\ gk' \in GkStates
    BY <1>a, <2>0 DEF GkStates, CallEffect
  <2>2. QueueOK'
    BY <2>0 DEF FeedInv, QueueOK
  <2>3. ClientOK'
    BY <1>0, <2>0 DEF FeedInv, ClientOK
  <2>4. RunOK'
    BY <1>0, <1>2, <1>a, <2>1 DEF RunOK, WillDo, CallEffect, Has
  <2>5. QueueAccount'
    BY <1>0, <1>2, <2>0, <2>1 DEF FeedInv, QueueAccount, Streams, Naming, CallEffect
  <2>6. CapOK'
    BY <1>2, <2>1 DEF FeedInv, CapOK, CallEffect
  <2> QED BY <1>1, <2>2, <2>3, <2>4, <2>5, <2>6 DEF FeedInv
<1>3. CASE r = <<>>
  <2>0. /\ gk' = Idle("sleeping") /\ command_queue' = command_queue \o Commands(gk)
        /\ missed' = missed \ gk.new
    BY <1>0, <1>3 DEF Proceed
  <2>1. gk'.todo = <<>> /\ gk'.new = {} /\ gk' \in GkStates
    BY <2>0 DEF Idle, GkStates, Todos
  <2>a. /\ command_queue \in Seq(CommandSet) /\ Len(command_queue) \in Nat
        /\ Len(command_queue) < QueueBound
    BY DEF FeedInv, QueueOK
  <2>b. /\ command_queue' \in Seq(CommandSet) /\ Len(command_queue') <= Len(command_queue) + 2
        /\ \A a : Streams(command_queue', active_asset_ids, a) <=>
                   a \in gk.new \/ (a \notin gk.removed /\ Streams(command_queue, active_asset_ids, a))
    BY <1>a, <2>0, <2>a, CommandsFacts
  <2>2. QueueOK'
    <3>1. Len(command_queue') \in Nat
      BY <2>b
    <3> QED BY <2>1, <2>a, <2>b, <3>1, GatekeeperAssumption DEF QueueOK
  <2>3. ClientOK'
    BY <1>0, <2>0 DEF FeedInv, ClientOK
  <2>4. RunOK'
    BY <2>1 DEF RunOK
  <2>5. QueueAccount'
    <3> SUFFICES ASSUME NEW a \in Assets
                 PROVE  /\ a \in ActiveAssetIds' \ missed' => Streams(command_queue', active_asset_ids, a)
                        /\ Streams(command_queue', active_asset_ids, a) => a \in ActiveAssetIds' \cup announced
      BY <1>0, <2>1 DEF QueueAccount
    <3>1. /\ a \in ActiveAssetIds \ (missed \cup gk.new) => Streams(command_queue, active_asset_ids, a)
          /\ Streams(command_queue, active_asset_ids, a) => a \in ActiveAssetIds \cup announced
      BY DEF FeedInv, QueueAccount
    <3>2. /\ a \in ActiveAssetIds' => a \in ActiveAssetIds \cup gk.new /\ a \notin gk.removed
          /\ a \in ActiveAssetIds /\ a \notin gk.removed => a \in ActiveAssetIds'
          /\ a \in gk.new => a \in ActiveAssetIds' \cup announced
      BY <1>3, NothingLeft DEF CallEffect
    <3> QED BY <2>0, <2>b, <3>1, <3>2
  <2>6. CapOK'
    <3>1. ActiveAssetIds' \subseteq gk.tracked
      BY <1>3 DEF CallEffect
    <3>2. SmallSet(gk.tracked)
      BY DEF FeedInv, CapOK
    <3> QED BY <2>1, <3>1, <3>2, SmallerSet DEF CapOK
  <2> QED BY <1>1, <2>2, <2>3, <2>4, <2>5, <2>6 DEF FeedInv
<1> QED BY <1>2, <1>3

LEMMA StoreCallStep == ASSUME FeedInv, StoreCall PROVE FeedInv'
<1> DEFINE t == gk.todo
           r == Tail(gk.todo)
<1>0. ASSUME gk.todo # <<>>
      PROVE  /\ t \in Todos /\ t # <<>> /\ StoreOK
             /\ gk.tracked \subseteq Assets
             /\ gk.new \subseteq gk.tracked /\ gk.removed \cap gk.tracked = {}
             /\ Has(t, "deactivate") <=> gk.removed # {}
             /\ Has(t, "upsert") => /\ gk.tracked \ Known \subseteq gk.new
                                    /\ Has(t, "activate") <=> gk.new # {}
             /\ ~Has(t, "upsert") => gk.tracked \subseteq Known
             /\ ~Has(t, "activate") => gk.new \subseteq ActiveAssetIds \cup announced
             /\ ActiveAssetIds \subseteq gk.tracked \cup gk.removed
  BY <1>0 DEF FeedInv, RunOK, CapOK, WillDo, Has, GkStates
<1>1. CASE GatekeeperStep(Upsert)
  <2>1. gk.todo # <<>> /\ Head(t) = "upsert" /\ UpsertTrackedMarkets(gk.tracked)
    BY <1>1 DEF GatekeeperStep, Upsert, Calls
  <2>2. GatekeeperStep(Proceed(gk, r))
    BY <1>1 DEF GatekeeperStep, Upsert
  <2>3. /\ StoreOK' /\ Known' = Known \cup gk.tracked
        /\ ActiveAssetIds' = ActiveAssetIds \cup (gk.tracked \ Known)
    BY <1>0, <2>1, UpsertFacts
  <2>4. CallEffect(r)
    BY <1>0, <2>1, <2>3, TodoFacts, NothingLeft DEF CallEffect
  <2> QED BY <2>1, <2>2, <2>4, CallStep
<1>2. CASE GatekeeperStep(Activate)
  <2>1. gk.todo # <<>> /\ Head(t) = "activate" /\ SetMarketActive(gk.new, TRUE, PollTime)
    BY <1>2 DEF GatekeeperStep, Activate, Calls
  <2>2. GatekeeperStep(Proceed(gk, r))
    BY <1>2 DEF GatekeeperStep, Activate
  <2>3. /\ StoreOK' /\ Known' = Known
        /\ ActiveAssetIds' = ActiveAssetIds \cup (gk.new \cap Known)
    BY <1>0, <2>1, SetActiveFacts
  <2>4. CallEffect(r)
    BY <1>0, <2>1, <2>3, TodoFacts, NothingLeft DEF CallEffect
  <2> QED BY <2>1, <2>2, <2>4, CallStep
<1>3. CASE GatekeeperStep(Deactivate)
  <2>1. gk.todo # <<>> /\ Head(t) = "deactivate" /\ SetMarketActive(gk.removed, FALSE, PollTime)
    BY <1>3 DEF GatekeeperStep, Deactivate, Calls
  <2>2. GatekeeperStep(Proceed(gk, r))
    BY <1>3 DEF GatekeeperStep, Deactivate
  <2>3. StoreOK' /\ Known' = Known /\ ActiveAssetIds' = ActiveAssetIds \ gk.removed
    BY <1>0, <2>1, SetActiveFacts
  <2>4. CallEffect(r)
    BY <1>0, <2>1, <2>3, TodoFacts, NothingLeft DEF CallEffect
  <2> QED BY <2>1, <2>2, <2>4, CallStep
<1> QED BY <1>1, <1>2, <1>3 DEF StoreCall

\* The invariant holds throughout.
THEOREM FeedInvariant == Spec => []FeedInv
<1>1. ASSUME FeedInv, [Next]_vars PROVE FeedInv'
  <2>1. CASE Poll
    BY <1>1, <2>1, FetchStep DEF Poll
  <2>2. CASE StoreCall
    BY <1>1, <2>2, StoreCallStep
  <2>3. CASE PollFails
    BY <1>1, <2>3, FaultStep
  <2>4. CASE ClientConnects \/ ClientSends \/ ConnectionLost \/ ServerResolves \/ ResolutionFails
    BY <1>1, <2>4, ClientSteps
  <2>5. CASE ClientTakesCommand
    BY <1>1, <2>5, TakeCommandStep
  <2>6. CASE ClientResolves
    BY <1>1, <2>6, ResolvedStep
  <2>7. CASE Restart
    BY <1>1, <2>7, RestartStep
  <2>8. CASE UNCHANGED vars
    <3>1. /\ UNCHANGED <<tracked_markets, gk, command_queue, missed, active_asset_ids>>
          /\ announced' = announced /\ ClientOK'
      BY <1>1, <2>8 DEF vars, gatekeeper_vars, client_vars, FeedInv, ClientOK
    <3> QED BY <1>1, <3>1, ConnectionStep
  <2> QED BY <1>1, <2>1, <2>2, <2>3, <2>4, <2>5, <2>6, <2>7, <2>8 DEF Next
<1> QED BY <1>1, InitFeed, PTL DEF Spec
-----------------------------------------------------------------------------
(* The theorems. *)

\* The rows, the run's locals, the sets of ids and the command queue are well
\* typed, and a poll finds room for its commands.
THEOREM FeedTypeCorrect == Spec => []TypeOK
<1>1. FeedInv => TypeOK
  <2> SUFFICES ASSUME FeedInv PROVE TypeOK
    OBVIOUS
  <2>1. /\ Known \subseteq Assets /\ {running, connected, sending} \subseteq BOOLEAN
        /\ \A a \in Known : tracked_markets[a] \in [active : BOOLEAN, subscribed_at : {0, PollTime}]
        /\ active_asset_ids \cup streamed \cup inbox \subseteq Assets
    BY DEF FeedInv, StoreOK, RowSet, ClientOK
  <2>2. /\ gk.pc \in {"starting", "sleeping", "failed"}
        /\ gk.tracked \cup gk.new \cup gk.removed \cup missed \cup announced \subseteq Assets
    BY DEF FeedInv, RunOK, GkStates, ClientOK
  <2>3. gk.todo \in Todos
    BY DEF FeedInv, RunOK, GkStates
  <2>4. /\ \A i \in DOMAIN command_queue : command_queue[i] \in CommandSet
        /\ Len(command_queue) <= QueueBound + 1
    BY DEF FeedInv, QueueOK
  <2> QED BY <2>1, <2>2, <2>3, <2>4 DEF TypeOK, Todos, CommandSet
<1> QED BY <1>1, FeedInvariant, PTL

\* Store and client agree once what is under way has been carried out, whatever
\* connections, store calls or processes have failed.
THEOREM StoreAndClientAgree == Spec => []SubscriptionAccount
<1>1. ASSUME FeedInv PROVE SubscriptionAccount
  <2>0. command_queue \in Seq(CommandSet) /\ gk \in GkStates
    BY <1>1 DEF FeedInv, QueueOK, RunOK
  <2>1. \A a : WillStream(a) <=> Streams(Pending, active_asset_ids, a)
    BY DEF WillStream, Streams, Naming
  <2>2. CASE gk.todo = <<>>
    <3>1. Pending = command_queue
      BY <2>0, <2>2 DEF Pending
    <3>2. \A a : WillBeActive(a) <=> a \in ActiveAssetIds
      BY <2>2 DEF WillBeActive, WillDo
    <3>3. gk.new = {}
      BY <1>1, <2>2 DEF FeedInv, RunOK
    <3> QED BY <1>1, <2>1, <3>1, <3>2, <3>3 DEF FeedInv, QueueAccount, SubscriptionAccount
  <2>3. CASE gk.todo # <<>>
    <3>1. /\ gk.new \cap gk.removed = {} /\ gk.new \in SUBSET Assets /\ gk.removed \in SUBSET Assets
          /\ WillDo("deactivate") <=> gk.removed # {}
          /\ ~WillDo("activate") => gk.new \subseteq ActiveAssetIds \cup announced
      BY <1>1, <2>3 DEF FeedInv, RunOK, GkStates
    <3>2. \A a : WillStream(a) <=>
                 a \in gk.new \/ (a \notin gk.removed /\ Streams(command_queue, active_asset_ids, a))
      BY <2>0, <2>1, <2>3, <3>1, CommandsFacts DEF Pending
    <3> SUFFICES ASSUME NEW a \in Assets
                 PROVE  /\ WillBeActive(a) /\ a \notin missed => WillStream(a)
                        /\ WillStream(a) => WillBeActive(a) \/ a \in announced
      BY DEF SubscriptionAccount
    <3>3. /\ a \in ActiveAssetIds \ (missed \cup gk.new) => Streams(command_queue, active_asset_ids, a)
          /\ Streams(command_queue, active_asset_ids, a) => a \in ActiveAssetIds \cup announced
      BY <1>1 DEF FeedInv, QueueAccount
    <3> QED BY <3>1, <3>2, <3>3 DEF WillBeActive
  <2> QED BY <2>2, <2>3
<1> QED BY <1>1, FeedInvariant, PTL

\* When nothing is under way, the server streams every active market that was
\* not cut off by a failed run or a restart.
THEOREM ActiveMarketsStreamed == Spec => []ActiveStreamed
<1>1. ASSUME FeedInv PROVE ActiveStreamed
  <2> SUFFICES ASSUME connected, ~sending, command_queue = <<>>, gk.todo = <<>>,
                      NEW a \in ActiveAssetIds \ missed
               PROVE  a \in streamed
    BY DEF ActiveStreamed
  <2>1. a \in Assets /\ gk.new = {} /\ streamed = active_asset_ids
    BY <1>1 DEF FeedInv, StoreOK, ActiveAssetIds, RunOK, ClientOK
  <2>2. Streams(command_queue, active_asset_ids, a)
    BY <1>1, <2>1 DEF FeedInv, QueueAccount
  <2> QED BY <2>1, <2>2 DEF Streams, Naming
<1> QED BY <1>1, FeedInvariant, PTL

\* After every run that went through at most max_markets markets are active.
THEOREM MarketCapHolds == Spec => []MarketsCapped
<1>1. FeedInv => MarketsCapped
  BY DEF FeedInv, CapOK, SmallSet, MarketsCapped
<1> QED BY <1>1, FeedInvariant, PTL
=============================================================================
