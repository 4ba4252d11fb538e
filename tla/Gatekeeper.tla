----------------------------- MODULE Gatekeeper -----------------------------
(***************************************************************************)
(* Gatekeeper of src/sentinel/ingestion/gatekeeper.py: polls the API for   *)
(* the markets worth tracking, brings the store in line one statement at a *)
(* time and then tells the websocket client through the command queue.     *)
(*                                                                         *)
(* The difference with the store is computed once, after the fetch; each   *)
(* store call is an await at which other tasks run.  Calls with an empty   *)
(* list return at once, so only the others are steps (todo).  put on the   *)
(* unbounded queue does not wait: the commands follow the last store call  *)
(* in the same step.                                                       *)
(***************************************************************************)
EXTENDS MarketStore, Sequences

CONSTANTS Listings,      \* answers of the API: sequences of market records
          MinVolume, MinLiquidity, MaxMarkets,   \* GatekeeperConfig
          QueueBound,    \* bound: no poll begins with so many commands waiting
          MaxFaults      \* bound: store calls that raise

\* What the API answers is a list of markets; of the amounts only the order counts.
ASSUME GatekeeperAssumption ==
    /\ MaxMarkets \in Nat /\ QueueBound \in Nat
    /\ \A listing \in Listings :
         listing \in Seq([asset : Assets, open : BOOLEAN, excluded : BOOLEAN,
                          volume : Nat, liquidity : Nat])

VARIABLES gk,             \* the gatekeeper task: its stage and run_once's locals
          command_queue,  \* asyncio.Queue of SubscriptionCommand
          faults,         \* store calls that have raised
          missed          \* history: markets activated without a subscribe command
                          \* the client will ever see

gatekeeper_vars == <<gk, command_queue, faults, missed>>

\* "starting": the run_once of SentinelApp.run before the tasks are created.
Idle(pc) == [pc |-> pc, todo |-> <<>>, tracked |-> {}, new |-> {}, removed |-> {}]

GatekeeperInit == /\ gk = Idle("starting") /\ command_queue = <<>>
                  /\ faults = 0 /\ missed = {}

Candidate(m) == /\ m.open /\ ~m.excluded
                /\ m.volume >= MinVolume /\ m.liquidity >= MinLiquidity

\* Mutant: the cap counts one market too many.
ExtractTrackedMarkets_OffByOne(listing) ==
    LET candidates == {i \in DOMAIN listing : Candidate(listing[i])}
        Ahead(i) == {j \in candidates : \/ listing[j].volume > listing[i].volume
                                        \/ listing[j].volume = listing[i].volume /\ j < i}
    IN {listing[i].asset : i \in {k \in candidates : Cardinality(Ahead(k)) <= MaxMarkets}}

\* extract_tracked_markets: filtered, sorted by falling volume (the sort is
\* stable), cut after max_markets.
ExtractTrackedMarkets(listing) ==
    LET candidates == {i \in DOMAIN listing : Candidate(listing[i])}
        Ahead(i) == {j \in candidates : \/ listing[j].volume > listing[i].volume
                                        \/ listing[j].volume = listing[i].volume /\ j < i}
    IN {listing[i].asset : i \in {k \in candidates : Cardinality(Ahead(k)) < MaxMarkets}}

\* The two commands at the end of run_once.
Commands(g) ==
    (IF g.new = {} THEN <<>> ELSE <<[operation |-> "subscribe", asset_ids |-> g.new]>>)
    \o (IF g.removed = {} THEN <<>> ELSE <<[operation |-> "unsubscribe", asset_ids |-> g.removed]>>)

\* run_once goes on after a store call, with the calls of todo still to make.
Proceed(g, todo) ==
    IF todo # <<>>
      THEN gk' = [g EXCEPT !.todo = todo] /\ UNCHANGED <<command_queue, missed>>
      ELSE /\ gk' = Idle("sleeping")
           /\ command_queue' = command_queue \o Commands(g)
           /\ missed' = missed \ g.new

\* Mutant: markets are deactivated before others are activated.
StoreCalls_Swapped(g) ==
    (IF g.tracked = {} THEN <<>> ELSE <<"upsert">>)
    \o (IF g.removed = {} THEN <<>> ELSE <<"deactivate">>)
    \o (IF g.new = {} THEN <<>> ELSE <<"activate">>)

\* The store calls that do not return at once.
StoreCalls(g) ==
    (IF g.tracked = {} THEN <<>> ELSE <<"upsert">>)
    \o (IF g.new = {} THEN <<>> ELSE <<"activate">>)
    \o (IF g.removed = {} THEN <<>> ELSE <<"deactivate">>)

\* fetch_events has answered: the listing is filtered and compared with the
\* cache without an await.
Fetch(listing) ==
    /\ gk.todo = <<>> /\ Len(command_queue) < QueueBound
    /\ LET tracked == ExtractTrackedMarkets(listing)
           g == [pc |-> gk.pc, todo |-> <<>>, tracked |-> tracked,
                 new |-> tracked \ ActiveAssetIds, removed |-> ActiveAssetIds \ tracked]
       IN Proceed(g, StoreCalls(g))
    /\ UNCHANGED <<tracked_markets, faults>>

Calls(statement) == gk.todo # <<>> /\ Head(gk.todo) = statement

Upsert == /\ Calls("upsert")
          /\ UpsertTrackedMarkets(gk.tracked)
          /\ Proceed(gk, Tail(gk.todo)) /\ UNCHANGED faults

\* Nothing in these modules depends on the time of a poll.
PollTime == 1

Activate == /\ Calls("activate")
            /\ SetMarketActive(gk.new, TRUE, PollTime)
            /\ Proceed(gk, Tail(gk.todo)) /\ UNCHANGED faults

Deactivate == /\ Calls("deactivate")
              /\ SetMarketActive(gk.removed, FALSE, PollTime)
              /\ Proceed(gk, Tail(gk.todo)) /\ UNCHANGED faults

\* A store call raises: run_forever drops the run with its commands and starts
\* over later.  (In the starting run it ends the application: see Restart.)
GatekeeperFault ==
    /\ gk.todo # <<>> /\ gk.pc # "starting" /\ faults < MaxFaults
    /\ gk' = Idle("failed")
    /\ faults' = faults + 1
    /\ missed' = missed \cup (gk.new \cap ActiveAssetIds)
    /\ UNCHANGED <<tracked_markets, command_queue>>
=============================================================================
