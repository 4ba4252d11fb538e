---------------------------- MODULE MarketStore ----------------------------
(***************************************************************************)
(* The tracked_markets table of src/sentinel/storage/sqlite_store.py.      *)
(* SQLiteStore keeps the rows twice, in SQLite and in _tracked_cache; every *)
(* method commits under one asyncio.Lock and updates the cache before it   *)
(* yields again, and only initialize reads the table, so one variable      *)
(* stands for both and a statement with its cache update is one step.  A   *)
(* statement that raises changes nothing.                                  *)
(***************************************************************************)
EXTENDS Naturals, FiniteSets

CONSTANT Assets        \* asset ids (the Yes tokens of markets)

VARIABLE tracked_markets   \* asset id -> row; rows are never deleted

\* The columns the program decides by; the others are copied from the API.
Row(active, subscribed_at) == [active |-> active, subscribed_at |-> subscribed_at]

Known == DOMAIN tracked_markets

\* active_asset_ids and get_tracked_market(...).active
ActiveAssetIds == {a \in Known : tracked_markets[a].active}

\* upsert_tracked_markets: a new row gets the MarketMetadata defaults, an
\* existing one keeps active and subscribed_at_ms (ON CONFLICT).
UpsertTrackedMarkets(ids) ==
    tracked_markets' = [a \in Known \cup ids |->
                          IF a \in Known THEN tracked_markets[a] ELSE Row(TRUE, 0)]

\* Mutant: a deactivated market keeps its subscription time.
SetMarketActive_KeepTime(ids, active, time) ==
    tracked_markets' = [a \in Known |->
        IF a \in ids THEN Row(active, IF active THEN time ELSE tracked_markets[a].subscribed_at)
                     ELSE tracked_markets[a]]

\* set_market_active, also as mark_market_resolved: UPDATE ... WHERE asset_id IN.
SetMarketActive(ids, active, time) ==
    tracked_markets' = [a \in Known |->
        IF a \in ids THEN Row(active, IF active THEN time ELSE 0) ELSE tracked_markets[a]]
=============================================================================
