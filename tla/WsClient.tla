------------------------------ MODULE WsClient ------------------------------
(***************************************************************************)
(* MarketWSClient of src/sentinel/ingestion/ws_client.py and the server    *)
(* end of its connection.  The set of asset ids to stream lives in the     *)
(* client, outlives connections and is sent whole, at every connect and    *)
(* after every command; the server streams the ids of the last message of  *)
(* the connection.  The command loop of a connection takes a command,      *)
(* changes the set and then waits for the send.                            *)
(***************************************************************************)
EXTENDS MarketStore, Sequences

CONSTANTS MaxDrops,      \* bound: connections that are lost
          MaxResolved    \* bound: resolutions the server announces

VARIABLES running,        \* SentinelApp.run has created the tasks
          connected,      \* a connection is open
          active_asset_ids,  \* MarketWSClient._active_asset_ids
          sending,        \* the command loop is in _send_subscription
          streamed,       \* server: the ids it sends prices for
          inbox,          \* market_resolved events on their way to the client
          announced,      \* history: markets the server has announced as resolved
          drops           \* connections lost so far

client_vars == <<connected, active_asset_ids, sending, streamed, inbox, announced, drops>>

ClientInit == /\ running = FALSE /\ connected = FALSE /\ active_asset_ids = {}
              /\ sending = FALSE /\ streamed = {} /\ inbox = {}
              /\ announced = {} /\ drops = 0

\* Mutant: a reconnect waits for the next command to send the set.
Connect_NoResend ==
    /\ running /\ ~connected
    /\ connected' = TRUE /\ UNCHANGED streamed
    /\ UNCHANGED <<running, active_asset_ids, sending, inbox, announced, drops>>

\* _run_connection up to the receive loop: the set is sent unless it is empty,
\* before the command loop starts.  A failed attempt changes nothing.
Connect ==
    /\ running /\ ~connected
    /\ connected' = TRUE /\ streamed' = active_asset_ids
    /\ UNCHANGED <<running, active_asset_ids, sending, inbox, announced, drops>>

\* The set after a command.
After(set, command) == IF command.operation = "subscribe" THEN set \cup command.asset_ids
                                                          ELSE set \ command.asset_ids

\* _command_loop: get and the change of the set, without an await in between.
\* queue is the command queue, which this step takes the head of.
TakeCommand(queue) ==
    /\ connected /\ ~sending /\ queue # <<>>
    /\ active_asset_ids' = After(active_asset_ids, Head(queue))
    /\ sending' = TRUE
    /\ UNCHANGED <<running, connected, streamed, inbox, announced, drops>>

Send == /\ sending
        /\ sending' = FALSE /\ streamed' = active_asset_ids
        /\ UNCHANGED <<running, connected, active_asset_ids, inbox, announced, drops>>

\* Mutant: the set ends with the connection.
Disconnect_Forget == /\ connected' = FALSE /\ sending' = FALSE /\ streamed' = {} /\ inbox' = {}
                     /\ active_asset_ids' = {}
                     /\ UNCHANGED <<running, announced>>

\* The connection ends (closed, a send or a callback raised): the finally clause
\* cancels the command loop; queue.get leaves its command in the queue.
Disconnect == /\ connected' = FALSE /\ sending' = FALSE /\ streamed' = {} /\ inbox' = {}
              /\ UNCHANGED <<running, active_asset_ids, announced>>

Drop == connected /\ drops < MaxDrops /\ drops' = drops + 1 /\ Disconnect

\* The server announces that a market it streams has been resolved.
Resolve(a) == /\ a \in streamed \ inbox /\ Cardinality(announced) < MaxResolved
              /\ inbox' = inbox \cup {a} /\ announced' = announced \cup {a}
              /\ UNCHANGED <<running, connected, active_asset_ids, sending, streamed, drops>>

\* The receive loop hands the event to on_market_resolved of app.py, which
\* marks the market in the store.  The client's own set stays as it is.
MarketResolved(a, time) ==
    /\ a \in inbox
    /\ SetMarketActive({a}, FALSE, time)
    /\ inbox' = inbox \ {a}
    /\ UNCHANGED <<running, connected, active_asset_ids, sending, streamed, announced, drops>>
=============================================================================
