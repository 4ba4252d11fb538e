-------------------------------- MODULE Feed --------------------------------
(***************************************************************************)
(* The scout's feed: gatekeeper, store, command queue, websocket client    *)
(* and the application that owns them (src/sentinel/app.py).  The          *)
(* application may die at any step and is started again by its supervisor; *)
(* only tracked_markets survives.                                          *)
(***************************************************************************)
EXTENDS Gatekeeper, WsClient

CONSTANT MaxRestarts     \* bound: times the application dies
VARIABLE restarts

vars == <<tracked_markets, gatekeeper_vars, client_vars, running, restarts>>

Init == tracked_markets = <<>> /\ GatekeeperInit /\ ClientInit /\ restarts = 0

\* One step of run_once; the first run_once is awaited before the tasks exist.
GatekeeperStep(action) ==
    /\ action
    /\ running' = (running \/ gk'.pc = "sleeping")
    /\ UNCHANGED <<client_vars, restarts>>

Poll == \E listing \in Listings : GatekeeperStep(Fetch(listing))
StoreCall == GatekeeperStep(Upsert) \/ GatekeeperStep(Activate) \/ GatekeeperStep(Deactivate)
PollFails == GatekeeperStep(GatekeeperFault)

\* What the websocket client does to the rest of the application.
ClientConnects == Connect /\ UNCHANGED <<tracked_markets, gatekeeper_vars, restarts>>
ClientTakesCommand == /\ TakeCommand(command_queue)
                      /\ command_queue' = Tail(command_queue)
                      /\ UNCHANGED <<tracked_markets, gk, faults, missed, restarts>>
ClientSends == Send /\ UNCHANGED <<tracked_markets, gatekeeper_vars, restarts>>
ConnectionLost == Drop /\ UNCHANGED <<tracked_markets, gatekeeper_vars, restarts>>
ServerResolves == /\ \E a \in Assets : Resolve(a)
                  /\ UNCHANGED <<tracked_markets, gatekeeper_vars, restarts>>
ClientResolves == /\ \E a \in Assets : MarketResolved(a, PollTime)
                  /\ UNCHANGED <<gatekeeper_vars, restarts>>

\* mark_market_resolved raises: the exception leaves the receive loop and
\* run_forever reconnects; the event is lost.
ResolutionFails == /\ inbox # {} /\ faults < MaxFaults /\ faults' = faults + 1
                   /\ Disconnect /\ drops' = drops
                   /\ UNCHANGED <<tracked_markets, gk, command_queue, missed, restarts>>

\* The process dies and is started again: initialize loads tracked_markets,
\* everything else starts empty.
Restart == /\ restarts < MaxRestarts /\ restarts' = restarts + 1
           /\ gk' = Idle("starting") /\ command_queue' = <<>>
           /\ running' = FALSE /\ connected' = FALSE /\ active_asset_ids' = {}
           /\ sending' = FALSE /\ streamed' = {} /\ inbox' = {}
           /\ missed' = ActiveAssetIds
           /\ UNCHANGED <<tracked_markets, faults, announced, drops>>

Next == \/ Poll \/ StoreCall \/ PollFails
        \/ ClientConnects \/ ClientTakesCommand \/ ClientSends \/ ConnectionLost
        \/ ServerResolves \/ ClientResolves \/ ResolutionFails
        \/ Restart

Spec == Init /\ [][Next]_vars

\* The event loop runs every task that can go on, and run_forever reconnects
\* until it succeeds.  Polls, losses and failures need not happen.
Fairness == /\ WF_vars(StoreCall) /\ WF_vars(ClientConnects)
            /\ WF_vars(ClientTakesCommand) /\ WF_vars(ClientSends)
LiveSpec == Spec /\ Fairness
-----------------------------------------------------------------------------
TypeOK ==
    /\ Known \subseteq Assets
    /\ \A a \in Known : tracked_markets[a] \in [active : BOOLEAN, subscribed_at : {0, PollTime}]
    /\ gk.pc \in {"starting", "sleeping", "failed"}
    /\ gk.todo \in {<<>>, <<"upsert">>, <<"upsert", "activate">>, <<"upsert", "deactivate">>,
                   <<"upsert", "activate", "deactivate">>, <<"activate">>,
                   <<"activate", "deactivate">>, <<"deactivate">>}
    /\ gk.tracked \cup gk.new \cup gk.removed \cup missed \cup announced \subseteq Assets
    /\ active_asset_ids \cup streamed \cup inbox \subseteq Assets
    /\ {running, connected, sending} \subseteq BOOLEAN
    /\ \A i \in DOMAIN command_queue :
         command_queue[i] \in [operation : {"subscribe", "unsubscribe"}, asset_ids : SUBSET Assets]
    /\ Len(command_queue) <= QueueBound + 1

\* Where the queue and the commands of the run under way will take the client
\* and the store: an id is in the set when the last command naming it says so.
Pending == command_queue \o (IF gk.todo = <<>> THEN <<>> ELSE Commands(gk))
WillStream(a) ==
    LET naming == {i \in DOMAIN Pending : a \in Pending[i].asset_ids}
    IN \/ naming = {} /\ a \in active_asset_ids
       \/ \E i \in naming : Pending[i].operation = "subscribe" /\ \A j \in naming : j <= i
WillDo(call) == \E i \in DOMAIN gk.todo : gk.todo[i] = call
WillBeActive(a) ==
    \/ WillDo("activate") /\ a \in gk.new
    \/ a \in ActiveAssetIds /\ ~(WillDo("deactivate") /\ a \in gk.removed)

\* The store and the client never drift apart: when the calls and commands under
\* way have been carried out, every active market is streamed (but those a
\* failed run or a restart has cut off), and what is streamed beyond them has
\* been resolved.  Reconnects, resolutions between the calls of a run and
\* commands cut off in mid-send included.
SubscriptionAccount ==
    \A a \in Assets : /\ WillBeActive(a) /\ a \notin missed => WillStream(a)
                      /\ WillStream(a) => WillBeActive(a) \/ a \in announced

\* End to end, whenever nothing is under way on an open connection: the server
\* streams every active market that was not cut off.
ActiveStreamed ==
    connected /\ ~sending /\ command_queue = <<>> /\ gk.todo = <<>> =>
        ActiveAssetIds \ missed \subseteq streamed

\* max_markets holds of the store after every run that went through, whatever
\* failed runs and restarts left behind: the next complete run repairs it.
MarketsCapped == gk.pc = "sleeping" /\ gk.todo = <<>> => Cardinality(ActiveAssetIds) <= MaxMarkets

\* An active market is streamed sooner or later, unless it stops being active
\* or is cut off by a failed run or a restart.
EventuallyStreamed ==
    \A a \in Assets :
        a \in ActiveAssetIds \ missed ~> a \in streamed \/ a \notin ActiveAssetIds \/ a \in missed
=============================================================================
