------------------------------- MODULE MCFeed -------------------------------
(* A small instance of Feed: the API lists every market, some below the *)
(* volume filter, in a fixed order.                                      *)
EXTENDS Feed, TLC, SequencesExt

MCListing(volumes) ==
    LET order == SetToSeq(Assets)
    IN [i \in 1 .. Len(order) |-> [asset |-> order[i], open |-> TRUE, excluded |-> FALSE,
                                   volume |-> volumes[order[i]], liquidity |-> 1]]
MCListings == {MCListing(volumes) : volumes \in [Assets -> 0 .. 2]}
=============================================================================
