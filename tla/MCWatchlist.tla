---------------------------- MODULE MCWatchlist ----------------------------
(* The second run finds evidence only, and every window is of one day. *)
EXTENDS Watchlist

LooseKeys == {<<2, "topic">>}
OneDay == [tier \in Tiers |-> 1]
=============================================================================
