------------------------- MODULE MCWatchlistDiscovery -------------------------
(* Instances of WatchlistDiscovery for TLC: one wallet of the file and two  *)
(* unknown ones with a common funder.                                       *)
EXTENDS WatchlistDiscovery

ThreeWallets == {"listed", "one", "other"}
CommonFunder == {<<"one", "other">>, <<"other", "one">>}
=============================================================================
