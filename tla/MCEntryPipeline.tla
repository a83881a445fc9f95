-------------------------- MODULE MCEntryPipeline --------------------------
(* Instances of EntryPipeline for TLC: four whale buys, three of them on    *)
(* one token; three of the whales are in one cluster.                       *)
EXTENDS EntryPipeline

FourEntries == 1..4
FourTokens == <<"t1", "t1", "t1", "t2">>
FourPeers == << {1, 2, 4}, {1, 2, 4}, {}, {1, 2, 4} >>

ThreeEntries == 1..3
ThreeTokens == <<"t1", "t1", "t2">>
ThreePeers == << {1}, {}, {} >>
=============================================================================
