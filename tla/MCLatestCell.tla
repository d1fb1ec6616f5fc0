---------------------------- MODULE MCLatestCell ----------------------------
(* LatestCell with two words per value, the least that can tear, and       *)
(* enough publications for a slot to be published, fetched, handed back    *)
(* and published again.                                                    *)
EXTENDS LatestCell

CONSTANTS w1, w2

MCWords == {w1, w2}
MCMaxGen == 5
=============================================================================
