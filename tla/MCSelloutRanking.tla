-------------------------- MODULE MCSelloutRanking --------------------------
(* Instances of SelloutRanking for TLC.                                    *)
EXTENDS SelloutRanking, TLC

CONSTANTS s1, s2, s3
=============================================================================
