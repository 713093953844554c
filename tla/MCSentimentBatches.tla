------------------------ MODULE MCSentimentBatches ------------------------
(* Values of the constants of SentimentBatches for TLC. *)
EXTENDS SentimentBatches

MCShare == <<1, 3>>      \* of 5 texts one may be missing, of 6 two
===========================================================================
