------------------------------ MODULE MCSources -----------------------------
(* All sources.  Four episodes with MaxHops = 2 are the least for which    *)
(* the walk of webアクション ends early; two entries, for a duplicate.       *)
EXTENDS Sources

MCSources_All == DOMAIN Adapters
=============================================================================
