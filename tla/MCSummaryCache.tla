--------------------------- MODULE MCSummaryCache ---------------------------
(***************************************************************************)
(* Four requests whose summaries take 1, 2, 3 and 7 bytes of a cache of 5: *)
(* entries fill it exactly, evict one or several others, or never fit.     *)
(***************************************************************************)
EXTENDS SummaryCache

MCKeys == {"k1", "k2", "k3", "k7"}
MCSize == [k \in MCKeys |-> CASE k = "k1" -> 1 [] k = "k2" -> 2
                              [] k = "k3" -> 3 [] k = "k7" -> 7]
=============================================================================
