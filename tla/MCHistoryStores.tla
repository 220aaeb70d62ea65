-------------------------- MODULE MCHistoryStores --------------------------
(* HistoryStores on small instances.                                        *)
EXTENDS HistoryStores, TLC

MCEnds == [k \in LogoutToken |-> Session]
============================================================================
