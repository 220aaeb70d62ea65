--------------------------- MODULE MCDedupBuffer ---------------------------
(* Three items of two sources, so that one source can have a batch of two   *)
(* while the other is next in the loop of a restore or a shutdown.          *)
EXTENDS DedupBuffer, TLC

CONSTANTS i1, i2, i3, grafana, wud

MCItem == {i1, i2, i3}
MCSource == {grafana, wud}
MCSourceOf == [i \in Item |-> IF i = i3 THEN wud ELSE grafana]
MCWindows == {1, 2}
=============================================================================
