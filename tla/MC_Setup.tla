------------------------------ MODULE MC_Setup ------------------------------
(* Three tables by hand: the shipped one, all to the cloud, and one that    *)
(* names the two models; two of the four blocks, which share one road.      *)
EXTENDS Setup

MCHandTables == {[b \in Bands |-> IF b = 0 THEN "cowrie" ELSE IF b <= 2 THEN "on_device" ELSE "cloud"],
                 [b \in Bands |-> "cloud"],
                 [b \in Bands |-> IF b <= 2 THEN "on_device" ELSE "cloud"]}
=============================================================================
