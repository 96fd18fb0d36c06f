----------------------------- MODULE MC_Sessions -----------------------------
(* Three connections under a cap of two; one of them opens two channels.    *)
EXTENDS Sessions

MCConns == {"c1", "c2", "c3"}
MCShells == {"s1", "s2", "s3"}
MCConnOf == [s \in MCShells |-> IF s = "s3" THEN "c2" ELSE "c1"]
=============================================================================
