-------------------------------- MODULE SessionMC --------------------------------
(* Session for TLC: one kind of message in two fragments, one in three. *)
EXTENDS Session

CONSTANTS short, long

FragmentsMC == [k \in {short, long} |-> IF k = short THEN 2 ELSE 3]
==================================================================================
