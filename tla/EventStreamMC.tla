------------------------------ MODULE EventStreamMC ------------------------------
(* Two readers of one stream: one goes on reading, the other may stop for good *)
(* while its socket and its queue are full.                                    *)
EXTENDS EventStream, TLC

CONSTANTS r1, r2

MCReaders == {r1, r2}
MCSteady == {r1}
=================================================================================
