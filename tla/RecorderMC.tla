------------------------------- MODULE RecorderMC -------------------------------
(* A collector, started twice, and a gateway, started twice.  Two connections: *)
(* the one in use, and one the gateway has not yet seen the end of.            *)
EXTENDS Recorder, TLC

CONSTANTS c1, c2

MCReaders == {c1, c2}
=================================================================================
