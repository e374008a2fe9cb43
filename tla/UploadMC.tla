------------------------------- MODULE UploadMC -------------------------------
(* Two streams over two days; in CoolerOnce the cooler is heard on the first.  *)
EXTENDS Upload, TLC

CONSTANTS u1, u2

MCFileOrder == << <<"cooler", 1>>, <<"cooler", 2>>, <<"events", 1>>, <<"events", 2>> >>
CoolerOnce == << <<"cooler", 1>>, <<"events", 1>>, <<"events", 2>> >>

Symmetry == Permutations({u1, u2})
=================================================================================
