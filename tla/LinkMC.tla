---- MODULE LinkMC ----
EXTENDS Link, TLC
CONSTANTS c1, c2, warm, cold
MCCommands == {c1, c2}
MCValues == {warm, cold}
Symmetry == Permutations(MCCommands) \cup Permutations(MCValues)
====
