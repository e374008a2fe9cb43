------------------------------- MODULE SummariesMC -------------------------------
(* Summaries for TLC: the recording begins at midnight or at a quarter to two in the *)
(* afternoon, and a stretch lasts one slot, less than a slope or most of a day.        *)
EXTENDS Summaries
==================================================================================
