--------------------------------- MODULE Folding ---------------------------------
(*****************************************************************************)
(* The notifier's snapshots and how they are made coarser (folding.py,       *)
(* queries.py, clock.py), and what Slack will draw of them (charts.py).      *)
(*                                                                           *)
(* Time is the number of a quarter hour, counted from a JST midnight.  Rows   *)
(* are a function from the quarter hour a row starts at, without a hole: the *)
(* table is dense.  A ratio is in percent, an average a total and its weight.*)
(*****************************************************************************)
EXTENDS Integers, FiniteSetsExt

CONSTANT None

ASSUME NoneAssumption == None \notin Int /\ None \notin [total : Nat, weight : Nat]

SLOT_SECONDS == 900
SlotsPerDay == 96
MAX_POINTS == 20

\* A snapshot nothing was heard in.
Silent == [covered |-> 0, start |-> None, end |-> None, discharged |-> 0, charged |-> 0,
           external |-> None]

-----------------------------------------------------------------------------
(* The calendar, JST. *)

Midnight(at) == at - (at % SlotsPerDay)

\* The first seven o'clock strictly after the moment.
NextMorning(at) ==
    LET morning == Midnight(at) + 28
    IN  IF morning <= at THEN morning + SlotsPerDay ELSE morning

Dates(from, to) == {Midnight(at) : at \in from..(to - 1)}

-----------------------------------------------------------------------------
(* The rows of a window, [from, to): queries.snapshots. *)

Window(rows, from, to) ==
    [at \in {a \in DOMAIN rows : from <= a /\ a < to} |-> rows[at]]

-----------------------------------------------------------------------------
(* folding.fold. *)

\* (mutant) a group is the next rows, wherever a boundary falls
GroupInList(rows, at, factor) ==
    LET first == Min(DOMAIN rows) IN at - ((at - first) % factor)

\* group_start: a group starts on a boundary of its grain.
Group(rows, at, factor) == Midnight(at) + ((at - Midnight(at)) \div factor) * factor

Groups(rows, factor) == {Group(rows, at, factor) : at \in DOMAIN rows}

\* weighted: by the seconds each row covers, over the rows that have the value.
Weighted(rows, value, at) ==
    LET present == {a \in at : value[a] # None}
        weight == SumFunction([a \in present |-> rows[a].covered])
    IN  IF weight = 0 THEN None
        ELSE [total |-> SumFunction([a \in present |-> value[a] * rows[a].covered]), weight |-> weight]

\* _folded: a charge is read at the ends of what was observed.
Folded(rows, at) ==
    LET observed == {a \in at : rows[a].covered > 0}
    IN  [covered |-> SumFunction([a \in at |-> rows[a].covered]),
         start |-> IF observed = {} THEN None ELSE rows[Min(observed)].start,
         end |-> IF observed = {} THEN None ELSE rows[Max(observed)].end,
         discharged |-> SumFunction([a \in at |-> rows[a].discharged]),
         charged |-> SumFunction([a \in at |-> rows[a].charged]),
         external |-> Weighted(rows, [a \in at |-> rows[a].external], at)]

Fold(rows, factor) ==
    LET group == [at \in DOMAIN rows |-> Group(rows, at, factor)]
    IN  [g \in Groups(rows, factor) |-> Folded(rows, {at \in DOMAIN rows : group[at] = g})]

-----------------------------------------------------------------------------
(* charts: what Slack can be asked to draw.  A series is a function of its points. *)

Complete(series) == \A p \in DOMAIN series : series[p] # None

Drawable(series) ==
    /\ DOMAIN series # {} /\ Cardinality(DOMAIN series) <= MAX_POINTS
    /\ Complete(series)
==================================================================================
