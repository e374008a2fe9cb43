---------------------------------- MODULE Daily ----------------------------------
(*****************************************************************************)
(* The daily summary (daily.py): the charge, where it is going, and the       *)
(* chart of it.  A slope is a change of charge and the seconds it took; what  *)
(* is divided in the code is compared here after multiplying out.            *)
(*****************************************************************************)
EXTENDS Folding, Sequences

WINDOW == 2 * SlotsPerDay
SLOPE_SLOTS == 12
FOLD_FACTORS == <<1, 2, 4, 8, 12, 16, 24, 48, 96>>

-----------------------------------------------------------------------------
(* The slope. *)

OnBattery(row) ==
    row.covered > 0 /\ row.start # None /\ row.end # None /\ row.external \in {0, None}

\* The last of the slots on the battery, as many as the slope is read from.
Recent(rows) ==
    LET battery == {at \in DOMAIN rows : OnBattery(rows[at])}
    IN  {at \in battery : Cardinality({b \in battery : b >= at}) <= SLOPE_SLOTS}

\* The ends of the stretches they make: no silence and no external power between.
Firsts(at) == {a \in at : a - 1 \notin at}
Lasts(at) == {a \in at : a + 1 \notin at}

\* (mutant) the changes within the slots are added up
DeltasAdded(rows, at) == SumFunction([a \in at |-> rows[a].end - rows[a].start])

\* Each stretch from its first reading to its last.
Change(rows, at) ==
    SumFunction([a \in Lasts(at) |-> rows[a].end]) - SumFunction([a \in Firsts(at) |-> rows[a].start])

Slope(rows) ==
    LET recent == Recent(rows)
    IN  IF recent = {} THEN None
        ELSE [change |-> Change(rows, recent),
              seconds |-> SumFunction([a \in recent |-> rows[a].covered])]

-----------------------------------------------------------------------------
(* The outlook, from the last reading there is. *)

PLUGGED_IN == "plugged_in"
NO_SLOPE == "no_slope"

ASSUME ReasonsAssumption == None \notin {PLUGGED_IN, NO_SLOPE}

Refused(latest, slope) ==
    IF latest.plugged THEN PLUGGED_IN ELSE IF slope = None THEN NO_SLOPE ELSE None

\* What the slope makes of the charge by then, times the seconds of the slope.
Extrapolated(latest, slope, by) ==
    latest.percent * slope.seconds + slope.change * (by - latest.at) * SLOT_SECONDS

\* projected_state_of_charge, likewise.
Projected(latest, slope, by) ==
    Max({0, Min({100 * slope.seconds, Extrapolated(latest, slope, by)})})

Falling(slope) == slope.change < 0

\* hours_remaining: the battery is empty before so many slots have passed.
EmptyWithin(latest, slope, slots) ==
    Falling(slope) /\ latest.percent * slope.seconds < -slope.change * slots * SLOT_SECONDS

\* _lead and _text: whichever comes first.
Lead(latest, slope, now) ==
    LET morning == NextMorning(now)
        refused == Refused(latest, slope)
    IN  IF refused # None THEN [says |-> refused]
        ELSE IF EmptyWithin(latest, slope, morning - now) THEN [says |-> "empty"]
        ELSE [says |-> "morning", percent |-> Projected(latest, slope, morning)]

-----------------------------------------------------------------------------
(* The chart. *)

\* _latest_stretch: back to the last silence.
LatestStretch(rows) ==
    LET silent == {at \in DOMAIN rows : rows[at].covered = 0}
        from == IF silent = {} THEN 0 ELSE Max(silent) + 1
    IN  [at \in {a \in DOMAIN rows : a >= from} |-> rows[at]]

\* (mutant) the points are the slots divided by the factor
PointsDivided(rows, factor) == (Cardinality(DOMAIN rows) + factor - 1) \div factor

Points(rows, factor) == Cardinality(Groups(rows, factor))

\* _fold_factor: the first that Slack will draw, or else the last.
FoldFactor(rows) ==
    LET fits == {i \in DOMAIN FOLD_FACTORS : Points(rows, FOLD_FACTORS[i]) <= MAX_POINTS}
    IN  FOLD_FACTORS[IF fits = {} THEN Len(FOLD_FACTORS) ELSE Min(fits)]

ChargeChart(recorded) ==
    LET points == Fold(recorded, FoldFactor(recorded))
    IN  [p \in DOMAIN points |-> points[p].end]

-----------------------------------------------------------------------------
(* build: nothing when the cooler has never been heard from. *)

DailySummary(rows, latest, now) ==
    LET slots == Window(rows, now - WINDOW, now)
        recorded == LatestStretch(slots)
        chart == ChargeChart(recorded)
    IN  IF latest = None THEN None
        ELSE [lead |-> Lead(latest, Slope(slots), now),
              charts |-> IF DOMAIN recorded # {} /\ Drawable(chart) THEN <<chart>> ELSE << >>]
==================================================================================
