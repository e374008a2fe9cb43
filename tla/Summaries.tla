-------------------------------- MODULE Summaries --------------------------------
(*****************************************************************************)
(* The two summaries over a warehouse that fills up: the cooler runs on its   *)
(* battery, is plugged in, or is off together with the Pi that records it, a  *)
(* stretch at a time.  The jobs fire at the end of any stretch, and before    *)
(* anything was heard.                                                        *)
(*****************************************************************************)
EXTENDS Daily, Weekly

CONSTANTS
    Lengths,        \* how many slots a stretch may last
    Starts,         \* quarter hours of a day the story may begin at
    MaxStretches    \* bound: stretches

ASSUME BoundsAssumption ==
    Lengths \subseteq Nat \ {0} /\ Starts \subseteq 0..(SlotsPerDay - 1) /\ MaxStretches \in Nat

VARIABLES
    since,          \* the first slot that was heard
    now,            \* the first slot that has not begun
    rows,           \* fact_cooler_snapshot
    latest,         \* the last row of fact_cooler_state_update, or None
    charge,         \* the charge of the battery, heard or not
    stretches       \* how many stretches there have been

vars == <<since, now, rows, latest, charge, stretches>>

\* What a stretch is made of: how much of each slot is heard, the external power, and
\* how far the charge falls between two slots and within one.  A battery that is empty
\* runs nothing.
Modes == [
    coasting |-> [covered |-> 900, external |-> 0, between |-> 1, within |-> 0],
    draining |-> [covered |-> 900, external |-> 0, between |-> 0, within |-> 1],
    brief    |-> [covered |-> 60, external |-> 0, between |-> 1, within |-> 0],
    charging |-> [covered |-> 900, external |-> 100, between |-> 0, within |-> -1],
    off      |-> [covered |-> 0, external |-> None, between |-> 1, within |-> 0]]

\* What the last row says: the charge, whether it is plugged in, and the end of its slot.
Readable == [percent : 0..100, plugged : BOOLEAN, at : Nat]

ASSUME ReadingAssumption == None \notin Readable

Percent(p) == Max({0, Min({100, p})})

\* The i-th slot of a stretch that is heard and begins with the charge at p.
Row(mode, p, i) ==
    [covered |-> mode.covered, external |-> mode.external,
     start |-> Percent(p - mode.between * i - mode.within * (i - 1)),
     end |-> Percent(p - mode.between * i - mode.within * i),
     discharged |-> Max({0, mode.between + mode.within}),
     charged |-> Max({0, -mode.within})]

Init ==
    /\ since \in Starts /\ now = since
    /\ rows = << >>
    /\ latest = None
    /\ charge = 100
    /\ stretches = 0

Passes(mode, n) ==
    /\ stretches < MaxStretches
    /\ stretches' = stretches + 1
    /\ now' = now + n
    /\ charge' = Percent(charge - (mode.between + mode.within) * n)

\* A stretch that is heard.  The table runs from the first slot that was heard to the
\* last: the slots of a silence get their rows once it is over.
Heard(mode, n) ==
    /\ mode.covered > 0
    /\ charge >= (mode.between + mode.within) * n
    /\ Passes(mode, n)
    /\ since' = IF latest = None THEN now ELSE since
    /\ rows' = [at \in since'..(now + n - 1) |->
                   IF at \in DOMAIN rows THEN rows[at]
                   ELSE IF at < now THEN Silent ELSE Row(mode, charge, at - now + 1)]
    /\ latest' = [percent |-> charge', plugged |-> mode.external > 0, at |-> now']

\* A stretch with the Pi off.
Off(mode, n) ==
    /\ mode.covered = 0
    /\ Passes(mode, n)
    /\ UNCHANGED <<since, rows, latest>>

Next == \E m \in DOMAIN Modes, n \in Lengths : Heard(Modes[m], n) \/ Off(Modes[m], n)

Spec == Init /\ [][Next]_vars

-----------------------------------------------------------------------------
(* Properties. *)

Today == DailySummary(rows, latest, now)

\* "one point over the limit is a chart Slack declines to draw at all" (_fold_factor):
\* whenever anything was heard in the two days up to now, however long it has been silent
\* since, the daily message has its chart, and the weekly one has both of its own.
ChartsAreDrawn ==
    LET week == WeeklySummary(rows, now)
    IN  /\ (\E at \in DOMAIN rows : at >= now - WINDOW /\ rows[at].covered > 0)
               => Len(Today.charts) = 1
        /\ Drawable(EnergyChart(week))
        /\ Drawable(SwingChart(week)) \/ DOMAIN week.daily = week.missing

\* The silent hours of a week, told from its quarter hours: nothing heard in the hour,
\* and something before and after.
SilentHours(week) ==
    LET heard == {s \in DOMAIN week : week[s].covered > 0}
    IN  {h \in Groups(week, BY_HOUR) :
            /\ \A s \in heard : Group(week, s, BY_HOUR) # h
            /\ \E a, b \in heard : a < h /\ h < b}

\* "a group starts on a boundary of the grain it is making", "sums add" and "state of
\* charge is read at the ends" (folding.py), over the grain the chart chose and the
\* hours of the week: a point holds the slots its label promises, no second, no watt
\* hour and no second on external power is lost or counted twice, and what the week says
\* of a day or of its gaps, gathered from hours, is what the quarter hours say.
FoldingLosesNothing ==
    LET slots == Window(rows, now - WINDOW, now)
        factor == FoldFactor(slots)
        points == Fold(slots, factor)
        week == Window(rows, WeekEnd(now) - WEEK, WeekEnd(now))
        summary == WeeklySummary(rows, now)
    IN  /\ \A p \in DOMAIN points : points[p].covered <= factor * SLOT_SECONDS
        /\ \A p \in DOMAIN points : \A s \in (DOMAIN slots) \intersect p..(p + factor - 1) :
               slots[s].covered > 0 => points[p].covered >= slots[s].covered
        /\ SumFunction([p \in DOMAIN points |-> points[p].covered])
               = SumFunction([s \in DOMAIN slots |-> slots[s].covered])
        /\ summary.discharged = SumFunction([s \in DOMAIN week |-> week[s].discharged])
        /\ \A d \in Days(now) :
               summary.daily[d].discharged
                   = SumFunction([s \in {a \in DOMAIN week : Midnight(a) = d} |-> week[s].discharged])
        /\ summary.externalSeconds
               = SumFunction([s \in DOMAIN week |->
                                 IF week[s].external = None THEN 0
                                 ELSE week[s].covered * week[s].external])
        /\ summary.gaps = Cardinality(SilentHours(week))

\* "the change between two slots belongs to neither and adding them up quietly drops
\* it" (slope_percent_per_hour): the slope takes in every fall of the charge within its
\* slots and between two of them that follow each other, and none over a silence or
\* while plugged in.
SlopeMissesNothing ==
    LET slots == Window(rows, now - WINDOW, now)
        used == Recent(slots)
        joined == {a \in used : a + 1 \in used}
        slope == Slope(slots)
    IN  slope # None =>
            slope.change = SumFunction([a \in used |-> slots[a].end - slots[a].start])
                           + SumFunction([a \in joined |-> slots[a + 1].start - slots[a].end])

\* Whichever comes first is said (_lead), but the time left is counted from now and the
\* forecast from the reading: a battery that is given a charge for the morning gets
\* below zero by then by no more than it falls between the reading and now.
OutlookComesFirst ==
    LET slope == Slope(Window(rows, now - WINDOW, now))
    IN  Today # None /\ Today.lead.says = "morning" =>
            Extrapolated(latest, slope, NextMorning(now))
                >= slope.change * (now - latest.at) * SLOT_SECONDS

\* What the message says of the hours to come rests on the battery's own record.
OutlookHolds == SlopeMissesNothing /\ OutlookComesFirst
==================================================================================
