--------------------------------- MODULE Weekly ----------------------------------
(*****************************************************************************)
(* The weekly summary (weekly.py): the seven days that ended at the last      *)
(* midnight, folded to hours and gathered by the day.                         *)
(*****************************************************************************)
EXTENDS Folding

WEEK == 7 * SlotsPerDay
BY_HOUR == 4

\* The window ends at a midnight, so that its days are whole.
WeekEnd(now) == Midnight(now)

Hours(rows, now) == Fold(Window(rows, WeekEnd(now) - WEEK, WeekEnd(now)), BY_HOUR)

Days(now) == Dates(WeekEnd(now) - WEEK, WeekEnd(now))

\* _daily: both ends of an hour are readings of its day.
Readings(hours, day) ==
    LET heard == {h \in DOMAIN hours : Midnight(h) = day /\ hours[h].covered > 0}
    IN  {hours[h].start : h \in heard} \union {hours[h].end : h \in heard}

DailyEnergy(hours, day) ==
    LET at == {h \in DOMAIN hours : Midnight(h) = day}
        readings == Readings(hours, day) \ {None}
    IN  [discharged |-> SumFunction([h \in at |-> hours[h].discharged]),
         charged |-> SumFunction([h \in at |-> hours[h].charged]),
         lowest |-> IF readings = {} THEN None ELSE Min(readings),
         highest |-> IF readings = {} THEN None ELSE Max(readings)]

\* The external input of an hour, in its seconds times percent.
Plugged(hour) == IF hour.external = None THEN 0
                 ELSE (hour.external.total * hour.covered) \div hour.external.weight

\* summarize.  The silent hours are those between the first heard and the last.
WeeklySummary(rows, now) ==
    LET hours == Hours(rows, now)
        heard == {h \in DOMAIN hours : hours[h].covered > 0}
        plugged == {h \in DOMAIN hours : Plugged(hours[h]) > 0}
    IN  [discharged |-> SumFunction([h \in DOMAIN hours |-> hours[h].discharged]),
         externalSeconds |-> SumFunction([h \in plugged |-> Plugged(hours[h])]),
         gaps |-> Cardinality({h \in DOMAIN hours \ heard :
                                  \E a, b \in heard : a < h /\ h < b}),
         missing |-> {d \in Days(now) : \A h \in heard : Midnight(h) # d},
         daily |-> [d \in Days(now) |-> DailyEnergy(hours, d)]]

\* build's charts: a day without readings is left out of the second.
EnergyChart(summary) == [d \in DOMAIN summary.daily |-> summary.daily[d].discharged]

SwingChart(summary) ==
    LET recorded == {d \in DOMAIN summary.daily : summary.daily[d].lowest # None}
    IN  [d \in recorded |-> summary.daily[d].lowest]
==================================================================================
