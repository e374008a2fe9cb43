------------------------------ MODULE SignalsProofs ------------------------------
(*****************************************************************************)
(* Proofs about the cloud side, for any tables and any bounds.               *)
(*                                                                           *)
(* Transform: no row is hidden by a mark.  What has to be added to           *)
(* NothingHidden to make it inductive is an order between the raw tables,    *)
(* what was counted, what was built, what was announced and the mark: at     *)
(* every point of a run the later of two of them covers the earlier one.     *)
(*                                                                           *)
(* Signals: the dead man's switch hears only of clean runs, and no row is    *)
(* hidden when the services run together.                                    *)
(*****************************************************************************)
EXTENDS Signals, TLAPS

\* The mark: what it says was given to a build is in the tables and was announced.
MarkIsCovered ==
    \A t \in Tables : Covers(raw[t], mark[t]) /\ Covers(announced[t], mark[t])

\* A run that counts has read a mark of which all was announced.
RunMarkIsCovered ==
    job.phase = "count" => \A t \in Tables : Covers(announced[t], job.mark[t])

\* What was counted is in the tables.
CountIsCovered == \A i \in DOMAIN job.counts : Covers(raw[Schemas[i]], job.counts[i])

\* What was built has all that was counted, and all that was marked.
BuildIsCovered ==
    job.phase = "publish" =>
        /\ Counted
        /\ \A t \in Tables : Covers(job.built[t], mark[t])
        /\ \A i \in DOMAIN job.counts : Covers(job.built[Schemas[i]], job.counts[i])

\* What is about to be marked was announced.
CountIsAnnounced ==
    job.phase = "mark" =>
        /\ Counted
        /\ \A i \in DOMAIN job.counts : Covers(announced[Schemas[i]], job.counts[i])

Inv ==
    /\ TransformTypeOK
    /\ MarkIsCovered /\ RunMarkIsCovered /\ CountIsCovered
    /\ BuildIsCovered /\ CountIsAnnounced

-----------------------------------------------------------------------------

\* One holding of a table covers another that is covered by a third.
LEMMA CoversTransitive ==
    ASSUME NEW a \in Holding, NEW b \in Holding, NEW c \in Holding, Covers(a, b), Covers(b, c)
    PROVE  Covers(a, c)
BY BoundsAssumption DEF Covers, Holding

\* A holding covers itself.
LEMMA CoversItself == ASSUME NEW a \in Holding PROVE Covers(a, a)
BY BoundsAssumption DEF Covers, Holding

\* Nothing is covered by everything.
LEMMA CoversNothing == ASSUME NEW a \in Holding PROVE Covers(a, [age |-> 0, rows |-> 0])
BY BoundsAssumption DEF Covers, Holding

\* Empty tables, and a mark that says nothing, have their type.
LEMMA EmptyType == Empty \in [Tables -> Holding] /\ NoMark \in [Tables -> Holding]
BY BoundsAssumption DEF Empty, NoMark, Holding

\* The counts by table are the counts in their order.
LEMMA CountsByTableType ==
    ASSUME TransformTypeOK, Counted
    PROVE  /\ CountsByTable \in [Tables -> Holding]
           /\ \A t \in Tables : \E i \in DOMAIN job.counts :
                  Schemas[i] = t /\ CountsByTable[t] = job.counts[i]
<1>1. DOMAIN job.counts = DOMAIN Schemas
    BY SchemasAssumption DEF TransformTypeOK, Counted
<1>2. ASSUME NEW t \in Tables
      PROVE  \E i \in DOMAIN job.counts :
                 Schemas[i] = t /\ CountsByTable[t] = job.counts[i] /\ job.counts[i] \in Holding
  <2> DEFINE i == CHOOSE j \in DOMAIN Schemas : Schemas[j] = t
  <2>1. i \in DOMAIN Schemas /\ Schemas[i] = t
      BY DEF Tables
  <2>2. CountsByTable[t] = job.counts[i]
      BY DEF CountsByTable
  <2>3. job.counts[i] \in Holding
      BY <1>1, <2>1 DEF TransformTypeOK
  <2> QED BY <1>1, <2>1, <2>2, <2>3
<1> QED BY <1>2 DEF CountsByTable

-----------------------------------------------------------------------------

\* It all starts with nothing.
LEMMA InitInv == TransformInit => Inv
<1> SUFFICES ASSUME TransformInit PROVE Inv
    OBVIOUS
<1>1. job.phase = "none" /\ job.counts = <<>>
    BY DEF TransformInit, NoJob
<1>2. TransformTypeOK
    BY EmptyType, SchemasAssumption DEF TransformInit, TransformTypeOK, NoJob
<1>3. MarkIsCovered
    BY EmptyType, CoversNothing DEF TransformInit, MarkIsCovered, Empty, NoMark
<1> QED
    BY <1>1, <1>2, <1>3 DEF Inv, RunMarkIsCovered, CountIsCovered, BuildIsCovered, CountIsAnnounced

\* A run that is over leaves the tables and the mark as they were.
LEMMA EndInv ==
    ASSUME Inv, job' = NoJob, UNCHANGED <<raw, mark, announced>>
    PROVE  Inv'
<1>1. job'.phase = "none" /\ job'.counts = <<>>
    BY DEF NoJob
<1>2. TransformTypeOK'
    BY EmptyType, SchemasAssumption DEF Inv, TransformTypeOK, NoJob
<1> QED
    BY <1>1, <1>2 DEF Inv, MarkIsCovered, RunMarkIsCovered, CountIsCovered, BuildIsCovered,
                      CountIsAnnounced, Covers

\* Tables that only grow, or are made anew, go on covering what they covered.
LEMMA RawInv ==
    ASSUME Inv, raw' \in [Tables -> Holding], \A t \in Tables : Covers(raw'[t], raw[t]),
           UNCHANGED <<mark, job, announced>>
    PROVE  Inv'
<1>1. TransformTypeOK'
    BY DEF Inv, TransformTypeOK
<1>2. MarkIsCovered'
    BY CoversTransitive DEF Inv, MarkIsCovered, TransformTypeOK
<1>3. CountIsCovered'
  <2> SUFFICES ASSUME NEW i \in DOMAIN job.counts
               PROVE  Covers(raw'[Schemas[i]], job.counts[i])
      BY DEF CountIsCovered
  <2>1. Schemas[i] \in Tables /\ job.counts[i] \in Holding
      BY SchemasAssumption DEF Inv, TransformTypeOK, Tables
  <2>2. Covers(raw[Schemas[i]], job.counts[i])
      BY DEF Inv, CountIsCovered
  <2> QED BY <2>1, <2>2, CoversTransitive DEF Inv, TransformTypeOK
<1> QED
    BY <1>1, <1>2, <1>3 DEF Inv, RunMarkIsCovered, BuildIsCovered, CountIsAnnounced, Counted, Covers

\* Rows that come, or a table that is made anew.
LEMMA TablesStep ==
    ASSUME Inv, NEW t \in Tables, Load(t) \/ Rebuild(t)
    PROVE  Inv'
<1>1. raw[t] \in Holding
    BY DEF Inv, TransformTypeOK
<1>2. /\ raw' \in [Tables -> Holding]
      /\ \A u \in Tables : Covers(raw'[u], raw[u])
  <2>1. raw \in [Tables -> Holding]
      BY DEF Inv, TransformTypeOK
  <2>2. \A u \in Tables : Covers(raw[u], raw[u])
      BY <2>1, CoversItself
  <2> SUFFICES \E h \in Holding : Covers(h, raw[t]) /\ raw' = [raw EXCEPT ![t] = h]
      BY <2>1, <2>2
  <2>3. CASE Load(t)
    <3> DEFINE h == [age |-> raw[t].age, rows |-> raw[t].rows + 1]
    <3>1. raw' = [raw EXCEPT ![t] = [raw[t] EXCEPT !.rows = raw[t].rows + 1]]
        BY <2>3 DEF Load
    <3>2. [raw[t] EXCEPT !.rows = raw[t].rows + 1] = h
        BY <1>1 DEF Holding
    <3>3. h \in Holding /\ Covers(h, raw[t])
        BY <1>1, <2>3, BoundsAssumption DEF Load, Holding, Covers
    <3> QED BY <3>1, <3>2, <3>3
  <2>4. CASE Rebuild(t)
    <3> DEFINE h == [age |-> raw[t].age + 1, rows |-> 0]
    <3>1. raw' = [raw EXCEPT ![t] = h]
        BY <2>4 DEF Rebuild
    <3>2. h \in Holding /\ Covers(h, raw[t])
        BY <1>1, <2>4, BoundsAssumption DEF Rebuild, Holding, Covers
    <3> QED BY <3>1, <3>2
  <2> QED BY <2>3, <2>4
<1>3. UNCHANGED <<mark, job, announced>>
    BY DEF Load, Rebuild
<1> QED BY <1>2, <1>3, RawInv

\* A mark that is lost says nothing was built.
LEMMA MarkLostStep == ASSUME Inv, MarkLost PROVE Inv'
<1>1. mark' = Empty /\ UNCHANGED <<raw, job, announced>>
    BY DEF MarkLost, NoMark
<1>2. TransformTypeOK'
    BY <1>1, EmptyType DEF Inv, TransformTypeOK
<1>3. MarkIsCovered'
    BY <1>1, CoversNothing DEF Inv, MarkIsCovered, TransformTypeOK, Empty
<1>4. BuildIsCovered'
    BY <1>1, CoversNothing DEF Inv, BuildIsCovered, Counted, TransformTypeOK, Empty
<1> QED
    BY <1>1, <1>2, <1>3, <1>4 DEF Inv, RunMarkIsCovered, CountIsCovered, CountIsAnnounced, Counted, Covers

\* A run reads the mark there is.
LEMMA StartStep == ASSUME Inv, Start PROVE Inv'
<1>1. /\ job' = [phase |-> "count", mark |-> mark, counts |-> <<>>, built |-> Empty]
      /\ UNCHANGED <<raw, mark, announced>>
    BY DEF Start, NoJob
<1>2. TransformTypeOK'
    BY <1>1, EmptyType, SchemasAssumption DEF Inv, TransformTypeOK
<1>3. RunMarkIsCovered'
    BY <1>1 DEF Inv, MarkIsCovered, RunMarkIsCovered, Covers
<1> QED
    BY <1>1, <1>2, <1>3 DEF Inv, MarkIsCovered, CountIsCovered, BuildIsCovered, CountIsAnnounced, Covers

\* One table more is counted, and holds what it is counted with.
LEMMA CountStep == ASSUME Inv, Count PROVE Inv'
<1> DEFINE n == Len(job.counts) + 1
<1>1. /\ job' = [job EXCEPT !.counts = Append(job.counts, raw[Schemas[n]])]
      /\ job.phase = "count" /\ UNCHANGED <<raw, mark, announced>>
    BY DEF Count
<1>2. n \in DOMAIN Schemas /\ Schemas[n] \in Tables
    BY SchemasAssumption DEF Count, Counted, Inv, TransformTypeOK, Tables
<1>3. raw[Schemas[n]] \in Holding
    BY <1>2 DEF Inv, TransformTypeOK
<1>4. TransformTypeOK'
  <2>1. job.counts \in Seq(Holding) /\ n <= Len(Schemas)
      BY <1>2, SchemasAssumption DEF Inv, TransformTypeOK
  <2>2. /\ Append(job.counts, raw[Schemas[n]]) \in Seq(Holding)
        /\ Len(Append(job.counts, raw[Schemas[n]])) = n
      BY <1>3, <2>1
  <2>3. job'.counts = Append(job.counts, raw[Schemas[n]])
      BY <1>1 DEF Inv, TransformTypeOK
  <2> HIDE DEF n
  <2> QED BY <1>1, <2>1, <2>2, <2>3 DEF Inv, TransformTypeOK
<1>5. CountIsCovered'
  <2> SUFFICES ASSUME NEW i \in DOMAIN job'.counts
               PROVE  Covers(raw[Schemas[i]], job'.counts[i])
      BY <1>1 DEF CountIsCovered
  <2>1. job'.counts = Append(job.counts, raw[Schemas[n]]) /\ job.counts \in Seq(Holding)
      BY <1>1 DEF Inv, TransformTypeOK
  <2>2. CASE i = n
      BY <1>3, <2>1, <2>2, BoundsAssumption DEF Covers, Holding
  <2>3. CASE i \in DOMAIN job.counts
      BY <2>1, <2>3 DEF Inv, CountIsCovered
  <2> QED BY <2>1, <2>2, <2>3
<1>6. job'.phase = "count" /\ job'.mark = job.mark
    BY <1>1 DEF Inv, TransformTypeOK
<1> QED
    BY <1>1, <1>4, <1>5, <1>6
       DEF Inv, MarkIsCovered, RunMarkIsCovered, BuildIsCovered, CountIsAnnounced, Covers

\* The tables are built from at least what was counted and what was marked.
LEMMA BuildStep == ASSUME Inv, Build PROVE Inv'
<1>1. /\ job' = [job EXCEPT !.phase = "publish", !.built = raw]
      /\ Counted /\ UNCHANGED <<raw, mark, announced>>
    BY DEF Build, MarkLater
<1>2. /\ job'.phase = "publish" /\ job'.built = raw
      /\ job'.counts = job.counts /\ job'.mark = job.mark
    BY <1>1 DEF Inv, TransformTypeOK
<1>3. TransformTypeOK'
    BY <1>1 DEF Inv, TransformTypeOK
<1>4. CountIsCovered'
    BY <1>1, <1>2 DEF Inv, CountIsCovered, Covers
<1>5. BuildIsCovered'
    BY <1>1, <1>2 DEF Inv, BuildIsCovered, CountIsCovered, MarkIsCovered, Counted, Covers
<1> QED
    BY <1>1, <1>2, <1>3, <1>4, <1>5
       DEF Inv, MarkIsCovered, RunMarkIsCovered, CountIsAnnounced, Covers

\* What is announced covers the mark still, and what is about to be marked.
LEMMA AnnounceStep == ASSUME Inv, Announce PROVE Inv'
<1>1. /\ job' = [job EXCEPT !.phase = "mark"] /\ announced' = job.built
      /\ job.phase = "publish" /\ UNCHANGED <<raw, mark>>
    BY DEF Announce
<1>2. job'.phase = "mark" /\ job'.counts = job.counts
    BY <1>1 DEF Inv, TransformTypeOK
<1>3. TransformTypeOK'
    BY <1>1 DEF Inv, TransformTypeOK
<1>4. MarkIsCovered'
    BY <1>1 DEF Inv, MarkIsCovered, BuildIsCovered, Covers
<1>5. CountIsCovered'
    BY <1>1, <1>2 DEF Inv, CountIsCovered, Covers
<1>6. CountIsAnnounced'
    BY <1>1, <1>2 DEF Inv, BuildIsCovered, CountIsAnnounced, Counted, Covers
<1> QED
    BY <1>2, <1>3, <1>4, <1>5, <1>6 DEF Inv, RunMarkIsCovered, BuildIsCovered

\* An announcement that got through and raised leaves the old mark.
LEMMA AnnounceRaisesStep == ASSUME Inv, AnnounceRaises PROVE Inv'
<1>1. job' = NoJob /\ announced' = job.built /\ job.phase = "publish" /\ UNCHANGED <<raw, mark>>
    BY DEF AnnounceRaises
<1>2. job'.phase = "none" /\ job'.counts = <<>>
    BY <1>1 DEF NoJob
<1>3. TransformTypeOK'
    BY <1>1, EmptyType, SchemasAssumption DEF Inv, TransformTypeOK, NoJob
<1>4. MarkIsCovered'
    BY <1>1 DEF Inv, MarkIsCovered, BuildIsCovered, Covers
<1> QED
    BY <1>2, <1>3, <1>4 DEF Inv, RunMarkIsCovered, CountIsCovered, BuildIsCovered, CountIsAnnounced

\* What is marked was counted, and announced.
LEMMA WriteMarkStep == ASSUME Inv, WriteMark \/ WriteMarkRaises PROVE Inv'
<1>1. /\ job' = NoJob /\ mark' = CountsByTable
      /\ job.phase = "mark" /\ UNCHANGED <<raw, announced>>
    BY DEF WriteMark, WriteMarkRaises
<1>2. job'.phase = "none" /\ job'.counts = <<>>
    BY <1>1 DEF NoJob
<1>3. Counted /\ \A i \in DOMAIN job.counts : Covers(announced[Schemas[i]], job.counts[i])
    BY <1>1 DEF Inv, CountIsAnnounced
<1>4. /\ CountsByTable \in [Tables -> Holding]
      /\ \A t \in Tables : \E i \in DOMAIN job.counts :
             Schemas[i] = t /\ CountsByTable[t] = job.counts[i]
    BY <1>3, CountsByTableType DEF Inv
<1>5. TransformTypeOK'
    BY <1>1, <1>4, EmptyType, SchemasAssumption DEF Inv, TransformTypeOK, NoJob
<1>6. MarkIsCovered'
  <2> SUFFICES ASSUME NEW t \in Tables
               PROVE  Covers(raw[t], CountsByTable[t]) /\ Covers(announced[t], CountsByTable[t])
      BY <1>1 DEF MarkIsCovered
  <2>1. PICK i \in DOMAIN job.counts : Schemas[i] = t /\ CountsByTable[t] = job.counts[i]
      BY <1>4
  <2> QED BY <1>3, <2>1 DEF Inv, CountIsCovered
<1> QED
    BY <1>2, <1>5, <1>6 DEF Inv, RunMarkIsCovered, CountIsCovered, BuildIsCovered, CountIsAnnounced

\* Every step, of the tables, of the run or of what fails, keeps the order.
LEMMA NextInv == Inv /\ [TransformNext]_transformVars => Inv'
<1> SUFFICES ASSUME Inv, [TransformNext]_transformVars PROVE Inv'
    OBVIOUS
<1>1. CASE \E t \in Tables : Load(t) \/ Rebuild(t)
    BY <1>1, TablesStep
<1>2. CASE MarkLost
    BY <1>2, MarkLostStep
<1>3. CASE Start
    BY <1>3, StartStep
<1>4. CASE Count
    BY <1>4, CountStep
<1>5. CASE Idle \/ Fails
    BY <1>5, EndInv DEF Idle, Fails
<1>6. CASE Build
    BY <1>6, BuildStep
<1>7. CASE Announce
    BY <1>7, AnnounceStep
<1>8. CASE AnnounceRaises
    BY <1>8, AnnounceRaisesStep
<1>9. CASE WriteMark \/ WriteMarkRaises
    BY <1>9, WriteMarkStep
<1>10. CASE UNCHANGED transformVars
    BY <1>10, RawInv DEF transformVars, Inv, TransformTypeOK, MarkIsCovered, RunMarkIsCovered,
       CountIsCovered, BuildIsCovered, CountIsAnnounced, Counted, Covers
<1> QED
    BY <1>1, <1>2, <1>3, <1>4, <1>5, <1>6, <1>7, <1>8, <1>9, <1>10 DEF TransformNext, TransformRun

\* A table that has nothing fresh holds what its mark says, or nothing, or stands by
\* chance at the count its predecessor was marked with.
LEMMA InvHides == Inv => NothingHidden
<1> SUFFICES ASSUME Inv, job.phase = "count", Counted, NothingFresh, NEW i \in DOMAIN Schemas
             PROVE  \/ Covers(announced[Schemas[i]], job.counts[i])
                    \/ job.counts[i].rows = 0
                    \/ /\ job.counts[i].age # job.mark[Schemas[i]].age
                       /\ job.counts[i].rows = job.mark[Schemas[i]].rows
    BY DEF NothingHidden
<1>1. Schemas[i] \in Tables
    BY DEF Tables
<1>2. job.counts[i] \in Holding /\ job.mark[Schemas[i]] \in Holding
    BY <1>1, SchemasAssumption DEF Inv, TransformTypeOK, Counted
<1>3. Covers(announced[Schemas[i]], job.mark[Schemas[i]])
    BY <1>1 DEF Inv, RunMarkIsCovered
<1>4. job.counts[i].rows = 0 \/ job.counts[i].rows = job.mark[Schemas[i]].rows
    BY <1>2, BoundsAssumption DEF NothingFresh, Fresh, FreshRows, Holding
<1> QED BY <1>2, <1>3, <1>4 DEF Covers

-----------------------------------------------------------------------------

\* The order holds in every state.
LEMMA InvCorrect == TransformSpec => []Inv
<1>1. TransformInit => Inv
    BY InitInv
<1>2. Inv /\ [TransformNext]_<<topicVars, transformVars>> => Inv'
    BY NextInv
<1> QED BY <1>1, <1>2, PTL DEF TransformSpec

\* Every variable of the transform service keeps its type.
THEOREM TransformTypeCorrect == TransformSpec => []TransformTypeOK
BY InvCorrect, PTL DEF Inv

\* For any tables, rows, rebuilds and faults: a run of transform_due that finds nothing
\* to build hides no row of which the consumers were not told.
THEOREM NothingHiddenCorrect == TransformSpec => []NothingHidden
BY InvCorrect, InvHides, PTL

-----------------------------------------------------------------------------
(* The contract job, and the services together. *)

Verdict == [Contracts -> Results]

\* What a run in flight has found so far is what its history says.
RunIsRecorded ==
    Running =>
        /\ runs \in 1..MaxRuns /\ runs \notin pings
        /\ testing.chosen \in Choices
        /\ testing.results \in Seq(Results) /\ Len(testing.results) <= Len(testing.chosen)
        /\ \A i \in DOMAIN testing.results :
               verdicts[runs][testing.chosen[i]] = testing.results[i]

JobInv ==
    /\ testing \in [chosen : Choices \union {<<>>}, results : Seq(Results), said : Nat]
    /\ runs \in 0..MaxRuns
    /\ verdicts \in [1..MaxRuns -> Verdict]
    /\ pings \subseteq 1..runs
    /\ RunIsRecorded
    /\ QuietMeansFine

-----------------------------------------------------------------------------

\* The contracts a run may be narrowed to are contracts, and no two are the same.
LEMMA ChoicesAreContracts ==
    ASSUME NEW s \in Choices
    PROVE  /\ s \in Seq(Contracts)
           /\ \A i, j \in DOMAIN s : s[i] = s[j] => i = j
           /\ Len(s) = Len(CONTRACTS) => \A c \in Contracts : \E i \in DOMAIN s : s[i] = c
<1>1. CONTRACTS[1] = "collection" /\ CONTRACTS[2] = "semantics" /\ DOMAIN CONTRACTS = 1..2
      /\ Len(CONTRACTS) = 2
    BY DEF CONTRACTS
<1>2. Contracts = {"collection", "semantics"}
    BY <1>1 DEF Contracts
<1>3. CASE s = <<"collection">>
    BY <1>1, <1>2, <1>3
<1>4. CASE s = <<"semantics">>
    BY <1>1, <1>2, <1>4
<1>5. CASE s = CONTRACTS
    BY <1>2, <1>5 DEF CONTRACTS
<1> QED BY <1>3, <1>4, <1>5 DEF Choices

LEMMA JobInitInv == JobInit => JobInv
<1> SUFFICES ASSUME JobInit PROVE JobInv
    OBVIOUS
<1>1. verdicts \in [1..MaxRuns -> Verdict]
    BY DEF JobInit, Verdict, Results, NotTested
<1> QED BY <1>1, MaxRunsAssumption
        DEF JobInit, JobInv, RunIsRecorded, QuietMeansFine, Running, NoRun

\* A run that is over leaves nothing in flight.
LEMMA OverInv ==
    ASSUME JobInv, testing' = NoRun, UNCHANGED <<runs, verdicts, pings>>
    PROVE  JobInv'
BY DEF JobInv, RunIsRecorded, QuietMeansFine, Running, NoRun

LEMMA BeginInv == ASSUME JobInv, Begin PROVE JobInv'
<1>1. PICK chosen \in Choices : testing' = [NoRun EXCEPT !.chosen = chosen]
    BY DEF Begin
<1>2. /\ testing'.chosen = chosen /\ testing'.results = <<>> /\ testing'.said = 0
      /\ testing' \in [chosen : Choices \union {<<>>}, results : Seq(Results), said : Nat]
  <2>1. testing' = [chosen |-> chosen, results |-> <<>>, said |-> 0]
      BY <1>1, Zenon DEF NoRun
  <2>2. <<>> \in Seq(Results)
      OBVIOUS
  <2>3. chosen \in Choices \union {<<>>}
      BY Zenon
  <2> QED BY <2>1, <2>2, <2>3, Zenon
<1>3. runs' \in 1..MaxRuns /\ pings' \subseteq 1..runs' /\ runs' \notin pings'
    BY MaxRunsAssumption DEF Begin, JobInv
<1>4. Len(chosen) \in Nat
    BY ChoicesAreContracts
<1>5. RunIsRecorded'
    BY <1>2, <1>3, <1>4 DEF RunIsRecorded
<1>6. verdicts' \in [1..MaxRuns -> Verdict] /\ QuietMeansFine'
    BY DEF Begin, JobInv, QuietMeansFine
<1> QED BY <1>2, <1>3, <1>5, <1>6 DEF JobInv

\* A contract is tested once in a run, so that what was found of it stands.
LEMMA TestInv == ASSUME JobInv, Test PROVE JobInv'
<1> DEFINE n == Len(testing.results) + 1
           c == testing.chosen[n]
<1>1. PICK result \in Results :
          /\ testing' = [testing EXCEPT !.results = Append(@, result)]
          /\ verdicts' = [verdicts EXCEPT ![runs][c] = result]
    BY DEF Test
<1>2. /\ runs \in 1..MaxRuns /\ runs \notin pings /\ testing.chosen \in Choices
      /\ testing.results \in Seq(Results) /\ Len(testing.results) < Len(testing.chosen)
    BY ChoicesAreContracts DEF Test, Tested, JobInv, RunIsRecorded
<1>3. /\ n \in DOMAIN testing.chosen /\ c \in Contracts
      /\ \A i \in DOMAIN testing.results :
             i \in DOMAIN testing.chosen /\ testing.chosen[i] # c /\ testing.chosen[i] \in Contracts
    BY <1>2, ChoicesAreContracts
<1>4. /\ testing'.chosen = testing.chosen
      /\ testing'.results = Append(testing.results, result)
      /\ testing' \in [chosen : Choices \union {<<>>}, results : Seq(Results), said : Nat]
  <2>1. testing \in [chosen : Choices \union {<<>>}, results : Seq(Results), said : Nat]
      BY Zenon DEF JobInv
  <2>2. Append(testing.results, result) \in Seq(Results)
      BY <1>2
  <2>3. testing' = [testing EXCEPT !.results = Append(testing.results, result)]
      BY <1>1
  <2> QED BY <2>1, <2>2, <2>3, Zenon
<1>5. verdicts' \in [1..MaxRuns -> Verdict]
    BY <1>1, <1>3 DEF JobInv, Verdict
<1>6. /\ verdicts'[runs][c] = result
      /\ \A d \in Contracts \ {c} : verdicts'[runs][d] = verdicts[runs][d]
      /\ \A k \in 1..MaxRuns \ {runs} : verdicts'[k] = verdicts[k]
    BY <1>1, <1>2, <1>3 DEF JobInv, Verdict
<1>7. \A i \in DOMAIN testing'.results :
          verdicts'[runs][testing'.chosen[i]] = testing'.results[i]
  <2> SUFFICES ASSUME NEW i \in DOMAIN testing'.results
               PROVE  verdicts'[runs][testing.chosen[i]] = Append(testing.results, result)[i]
      BY <1>4
  <2>1. CASE i = n
      BY <1>2, <1>6, <2>1
  <2>2. CASE i # n
    <3>1. i \in DOMAIN testing.results /\ Append(testing.results, result)[i] = testing.results[i]
        BY <1>2, <1>4, <2>2
    <3> QED BY <1>3, <1>6, <3>1 DEF Test, JobInv, RunIsRecorded
  <2> QED BY <2>1, <2>2
<1>8. Len(testing'.results) <= Len(testing'.chosen) /\ testing'.results \in Seq(Results)
    BY <1>2, <1>4, ChoicesAreContracts
<1>9. runs' = runs /\ pings' = pings
    BY DEF Test
<1>10. QuietMeansFine'
  <2>1. pings \subseteq 1..MaxRuns \ {runs}
      BY <1>2, MaxRunsAssumption DEF JobInv
  <2>2. SUFFICES ASSUME NEW k \in pings, NEW d \in Contracts PROVE verdicts'[k][d] = "passed"
      BY <1>9 DEF QuietMeansFine
  <2>3. verdicts'[k] = verdicts[k]
      BY <1>6, <2>1
  <2> QED BY <2>3 DEF JobInv, QuietMeansFine
<1>11. RunIsRecorded'
    BY <1>2, <1>4, <1>7, <1>8, <1>9 DEF RunIsRecorded
<1> QED BY <1>4, <1>5, <1>9, <1>10, <1>11 DEF JobInv

LEMMA ReportInv == ASSUME JobInv, Report PROVE JobInv'
<1>1. /\ testing'.chosen = testing.chosen /\ testing'.results = testing.results
      /\ testing' \in [chosen : Choices \union {<<>>}, results : Seq(Results), said : Nat]
    BY DEF Report, JobInv
<1>2. UNCHANGED <<runs, verdicts, pings>> /\ Running
    BY DEF Report
<1> QED BY <1>1, <1>2 DEF JobInv, RunIsRecorded, QuietMeansFine

\* A run pings when it was clean, and then every contract is one it tested.
LEMMA FinishInv == ASSUME JobInv, Finish PROVE JobInv'
<1>1. CASE pings' = pings
    BY <1>1, OverInv DEF Finish
<1>2. CASE Clean /\ pings' = pings \union {runs}
  <2>1. /\ runs \in 1..MaxRuns /\ testing.chosen \in Choices /\ testing.results \in Seq(Results)
        /\ Len(testing.results) = Len(testing.chosen)
      BY DEF Finish, Tested, JobInv, RunIsRecorded
  <2>2. \A c \in Contracts : verdicts[runs][c] = "passed"
    <3> SUFFICES ASSUME NEW c \in Contracts PROVE verdicts[runs][c] = "passed"
        OBVIOUS
    <3>1. PICK i \in DOMAIN testing.chosen : testing.chosen[i] = c
        BY <1>2, <2>1, ChoicesAreContracts DEF Clean
    <3>2. i \in DOMAIN testing.results
        BY <2>1, ChoicesAreContracts
    <3> QED BY <1>2, <3>1, <3>2 DEF Clean, Finish, JobInv, RunIsRecorded
  <2>3. testing' = NoRun /\ UNCHANGED <<runs, verdicts>> /\ pings' \subseteq 1..runs
      BY <1>2, <2>1 DEF Finish, JobInv
  <2>4. QuietMeansFine'
      BY <1>2, <2>2, <2>3 DEF JobInv, QuietMeansFine
  <2>5. RunIsRecorded'
      BY <2>3 DEF RunIsRecorded, Running
  <2> QED BY <2>3, <2>4, <2>5 DEF JobInv, NoRun
<1> QED BY <1>1, <1>2 DEF Finish

LEMMA JobNextInv == JobInv /\ [JobNext]_jobVars => JobInv'
<1> SUFFICES ASSUME JobInv, [JobNext]_jobVars PROVE JobInv'
    OBVIOUS
<1>1. CASE Killed
    BY <1>1, OverInv DEF Killed
<1>2. CASE UNCHANGED jobVars
    BY <1>2 DEF jobVars, JobInv, RunIsRecorded, QuietMeansFine, Running
<1> QED BY <1>1, <1>2, BeginInv, TestInv, ReportInv, FinishInv DEF JobNext

-----------------------------------------------------------------------------
(* The theorems. *)

\* However many runs there are, narrowed or not, with reports lost and runs killed:
\* the dead man's switch hears only of runs that tested every contract and passed.
THEOREM QuietMeansFineCorrect == Spec => []QuietMeansFine
<1>1. Init => JobInv
    BY JobInitInv DEF Init
<1>2. JobInv /\ [Next]_vars => JobInv'
    BY JobNextInv DEF Next, vars
<1>3. JobInv => QuietMeansFine
    BY DEF JobInv
<1> QED BY <1>1, <1>2, <1>3, PTL DEF Spec

\* No row is hidden by a mark, with the topic shared with the contract job and the
\* notifier, which take nothing of the transform service's.
THEOREM NothingHiddenTogether == Spec => []NothingHidden
<1>1. Init => Inv
    BY InitInv DEF Init
<1>2. Inv /\ [Next]_vars => Inv'
    BY NextInv DEF Next, vars
<1> QED BY <1>1, <1>2, InvHides, PTL DEF Spec
==================================================================================
