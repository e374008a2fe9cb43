------------------------------- MODULE ContractJob -------------------------------
(*****************************************************************************)
(* The daily contract test (contracts/job): both contracts are tested, each  *)
(* result is published as a quality_report, and a run in which everything    *)
(* passed pings the dead man's switch.  A run may be narrowed to some of the *)
(* contracts.  Nothing is retried, and a run may be killed anywhere.  What a  *)
(* test of the data says is the environment's choice.                        *)
(*****************************************************************************)
EXTENDS Topic, Sequences

CONSTANT MaxRuns        \* bound: runs of the job

ASSUME MaxRunsAssumption == MaxRuns \in Nat

VARIABLES
    testing,            \* the run that is in flight
    runs,               \* history: how many runs there have been
    verdicts,           \* history: run -> contract -> what its test came to
    pings               \* history: the runs that reported to the dead man's switch

jobVars == <<testing, runs, verdicts, pings>>

CONTRACTS == <<"collection", "semantics">>
Contracts == {CONTRACTS[i] : i \in DOMAIN CONTRACTS}

\* There was no key to read the bucket with.
NotTested == "untested"

\* Passed, a check failed, or no result: a crash, a timeout or a report that is not
\* there counts as not tested.
Results == {"passed", "failed", NotTested}

NoRun == [chosen |-> <<>>, results |-> <<>>, said |-> 0]

JobInit ==
    /\ testing = NoRun /\ runs = 0 /\ pings = {}
    /\ verdicts = [n \in 1..MaxRuns |-> [c \in Contracts |-> NotTested]]

Running == testing # NoRun

\* The contracts named by --contract, in the order of CONTRACTS.
Choices == {<<"collection">>, <<"semantics">>, CONTRACTS}

\* The beginning of run.
Begin ==
    /\ ~Running /\ runs < MaxRuns
    /\ runs' = runs + 1
    /\ \E chosen \in Choices : testing' = [NoRun EXCEPT !.chosen = chosen]
    /\ UNCHANGED <<topicVars, verdicts, pings>>

Tested == Len(testing.results) = Len(testing.chosen)

\* _test_contract: a crash is a result too.
Test ==
    /\ Running /\ ~Tested
    /\ \E result \in Results :
           /\ testing' = [testing EXCEPT !.results = Append(@, result)]
           /\ verdicts' = [verdicts EXCEPT ![runs][testing.chosen[Len(testing.results) + 1]] = result]
    /\ UNCHANGED <<topicVars, runs, pings>>

QualityReport(n, c, passed) ==
    [event |-> "quality_report", run |-> n, contract |-> c, passed |-> passed]

Reported == testing.said = Len(testing.chosen)

\* _publish_report, one result after the other; one that raises is only logged.
Report ==
    /\ Running /\ Tested /\ ~Reported
    /\ LET m == QualityReport(runs, testing.chosen[testing.said + 1],
                               testing.results[testing.said + 1] = "passed")
       IN  Published(m) \/ PublishRaises(m)
    /\ testing' = [testing EXCEPT !.said = @ + 1]
    /\ UNCHANGED <<runs, verdicts, pings>>

\* (mutant) a narrowed run in which everything passed pings too
PassedOnly == \A i \in DOMAIN testing.results : testing.results[i] = "passed"

\* Every contract was tested and passed.
Clean == /\ \A i \in DOMAIN testing.results : testing.results[i] = "passed"
         /\ Len(testing.chosen) = Len(CONTRACTS)

\* The end of run.  A ping may fail, or have no address to go to.
Finish ==
    /\ Running /\ Tested /\ Reported
    /\ pings' \in {pings} \union (IF Clean THEN {pings \union {runs}} ELSE {})
    /\ testing' = NoRun
    /\ UNCHANGED <<topicVars, runs, verdicts>>

Killed ==
    /\ Running
    /\ Fault
    /\ testing' = NoRun
    /\ UNCHANGED <<topic, runs, verdicts, pings>>

JobNext == Begin \/ Test \/ Report \/ Finish \/ Killed
==================================================================================
