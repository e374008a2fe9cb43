--------------------------------- MODULE Signals ---------------------------------
(*****************************************************************************)
(* The cloud side: the transform service and the contract job announce       *)
(* themselves on one topic, and the notifier hears both.                     *)
(*****************************************************************************)
EXTENDS Transform, ContractJob, Notifier

vars == <<topicVars, transformVars, jobVars, notifierVars>>

Init == TopicInit /\ TransformInit /\ JobInit /\ NotifierInit

Next ==
    \/ TransformNext /\ UNCHANGED <<jobVars, notifierVars>>
    \/ JobNext /\ UNCHANGED <<transformVars, notifierVars>>
    \/ NotifierNext /\ UNCHANGED <<transformVars, jobVars>>

Spec == Init /\ [][Next]_vars

\* The scheduler calls hour after hour, the services go on once they run, and the
\* topic delivers until it is answered with 200.  What fails is bounded by MaxFaults.
TransformFairness == WF_vars(TransformRun /\ UNCHANGED <<jobVars, notifierVars>>)
DeliveryFairness == WF_vars((\E m \in topic : Deliver(m)) /\ UNCHANGED <<transformVars, jobVars>>)

FairSpec == Spec /\ TransformFairness /\ DeliveryFairness

-----------------------------------------------------------------------------
(* Properties. *)

\* "a quiet channel plus a healthy switch means the data is fine" (quality.py), and
\* the switch "says every contract passed": a run pings it only when it tested every
\* contract and each passed, whatever became of its reports.
QuietMeansFine == \A n \in pings : \A c \in Contracts : verdicts[n][c] = "passed"

\* A failed report that is on the topic is posted in the end: an unavailable Slack
\* or Secret Manager, a lost answer or a new instance only delay it.  It is given up
\* for a defect, and for want of a token.
FailureSaid ==
    \A n \in 1..MaxRuns, c \in Contracts :
        LET m == QualityReport(n, c, FALSE)
        IN  m \in topic ~> m \in channel \union unsaid
==================================================================================
