-------------------------------- MODULE SignalsMC --------------------------------
(* Signals for TLC.  What the transform announces and what the contract job reports *)
(* meet only on the topic, and the notifier has nothing to say about the former: a   *)
(* behaviour is either one of rows that come, or one of contracts that are tested    *)
(* and summaries that are asked for.                                                  *)
EXTENDS Signals

VARIABLE half       \* which of the two

SchemasMC == <<"raw_cooler", "raw_events">>

varsMC == <<vars, half>>

InitMC == Init /\ half \in {"rows", "tests"} /\ (half = "rows" => secret)

DeliverNext == \E m \in topic : Deliver(m)

NextMC ==
    /\ IF half = "rows"
       THEN \/ TransformNext /\ UNCHANGED <<jobVars, notifierVars>>
            \/ DeliverNext /\ UNCHANGED <<transformVars, jobVars>>
       ELSE \/ JobNext /\ UNCHANGED <<transformVars, notifierVars>>
            \/ NotifierNext /\ UNCHANGED <<transformVars, jobVars>>
    /\ UNCHANGED half

SpecMC ==
    /\ InitMC /\ [][NextMC]_varsMC
    /\ WF_vars(half = "rows" /\ TransformRun /\ UNCHANGED <<jobVars, notifierVars>>)
    /\ DeliveryFairness
==================================================================================
