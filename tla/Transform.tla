-------------------------------- MODULE Transform --------------------------------
(*****************************************************************************)
(* The transform service (semantics/service): every hour it counts the rows  *)
(* of the raw tables, and when rows have come since the count it marked last *)
(* it rebuilds the warehouse, announces that, and marks the new count.  Rows *)
(* are loaded by a transfer at any time, a table may be made anew under the  *)
(* service, any call may fail, and the instance may be killed anywhere.       *)
(*                                                                           *)
(* Cloud Run gives the service one instance with one request at a time, so   *)
(* there is one run.  The number of rows stands for the rows: a table only   *)
(* grows, until it is made anew, which its age counts and no guard reads.     *)
(*****************************************************************************)
EXTENDS Topic, Sequences

CONSTANTS
    Schemas,        \* raw_schema.SCHEMAS: the raw tables in the order they are counted
    MaxRows,        \* bound: rows of one table
    MaxAge          \* bound: times a table is made anew

ASSUME BoundsAssumption == MaxRows \in Nat /\ MaxAge \in Nat

Tables == {Schemas[i] : i \in DOMAIN Schemas}

ASSUME SchemasAssumption ==
    /\ Schemas \in Seq(Tables)
    /\ \A i, j \in DOMAIN Schemas : Schemas[i] = Schemas[j] => i = j

VARIABLES
    raw,            \* what each table holds
    mark,           \* the object built_through.json: what the last build was given
    job,            \* the run of transform_due that is in flight
    announced       \* history: what was in the tables of the last build announced

transformVars == <<raw, mark, job, announced>>

Holding == [age : 0..MaxAge, rows : 0..MaxRows]
Empty == [t \in Tables |-> [age |-> 0, rows |-> 0]]

\* No mark, or one that cannot be read: 0 rows of every table (built_through.get).
NoMark == Empty

NoJob == [phase |-> "none", mark |-> NoMark, counts |-> <<>>, built |-> Empty]

TransformInit == raw = Empty /\ mark = NoMark /\ job = NoJob /\ announced = Empty

\* What was said to be built includes all of c: it was, or the table is newer by now.
Covers(b, c) == b.age > c.age \/ (b.age = c.age /\ b.rows >= c.rows)

-----------------------------------------------------------------------------
(* The tables and the mark. *)

\* The transfer appends rows.
Load(t) ==
    /\ raw[t].rows < MaxRows
    /\ raw' = [raw EXCEPT ![t].rows = @ + 1]
    /\ UNCHANGED <<topicVars, mark, job, announced>>

\* reset_table: the table is dropped and made anew.
Rebuild(t) ==
    /\ raw[t].age < MaxAge
    /\ raw' = [raw EXCEPT ![t] = [age |-> @.age + 1, rows |-> 0]]
    /\ UNCHANGED <<topicVars, mark, job, announced>>

MarkLost ==
    /\ mark # NoMark
    /\ Fault
    /\ mark' = NoMark
    /\ UNCHANGED <<topic, raw, job, announced>>

-----------------------------------------------------------------------------
(* One run of transform_due. *)

Start ==
    /\ job = NoJob
    /\ job' = [NoJob EXCEPT !.phase = "count", !.mark = mark]
    /\ UNCHANGED <<topicVars, raw, mark, announced>>

\* arrivals: one table's metadata after the other.
Counted == Len(job.counts) = Len(Schemas)

Count ==
    /\ job.phase = "count" /\ ~Counted
    /\ job' = [job EXCEPT !.counts = Append(@, raw[Schemas[Len(@) + 1]])]
    /\ UNCHANGED <<topicVars, raw, mark, announced>>

\* (mutant) the difference is clamped at zero
Clamped(rows, marked) == IF rows < marked THEN 0 ELSE rows - marked

\* A table below its mark was made anew, and every row in it is fresh.
FreshRows(rows, marked) == IF rows < marked THEN rows ELSE rows - marked

Fresh(i) == FreshRows(job.counts[i].rows, job.mark[Schemas[i]].rows)

NothingFresh == \A i \in DOMAIN Schemas : Fresh(i) = 0

CountsByTable == [t \in Tables |-> job.counts[CHOOSE i \in DOMAIN Schemas : Schemas[i] = t]]

Idle ==
    /\ job.phase = "count" /\ Counted /\ NothingFresh
    /\ job' = NoJob
    /\ UNCHANGED <<topicVars, raw, mark, announced>>

\* (mutant) the mark is written when the build has passed, before it is announced
MarkAtBuild == mark' = CountsByTable

MarkLater == UNCHANGED mark

\* dbt replaces every table from what raw holds now, which may be more than was
\* counted.
Build ==
    /\ job.phase = "count" /\ Counted /\ ~NothingFresh
    /\ job' = [job EXCEPT !.phase = "publish", !.built = raw]
    /\ MarkLater
    /\ UNCHANGED <<topicVars, raw, announced>>

SemanticUpdated == [event |-> "semantic_updated"]

Announce ==
    /\ job.phase = "publish"
    /\ Published(SemanticUpdated)
    /\ announced' = job.built
    /\ job' = [job EXCEPT !.phase = "mark"]
    /\ UNCHANGED <<raw, mark>>

\* publish raises after the message was taken.
AnnounceRaises ==
    /\ job.phase = "publish"
    /\ Fault
    /\ topic' = topic \union {SemanticUpdated}
    /\ announced' = job.built
    /\ job' = NoJob
    /\ UNCHANGED <<raw, mark>>

WriteMark ==
    /\ job.phase = "mark"
    /\ mark' = CountsByTable
    /\ job' = NoJob
    /\ UNCHANGED <<topicVars, raw, announced>>

\* The upload raises after the object was written.
WriteMarkRaises ==
    /\ job.phase = "mark"
    /\ Fault
    /\ mark' = CountsByTable
    /\ job' = NoJob
    /\ UNCHANGED <<topic, raw, announced>>

\* A call raises, dbt fails or runs out of time (500), or the instance is killed.
Fails ==
    /\ job # NoJob
    /\ Fault
    /\ job' = NoJob
    /\ UNCHANGED <<topic, raw, mark, announced>>

TransformRun == Start \/ Count \/ Idle \/ Build \/ Announce \/ WriteMark

TransformNext ==
    \/ \E t \in Tables : Load(t) \/ Rebuild(t)
    \/ TransformRun \/ MarkLost \/ AnnounceRaises \/ WriteMarkRaises \/ Fails

TransformSpec == TopicInit /\ TransformInit /\ [][TransformNext]_<<topicVars, transformVars>>

-----------------------------------------------------------------------------
(* Properties. *)

TransformTypeOK ==
    /\ raw \in [Tables -> Holding] /\ mark \in [Tables -> Holding]
    /\ announced \in [Tables -> Holding]
    /\ job \in [phase : {"none", "count", "publish", "mark"}, mark : [Tables -> Holding],
                counts : Seq(Holding), built : [Tables -> Holding]]
    /\ Len(job.counts) <= Len(Schemas)

\* "a mark written before either would hide rows a consumer was never told about"
\* (transform_due): a run that finds nothing to build has had every row it counted
\* announced, whatever failed or was killed before, unless a table that was made
\* anew stands by chance at exactly the count its predecessor was marked with.
NothingHidden ==
    job.phase = "count" /\ Counted /\ NothingFresh =>
        \A i \in DOMAIN Schemas :
            LET counted == job.counts[i]
                marked == job.mark[Schemas[i]]
            IN  \/ Covers(announced[Schemas[i]], counted)
                \/ counted.rows = 0
                \/ counted.age # marked.age /\ counted.rows = marked.rows

\* Once no more rows come, all that came have been announced, also those of a table
\* made anew with fewer rows than before ("Clamping the difference at zero instead
\* would leave the mark stranded", arrivals), unless a table made anew stands by
\* chance at just the count its predecessor was marked with.
EventuallyAnnounced ==
    <>[](\A t \in Tables :
            \/ Covers(announced[t], raw[t])
            \/ raw[t].rows = 0
            \/ mark[t].age # raw[t].age /\ mark[t].rows = raw[t].rows)
==================================================================================
