-------------------------------- MODULE Upload --------------------------------
(*****************************************************************************)
(* The uploader (collection/upload/) composed with what writes the record    *)
(* files (collection/store.py): day files grow while a run compares them     *)
(* with the bucket, sends the missing byte ranges as objects that are        *)
(* created once, and deletes what the bucket has confirmed.  Two runs may    *)
(* overlap (the timer's and one started by hand), a run may be killed, the   *)
(* network may be gone, an answer may be lost, the power may be cut.         *)
(*                                                                           *)
(* A file is a sequence of bytes, and what matters of a byte is which line   *)
(* it belongs to and whether it ends it: a line is two bytes, and a torn one *)
(* is the first of them.                                                     *)
(*****************************************************************************)
EXTENDS Integers, Sequences, SequencesExt, FiniteSetsExt

CONSTANTS
    Uploaders,      \* processes running `frostlog upload`
    FileOrder,      \* the day files, <<stream, day>>, in the order of list_files
    MaxDay,         \* bound: the last day
    MaxChunk,       \* MAX_CHUNK: bytes per object at most
    KeepDays,       \* KEEP_DAYS: days an uploaded file stays
    MaxLines,       \* bound: lines written
    MaxFaults       \* bound: questions and PUTs that fail, killed runs, power cuts

VARIABLES
    today,          \* the clock's day, as far as record files tell it
    made,           \* lines written so far, which are numbered
    local,          \* each file's bytes, none when it does not exist
    bucket,         \* the objects under each file's prefix
    cache,          \* .upload-cache.json: how far each file is uploaded, or NoEntry
    faults,         \* how many of those there have been
    pc,             \* where each uploader is; a run prunes when nothing is pending
    todo,           \* Sync._files still to be compared, in the order of FileOrder
    pending,        \* Sync.pending still to be sent: the start of the next chunk, and what
                    \* was read of the file once its first chunk is sent
    confirmed,      \* Sync._confirmed still to be pruned, with the size measured
    ends,           \* OffsetCache._ends
    recording       \* whether this run writes upload_started and upload_done

disk == <<local, cache>>
process == <<todo, pending, confirmed, ends, recording>>
vars == <<today, made, disk, bucket, faults, pc, process>>

Files == ToSet(FileOrder)
StreamOf(f) == f[1]
DayOf(f) == f[2]

ASSUME FilesAssumption == \A f \in Files : DayOf(f) \in Nat
ASSUME UploadBoundsAssumption ==
    /\ FileOrder \in Seq(Files)
    /\ MaxDay \in Nat \ {0} /\ MaxChunk \in Nat \ {0}
    /\ KeepDays \in Nat /\ MaxLines \in Nat /\ MaxFaults \in Nat

NoEntry == -1                   \* the cache says nothing of a file
Newline == <<0, 2>>             \* ends a torn line
LineBytes(i) == <<<<i, 1>>, <<i, 2>>>>
EndsLine(byte) == byte[2] = 2

\* Where both bytes of a line are together.
WholeAt(bytes) ==
    {k \in 1..Len(bytes) - 1 : bytes[k][2] = 1 /\ bytes[k + 1] = <<bytes[k][1], 2>>}
WholeLines(bytes) == {bytes[k][1] : k \in WholeAt(bytes)}

\* parse_line: the lines of a range of bytes that are one record, and only that.
ReadableLines(bytes) ==
    {bytes[k][1] : k \in {j \in WholeAt(bytes) : j = 1 \/ EndsLine(bytes[j - 1])}}

\* The bucket is asked by prefix, and an object is named by its start.
HeldLines(f) == UNION {o.lines : o \in bucket[f]}

Init ==
    /\ today = 1 /\ made = 0
    /\ local = [f \in Files |-> <<>>]
    /\ bucket = [f \in Files |-> {}]
    /\ cache = [f \in Files |-> NoEntry]
    /\ faults = 0
    /\ pc = [u \in Uploaders |-> "idle"]
    /\ todo = [u \in Uploaders |-> {}]
    /\ pending = [u \in Uploaders |-> <<>>]
    /\ confirmed = [u \in Uploaders |-> <<>>]
    /\ ends = [u \in Uploaders |-> [f \in Files |-> NoEntry]]
    /\ recording = [u \in Uploaders |-> FALSE]

Fault == faults < MaxFaults /\ faults' = faults + 1

-----------------------------------------------------------------------------
(* The record files. *)

\* (mutant) a line is welded onto a torn one
Weld(bytes, i) == bytes \o LineBytes(i)

\* _open_for_append and append_line: on a fresh line if the last one is torn.
AppendLine(bytes, i) ==
    (IF bytes # <<>> /\ ~EndsLine(Last(bytes)) THEN Append(bytes, Newline) ELSE bytes)
        \o LineBytes(i)

\* One more line in today's file of a stream; nothing when it cannot be written.
Write(stream) ==
    IF made < MaxLines
    THEN /\ local' = [local EXCEPT ![<<stream, today>>] = AppendLine(@, made + 1)]
         /\ made' = made + 1
    ELSE UNCHANGED <<local, made>>

\* The recorder appends, whatever the uploaders are doing (Store.append).
Record(f) ==
    /\ DayOf(f) = today
    /\ made < MaxLines
    /\ Write(StreamOf(f))
    /\ UNCHANGED <<today, bucket, cache, faults, pc, process>>

Midnight ==
    /\ today < MaxDay
    /\ today' = today + 1
    /\ UNCHANGED <<made, disk, bucket, faults, pc, process>>

-----------------------------------------------------------------------------
(* What a run asks of a file and of the bucket. *)

\* _complete_size: bytes up to and including the last newline.
CompleteSize(f) == Max({0} \union {k \in 1..Len(local[f]) : EndsLine(local[f][k])})

\* _uploaded_end: the `end` of the object that starts last.
UploadedEnd(f) ==
    IF bucket[f] = {} THEN 0
    ELSE (CHOOSE o \in bucket[f] : \A p \in bucket[f] : p.start <= o.start).end

\* _prune_reason, with the disk low or not.
PruneReason(f, low) == DayOf(f) < today /\ (low \/ today - DayOf(f) > KeepDays)

CutAnywhere(data, at) == Min({at + MaxChunk, Len(data)})    \* (mutant) not at a line's end

\* _chunks: where the chunk of a file's bytes that starts at `at` ends.
ChunkEnd(data, at) ==
    LET limit == Min({at + MaxChunk, Len(data)})
        lineEnds == {k \in at + 1..Len(data) : EndsLine(data[k])}
    IN  IF limit = Len(data) THEN limit
        ELSE IF \E k \in lineEnds : k <= limit THEN Max({k \in lineEnds : k <= limit})
        ELSE Min(lineEnds)

-----------------------------------------------------------------------------
(* A run: plan, ship, prune. *)

\* Upload.run, OffsetCache.load and Sync.__init__.
Start(u) ==
    /\ pc[u] = "idle"
    /\ pc' = [pc EXCEPT ![u] = "plan"]
    /\ todo' = [todo EXCEPT ![u] = {f \in Files : local[f] # <<>>}]
    /\ ends' = [ends EXCEPT ![u] = cache]
    /\ UNCHANGED <<today, made, disk, bucket, faults, pending, confirmed, recording>>

Planning(u) == pc[u] = "plan" /\ todo[u] # {}

\* The first of the files, which list_files has sorted.
FirstOf(files) == FileOrder[Min({i \in DOMAIN FileOrder : FileOrder[i] \in files})]

\* _confirm: the bucket holds the file up to `size`, as of this run.
Confirm(u, f, size) ==
    /\ confirmed' = [confirmed EXCEPT ![u] = Append(@, [file |-> f, size |-> size])]
    /\ ends' = [ends EXCEPT ![u][f] = size]

IsKnown(u, f) == ends[u][f] # NoEntry   \* (mutant) any entry will do

\* The cache says the file is complete.
IsCached(u, f) == ends[u][f] = CompleteSize(f)

\* plan, one file, while the bucket answers.
Plan(u) ==
    /\ Planning(u)
    /\ LET f == FirstOf(todo[u])
           size == CompleteSize(f)
       IN  \/ \* another run has deleted it: it counts as failed
              /\ local[f] = <<>>
              /\ UNCHANGED <<pending, confirmed, ends>>
           \/ \* cached; what may be deleted is asked about all the same
              /\ local[f] # <<>> /\ IsCached(u, f)
              /\ \E low \in BOOLEAN : ~PruneReason(f, low)
              /\ UNCHANGED <<pending, confirmed, ends>>
           \/ \* asked about
              /\ local[f] # <<>>
              /\ \/ ~IsCached(u, f)
                 \/ \E low \in BOOLEAN : PruneReason(f, low)
              /\ \/ UploadedEnd(f) > size /\ UNCHANGED <<pending, confirmed, ends>>
                 \/ UploadedEnd(f) = size /\ Confirm(u, f, size) /\ UNCHANGED pending
                 \/ /\ UploadedEnd(f) < size
                    /\ pending' = [pending EXCEPT ![u] =
                           Append(@, [file |-> f, at |-> UploadedEnd(f), size |-> size, data |-> <<>>])]
                    /\ UNCHANGED <<confirmed, ends>>
    /\ todo' = [todo EXCEPT ![u] = @ \ {FirstOf(@)}]
    /\ UNCHANGED <<today, made, disk, bucket, faults, pc, recording>>

\* plan, when the bucket refuses the question: the other files continue.
PlanFails(u) ==
    /\ Planning(u)
    /\ Fault
    /\ todo' = [todo EXCEPT ![u] = @ \ {FirstOf(@)}]
    /\ UNCHANGED <<today, made, disk, bucket, pc, pending, confirmed, ends, recording>>

\* plan, when the bucket cannot be reached: nothing is sent in this run.
PlanOffline(u) ==
    /\ Planning(u)
    /\ Fault
    /\ todo' = [todo EXCEPT ![u] = {}]
    /\ pending' = [pending EXCEPT ![u] = <<>>]
    /\ UNCHANGED <<today, made, disk, bucket, pc, confirmed, ends, recording>>

\* ships_records
ShipsRecords(u) == \E i \in DOMAIN pending[u] : StreamOf(pending[u][i].file) # "events"

\* The plan is made; a run that carries records says so, in a file it has
\* already measured.
PlanDone(u) ==
    /\ pc[u] = "plan"
    /\ todo[u] = {}
    /\ pc' = [pc EXCEPT ![u] = "ship"]
    /\ recording' = [recording EXCEPT ![u] = ShipsRecords(u)]
    /\ IF ShipsRecords(u) THEN Write("events") ELSE UNCHANGED <<local, made>>
    /\ UNCHANGED <<today, bucket, cache, faults, todo, pending, confirmed, ends>>

Shipping(u) == pc[u] = "ship" /\ pending[u] # <<>>

\* A file that another run has deleted since cannot be opened.
Unopened(item) == item.data = <<>>
DataOf(item) ==
    IF Unopened(item) THEN SubSeq(local[item.file], 1, item.size) ELSE item.data
CanOpen(item) == Unopened(item) => local[item.file] # <<>>

\* The object under the next chunk's key.
Taken(item) == {o \in bucket[item.file] : o.start = item.at}

EndOfNext(item) == ChunkEnd(DataOf(item), item.at)

\* _metadata
EndOffset(item) == EndOfNext(item)

\* What ship puts: the readable lines of the chunk, and the offsets it covers.
NextObject(item) ==
    [start |-> item.at, end |-> EndOffset(item),
     lines |-> ReadableLines(SubSeq(DataOf(item), item.at + 1, EndOfNext(item)))]

\* (mutant) a file that could not be sent counts as confirmed
GiveUpConfirmed(u, item) ==
    pending' = [pending EXCEPT ![u] = Tail(@)] /\ Confirm(u, item.file, item.size)

\* ship, a failure: the file is left out and the others continue.
GiveUp(u, item) == pending' = [pending EXCEPT ![u] = Tail(@)] /\ UNCHANGED <<confirmed, ends>>

\* ship, after a chunk is there: the next one, or the file is confirmed.
Sent(u, item) ==
    LET end == EndOfNext(item)
    IN  IF end = item.size
        THEN pending' = [pending EXCEPT ![u] = Tail(@)] /\ Confirm(u, item.file, item.size)
        ELSE /\ pending' = [pending EXCEPT ![u] =
                               <<[item EXCEPT !.at = end, !.data = DataOf(item)]>> \o Tail(@)]
             /\ UNCHANGED <<confirmed, ends>>

\* ship and put: the object is created.
PutLands(u) ==
    /\ Shipping(u)
    /\ LET item == Head(pending[u])
       IN  /\ CanOpen(item) /\ Taken(item) = {}
           /\ bucket' = [bucket EXCEPT ![item.file] = @ \union {NextObject(item)}]
           /\ Sent(u, item)
    /\ UNCHANGED <<today, made, disk, faults, pc, todo, recording>>

SameStart(o, item) == TRUE              \* (mutant) whatever is there under the key

\* S3ObjectStore.put: what is there with the same end offset is this very object.
SameObject(o, item) == o.end = EndOffset(item)

\* put: the key may only create objects, and this one is there already.
PutRefused(u) ==
    /\ Shipping(u)
    /\ LET item == Head(pending[u])
       IN  /\ CanOpen(item) /\ Taken(item) # {}
           /\ IF \E o \in Taken(item) : SameObject(o, item) THEN Sent(u, item) ELSE GiveUp(u, item)
    /\ UNCHANGED <<today, made, disk, bucket, faults, pc, todo, recording>>

\* A PUT whose answer is lost may have made the object all the same.
MayLand(item) ==
    \/ UNCHANGED bucket
    \/ /\ CanOpen(item) /\ Taken(item) = {}
       /\ bucket' = [bucket EXCEPT ![item.file] = @ \union {NextObject(item)}]

\* put fails otherwise, or the file cannot be opened: the other files continue.
PutFails(u) ==
    /\ Shipping(u)
    /\ LET item == Head(pending[u])
       IN  /\ IF CanOpen(item) THEN Fault ELSE UNCHANGED faults
           /\ MayLand(item)
           /\ GiveUp(u, item)
    /\ UNCHANGED <<today, made, disk, pc, todo, recording>>

\* put cannot reach the bucket, or not any more: the run sends nothing else.
PutOffline(u) ==
    /\ Shipping(u)
    /\ Fault
    /\ MayLand(Head(pending[u]))
    /\ pending' = [pending EXCEPT ![u] = <<>>]
    /\ UNCHANGED <<today, made, disk, pc, todo, confirmed, ends, recording>>

\* What an uploader forgets when it ends, and starts again with.
Ended(us) ==
    /\ pc' = [u \in Uploaders |-> IF u \in us THEN "idle" ELSE pc[u]]
    /\ todo' = [u \in Uploaders |-> IF u \in us THEN {} ELSE todo[u]]
    /\ pending' = [u \in Uploaders |-> IF u \in us THEN <<>> ELSE pending[u]]
    /\ confirmed' = [u \in Uploaders |-> IF u \in us THEN <<>> ELSE confirmed[u]]
    /\ ends' = [u \in Uploaders |-> IF u \in us THEN [f \in Files |-> NoEntry] ELSE ends[u]]
    /\ recording' = [u \in Uploaders |-> IF u \in us THEN FALSE ELSE recording[u]]

Shipped(u) == pc[u] = "ship" /\ pending[u] = <<>>
Pruning(u) == Shipped(u) /\ confirmed[u] # <<>>

\* prune, one file.  The order plays no part: the disk may be low at any of them.
Prune(u) ==
    /\ Pruning(u)
    /\ LET f == Head(confirmed[u]).file
       IN  \/ /\ \E low \in BOOLEAN : ~PruneReason(f, low)
             /\ UNCHANGED local
          \/ /\ \E low \in BOOLEAN : PruneReason(f, low)
             /\ local[f] # <<>>
             /\ local' = [local EXCEPT ![f] = <<>>]
    /\ confirmed' = [confirmed EXCEPT ![u] = Tail(@)]
    /\ UNCHANGED <<today, made, bucket, cache, faults, pc, todo, pending, ends, recording>>

\* prune, when another run has deleted the file: nothing catches that.
PruneRaises(u) ==
    /\ Pruning(u)
    /\ local[Head(confirmed[u]).file] = <<>>
    /\ Ended({u})
    /\ UNCHANGED <<today, made, disk, bucket, faults>>

\* save_cache, which may fail, and upload_done.
Finish(u) ==
    /\ Shipped(u)
    /\ confirmed[u] = <<>>
    /\ \/ cache' = [f \in Files |-> IF local[f] # <<>> THEN ends[u][f] ELSE NoEntry]
       \/ UNCHANGED cache
    /\ IF recording[u] THEN Write("events") ELSE UNCHANGED <<local, made>>
    /\ Ended({u})
    /\ UNCHANGED <<today, bucket, faults>>

-----------------------------------------------------------------------------
(* What goes wrong around a run. *)

Killed(u) ==
    /\ Fault
    /\ pc[u] # "idle"
    /\ Ended({u})
    /\ UNCHANGED <<today, made, disk, bucket>>

\* The last bytes of a file may be gone, and its last line torn.  Bytes the bucket
\* already holds are taken to stay: an upload comes long after the append.
PowerCut ==
    /\ Fault
    /\ \E f \in Files : \E k \in UploadedEnd(f)..Len(local[f]) :
           local' = [local EXCEPT ![f] = SubSeq(@, 1, k)]
    /\ cache' \in {cache, [f \in Files |-> NoEntry]}
    /\ Ended(Uploaders)
    /\ UNCHANGED <<today, made, bucket>>

Run(u) ==
    \/ Start(u) \/ Plan(u) \/ PlanFails(u) \/ PlanOffline(u) \/ PlanDone(u)
    \/ PutLands(u) \/ PutRefused(u) \/ PutFails(u) \/ PutOffline(u)
    \/ Prune(u) \/ PruneRaises(u) \/ Finish(u)

Next ==
    \/ \E f \in Files : Record(f)
    \/ Midnight \/ PowerCut
    \/ \E u \in Uploaders : Run(u) \/ Killed(u)

\* The timer starts run after run and each comes to its end.  Faults are bounded,
\* so from some moment on the bucket answers.
Fairness == \A u \in Uploaders : WF_vars(Run(u))

Spec == Init /\ [][Next]_vars
FairSpec == Spec /\ Fairness

-----------------------------------------------------------------------------
(* Properties. *)

\* Every variable has its type; a run measures whole lines, and what it has
\* still to send lies before what it measured.
TypeOK ==
    /\ today \in 1..MaxDay /\ made \in 0..MaxLines /\ faults \in 0..MaxFaults
    /\ \A f \in Files :
           /\ \A k \in DOMAIN local[f] : local[f][k] \in (0..MaxLines) \X {1, 2}
           /\ \A o \in bucket[f] : o.start \in 0..o.end - 1 /\ o.lines \subseteq 1..made
           /\ cache[f] \in Nat \union {NoEntry}
    /\ \A u \in Uploaders :
           /\ pc[u] \in {"idle", "plan", "ship"}
           /\ todo[u] \subseteq Files
           /\ \A i \in DOMAIN pending[u] : LET item == pending[u][i] IN
                  /\ item.file \in Files
                  /\ item.at < item.size
                  /\ Unopened(item) \/ EndsLine(item.data[item.at]) \/ item.at = 0
           /\ \A i \in DOMAIN confirmed[u] : confirmed[u][i].file \in Files
           /\ recording[u] \in BOOLEAN

\* The objects under a prefix cover the file from its first byte without a hole
\* and without an overlap, whichever runs made them (the module comment's "the
\* same start always means the same lines").
Tiled ==
    \A f \in Files : \A o \in bucket[f] :
        /\ o.start = 0 \/ \E p \in bucket[f] : p.end = o.start
        /\ \A p \in bucket[f] \ {o} : p.end <= o.start \/ o.end <= p.start

\* "cannot cause a gap or a duplicate": the objects tile the file, and of a file that
\* reaches as far as the bucket says, every whole line the bucket covers is in an
\* object, in one.
NoGapNoDuplicate ==
    /\ Tiled
    /\ \A f \in Files :
           /\ UploadedEnd(f) <= CompleteSize(f) =>
                  WholeLines(SubSeq(local[f], 1, UploadedEnd(f))) \subseteq HeldLines(f)
           /\ \A o, p \in bucket[f] : o # p => o.lines \intersect p.lines = {}

\* "a wrong entry can only cost an extra listing, never a gap": the cache, on
\* disk or in a run, is never ahead of the bucket.
CacheNeverAhead ==
    \A f \in Files :
        /\ cache[f] <= UploadedEnd(f)
        /\ \A u \in Uploaders : ends[u][f] <= UploadedEnd(f)

\* The run deletes f, which it measured as being so long.
Deletes(u, f) ==
    /\ Pruning(u) /\ Head(confirmed[u]).file = f
    /\ local[f] # <<>> /\ local'[f] = <<>>
    /\ pc'[u] = "ship"

\* Only what the bucket confirmed in this run is deleted: every line the run
\* measured is in an object when the file goes (prune).
DeletedWasConfirmed ==
    [][\A u \in Uploaders, f \in Files : Deletes(u, f) =>
           WholeLines(SubSeq(local[f], 1, Head(confirmed[u]).size)) \subseteq HeldLines(f)]_vars

\* The comment on MIN_FREE_BYTES: "uploaded files are deleted".  Every line of a
\* file that goes is in an object.  prune asks for the day again but does not
\* measure the file again, which may have grown since the plan.
DeletedIsUploaded ==
    [][\A u \in Uploaders, f \in Files :
           Deletes(u, f) => WholeLines(local[f]) \subseteq HeldLines(f)]_vars

\* A line that stays in its file gets to the bucket, while the bucket answers
\* time and again.
EventuallyHeld ==
    LET InFile(i) == \E f \in Files : i \in WholeLines(local[f])
        InObject(i) == \E f \in Files : i \in HeldLines(f)
    IN  \A i \in 1..MaxLines : InFile(i) ~> (InObject(i) \/ ~InFile(i))
=================================================================================
