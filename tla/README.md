# frostlog: formal models

TLA+ models of frostlog, the programs that watch and steer a portable cooler:
a Bluetooth gateway, a collector with its uploader and a controller on a
Raspberry Pi, and behind the bucket a warehouse build, a contract job and a
notifier. The models are translated from the Python under `src/`; TLC checks
them on small instances and TLAPS proves the theorems for every value of the
constants. `PROJECT.json` maps each definition to the lines it stands for.

## The system

```
 cooler <-BLE-> gateway --events.sock--> collector --record files--> uploader --PUT--> bucket
                   ^                                                                     |
                   +--commands.sock-- controller (every minute)       semantics: transform (hourly)
                                                                      contracts: job (daily)
                                                                      notifier (events, daily, weekly)
```

| Component | State | Operations | What is hard | What makes it correct |
|---|---|---|---|---|
| **Link** (`gateway/link.py`, `ble.py`, `endpoint.py`, `service.py`) | session, negotiation, last report, command in flight, lock, retry clocks | connect, negotiate, read, ask for the state, give up; take, write and follow one command | every `await` lets the other tasks run; writes fail, hang, or straddle a dropped link; acknowledgements without ids; three timeouts | one outcome for each request; one command at a time; a late acknowledgement is taken for nothing that is still open; no link or request held for ever |
| **Event stream** (`gateway/stream.py`) | process-wide number, a bounded queue and a loss count for each reader | emit, subscribe, hand over, drain, notice a hangup | slow readers, quiet hangups, restarts | each reader is told of everything, in order, one by one or as a count; nobody waits for anybody, not even for one who never reads again |
| **Negotiation** (`handshake.py`) | dialect, stage, cipher, MTU | answer a stage, try the second dialect | answers lost, late or of the dialect given up; a key that takes effect between an answer and its reply | both sides have the same cipher and MTU when it is taken for done |
| **Frames, commands** (`protocol.py`, `decoder.py`, `commands.py`) | fragments of incomplete messages | parse, join, decode; convert and frame a setpoint | interleaved, lost or repeated fragments; rounding there and back | a joined message is one the cooler sent, every notification is in an event; a setpoint is recognised again |
| **Recorder** (`collection/gateway.py`) | expected number, whether an outage was said | connect, read, record, account for what is missing | either process restarts, connections overlap | every hole is a row and as wide as it says; no event twice |
| **Record files** (`collection/store.py`) | a file for each stream and day | append, start a fresh line after a torn one | two writers, power cuts | a whole line is never welded to a fragment |
| **Uploader** (`collection/upload/`) | plan, cache of ends, what was confirmed | plan, ship, prune, save | files grow meanwhile, runs overlap or are killed, PUTs are lost or refused | objects tile the file; nothing missing or twice; only confirmed bytes deleted |
| **Ambient sensors** (`collection/ambient/`) | last sample | sample | I2C failures | a sample is as old as it says at most |
| **Controller** (`controller/`) | one judgment: home, failed attempts | compare, ask, store | late, lost or untrue answers, runs cut short, flapping presence | one change is written once, as far as the answers are true; it settles |
| **Transform service** (`semantics/service/`) | rows counted at the last build | count arrivals, build, announce, mark | fails before or after the effect of any call; rows arrive meanwhile; tables made anew | no row is hidden by a mark, every row is announced in the end |
| **dbt models** (`semantics/dbt/`) | tables | SQL | - | relational; covered by dbt's own tests |
| **Contract job** (`contracts/job/`) | the run in flight | test, report, ping | lost reports, kills, narrowed runs | a ping means that every contract was tested and passed |
| **Notifier** (`notifier/`) | the token | build, post; summarise | events delivered again, posts whose answer is lost, charts of too many points, grains and silences | a failed test is said; the figures are those of the rows; charts can be drawn |

The processes share nothing but sockets, files and the bucket. Each Python
process is one event loop or one thread, so a step of a model is what runs
between two awaits, or between two things another process can see.

## The modules

| Module | Models | Abstract or composed |
|---|---|---|
| `Feed` | what the event stream promises one reader | abstract specification |
| `EventStream` | `stream.py`: numbering, queues, reader tasks, sockets, restart | implements `Feed` for each reader |
| `Link` | `link.py` with `ble.py`, the endpoint and the shutdown | cooler, radio, panel, time are its environment |
| `Session` | `protocol.py`'s `Reassembler`, `handshake.py`, `Link._handle` | what one connection hears; the cooler is its environment |
| `Setpoint` | the setpoint in `commands.py` and `decoder.py` | pure functions, with their theorems |
| `Recorder` | `collection/gateway.py` | extends `EventStream`: collector and gateway processes composed |
| `Upload` | `upload/` with `store.py` | uploaders, the recorder's appends and the bucket composed |
| `Controller` | `run.py`, `state.py`, `gateway.py` of the controller | composed with the endpoint's line of requests |
| `Topic` | the Pub/Sub topic and what fails around it | shared by the next three |
| `Transform` | `transform.py`, `built_through.py`, `warehouse.py`, `app.py` of the transform service | |
| `ContractJob` | `contracts/job`: run, test, report, ping | |
| `Notifier` | `service.py`, `app.py`, `slack.py`, `quality.py` of the notifier | |
| `Signals` | | the three services on one topic |
| `Folding` | `folding.py`, `queries.py`, `clock.py`, `charts.py` | pure functions |
| `Daily`, `Weekly` | `daily.py`, `weekly.py` | pure functions over `Folding` |
| `Summaries` | | both summaries over a warehouse that fills up |
| `LinkProofs`, `SessionProofs`, `UploadProofs`, `ControllerProofs`, `SummariesProofs` | theorems about the module of the name | |
| `RecorderProofs`, `SignalsProofs` | theorems about `EventStream` and `Recorder`, about `Transform` and `Signals` | |
| `...MC` | the instances for TLC | |

How state and actions correspond to the code:

* **EventStream.** `seq`, `queue`, `lost`, `lostCount` are `EventStream._seq`
  and `Subscriber._events`, `_lost`, `_lost_count`. `phase` says at which await
  a reader's task is: `asyncio.wait` or `drain`. `wire` is the socket; `pos` is
  history, the last number a reader's lines account for. An event is its
  number. When the gateway ends, the kernel keeps what it was given and
  asyncio's own buffer is gone, so a socket keeps some prefix (`Kept`). `Steady` are the
  readers whose peers go on reading; any other peer may stop for good without hanging up,
  and its task then stands in `drain` for ever.
* **Link.** `loop` is where `Link.run` is, `phase[c]` where the task of request
  `c` is; both are at an await between steps. `lock` is held across
  the write of a command (`Accept` to `Sent`, `WriteHangs`, `WriteRefused`) and
  across the handling of a notification. `Handle` does what `_handle` does up to
  its one write, the answer to a negotiation stage, which is the phase
  `answer`. Timeouts are flags that time raises (`seenOld`, `messageOld`,
  `pending.due`). A negotiation is two stages here, one answered and one final. A
  message is one the gateway acts on: an acknowledgement, a report, a stage.
  `Ack(c)` carries the command it is for as history that no guard reads. `WriteRefused` is
  a write that raises: the frame may have reached the cooler before that or not (`Reach`).
* **Session.** `negotiation` is `_SessionState` with its handshake, `pending` the
  `Reassembler`. All stages of both dialects, by number; `Reply` is built from what
  `Advance` made of the answer, the key included. `asked` is what the cooler has not
  answered: it answers in its own dialect what it can read. A fragment is its kind
  and its number, counted over all messages of the kind; `Handle` is `_handle` with
  `Reassembler.add`. `handled` and `told` are history.
* **Recorder.** `conn` is one of `EventStream`'s readers; `rows` is what the sink
  got. `GatewayAccepts` is apart from `Connect` since the kernel accepts a
  connection before the gateway's task for it starts, and it may never start.
* **Upload.** A line is two bytes, so that a torn one exists; an object is its
  `start`, its `end` and the lines in its body. `Plan`, `PutLands`,
  `PutRefused`, `PutFails`, `PutOffline`, `Prune`, `Finish` are the steps of
  `Upload.run`, one file or one object each. What a run read of a file is fixed
  when it opens it (`data`). `NoEntry` is a file the cache says nothing of, which is not the
  same as one it says to be uploaded up to byte 0. What it has still to do is a set (`todo`) with the order
  of the paths (`FirstOf`), which is what a sorted list is. Free disk space is asked for anew each time and may
  differ each time.
* **Controller.** A run is one step up to its request and one step after its
  answer; `queue` is the line at `Link._lock`, each request marked `live` while
  somebody waits for it. `Reject`, `WriteFails` and `Take` are the ways out
  of `Link.command`: refused before the write, the write raised (its frame gone or not), and
  taken. `change`, `writes`, `cutShort`, `denied` and `tries` are history; `denied` are the
  refusals the run was told of frames that had gone.
* **Transform.** `mark` is `built_through.json`, `job` one call of `transform_due`:
  the mark it read, the counts it has, what the build was given. The number of rows
  stands for the rows; `age` tells a table from the one it replaced, and no guard
  reads it. Each call outside the process may raise before its effect (`Fails`) or
  after it (`AnnounceRaises`, `WriteMarkRaises`).
* **ContractJob.** `testing` is the run: the contracts chosen, their results, how many
  reports are out. A result is the environment's choice. `Finish` pings or not, since
  a ping may fail or have no address.
* **Notifier.** `token` is the cached property `Slack.token`, with one value for not
  asked yet. Deliveries share only it, so each is a step: `Post` has a disjunct for each
  way a post may go. A defect may be met at Slack, or before it at Secret Manager or the
  warehouse (`AsksFirst`), with the token asked for or not. `channel` and `unsaid` are history.
* **Folding, Daily, Weekly.** Time is a number of quarter hours, a ratio is in percent,
  an average is a total with its weight, and a slope a change with its seconds, so
  that nothing is divided. `Summaries` writes the rows of one stretch of battery,
  charging or silence at a time, and the summaries are taken at the end of each and before
  anything was heard (`latest = None`: `DailySummary` says nothing). The table ends with the
  last slot that was heard, as `fact_cooler_snapshot.sql` makes it, and the slots of a
  silence get their rows once it is over; the last reading is dated with the end of its
  slot. How the rows come about is the environment's (`Heard`, `Off`).

## What the runs show

| Run | Instance | Shows |
|---|---|---|
| `event_stream` | 2 readers, queue of 2, socket of 1, 5 events, restarts; 1 reader steady | `Accounting`: told, lost and queued tile the numbers. `FeedPromise`: refinement of `Feed`. `EventuallyTold`, of the steady reader; `HangupNoticed`, of both |
| `link` | 2 requests, 2 setpoints, both dialects, 2 connections, 1 notification queued | `StoryInOrder`, `EveryEndReported`, `CommandInFlight`, `AckHandledAfterWrite`, `MisreadAckIsOver` |
| `link_live` | 2 requests, 1 setpoint, 1 dialect, 1 connection | `EventuallyEnded`, `DeadLinkCloses`, `StopEnds` |
| `session` | messages of 2 and of 3 fragments, the former filling the MTU, 2 of each, 3 notifications lost, 1 repeated | `JoinedIsOneMessage`, `EveryNotificationKept`, `Understood` |
| `recorder` | 2 connections, queue of 1, 3 events a gateway, 2 gateways, 2 collectors, 3 connects | `RowsAreTheStream`, `OutagesAreRows`, `EventuallyRecorded`, `AbsenceIsSaid` |
| `upload` | 1 uploader, 2 streams over 2 days, 3 lines, 1 line an object, 2 faults | `NoGapNoDuplicate` (with `Tiled`), `CacheNeverAhead`, `DeletedWasConfirmed`, `EventuallyHeld` |
| `upload_overlap` | 2 uploaders, 3 files, objects of 2 lines, 1 fault | `NoGapNoDuplicate` when runs overlap |
| `controller` | 2 attempts, 4 moves, 2 faults | `WrittenOnce`, `LatestWins`, `GivenUpInFull`, `Settles` |
| `signals` | 2 tables, 2 rows, tables made anew once, 1 run of the job, 1 fault | `NothingHidden`, `EventuallyAnnounced`, `QuietMeansFine`, `FailureSaid` |
| `summaries` | stretches of 1, 7 and 80 slots in 5 modes, 3 of them, from midnight or a quarter to two | `ChartsAreDrawn`, `FoldingLosesNothing`, `OutlookHolds` |
| `link_late_ack`, `upload_midnight` | as `link` and as `upload`, without faults | violations, see below |

Five of the runs check a type invariant besides. `TypeOK` of `EventStream` bounds the queues,
that of `Upload` says that a cut is at the end of a line, that of `Controller` that
only the request made last has somebody waiting.

**Bounds, and why they are enough.** A queue of two overflows, drops twice in a
row and drains with five events; the recorder's queue of one overflows with
two. Two requests are what it takes to collide, two connections what it takes to
mistake one for the other. Three notifications lost are what it takes to lose a message
of three fragments whole, which is the one loss `JoinedIsOneMessage` has to except:
the fragments before and after it fit together and the count cannot tell. Three
lines give a file that is sent, grows and is sent again, with one line an object
giving runs of several objects and two lines an object giving starts with different
ends. Four moves are a change, its undoing and a second change with its undoing; two
faults let a second one hit the recovery from the first. Two rows before and two after
a table is made anew give a table below, at and above its mark. Eighty slots are more
than Slack draws at any fine grain, and two such stretches fill the 48 hours of the
daily summary and cross a midnight; seven are fewer than a slope takes. `MaxSeq`,
`MaxLives`, `MaxRuns`, `MaxConnects`, `MaxConnections`, `MaxInbox`, `MaxLines`,
`MaxDay`, `MaxMoves`, `MaxFaults`, `MaxMessages`, `MaxLost`, `MaxTwice`, `MaxRows`,
`MaxAge`, `MaxStretches`, `Lengths` and `Starts` bound counters or the environment and
have nothing in the code; `MaxInbox` keeps the cooler from talking while a notification
waits, which the loop cannot tell from a cooler that talks later. `QueueLimit`,
`HighWater`, `MaxChunk`, `KeepDays` and `MaxAttempts` are the code's own, made small.
`SignalsMC` lets a behaviour be one of rows that come or one of tests and summaries
(`half`): the two meet only on the topic, and the notifier answers `semantic_updated`
without touching anything. The proofs about `Signals` are of the whole.

**Deadlock** is checked where the system can always go on. It is off in `Link`,
which really stops (`Shutdown`), in `Session`, whose connection ends, and in `Signals`
and `Summaries`, which are over when the bounds of their environment are used up.

**Symmetry** is used in two runs of safety properties only: the requests and
setpoints of `link`, the uploaders of `upload_overlap`.

**Fairness.** Event loops run ready tasks and hand locks on in order, so the
session loop and each request task are weakly fair; time passes. Systemd timers and
Cloud Scheduler start run after run, so an uploader's, a controller's and a transform's
run are weakly fair (`TransformFairness`). Pub/Sub delivers until it is answered with
200 (`DeliveryFairness`). Nothing is assumed of the cooler, the radio, the clients, of a
gateway coming back, or of a gateway answering, nor of the contract job, which nobody
starts again. Of the peers of the event stream only the steady ones go on reading
(`Steady`); in `RecorderFairness` that is the collector, whose task reads the connection
it is on. The bucket, the warehouse and Slack answer again after a bounded number of faults, without
which nothing could ever get anywhere.

## What the violations show

* `AcceptedIsItsOwn`: an acknowledgement names no command, and `_accept` takes a
  command on a link that an earlier hung write has given up but the loop has not
  left yet, or after an earlier command expired. A late acknowledgement is
  then reported as the new command's, against the data contract. `MisreadAckIsOver` says how
  far that can go: the acknowledgement is of the same link and of a command whose outcome
  is out already.
* `DeletedIsUploaded`: a file is pruned after midnight on the size measured
  before it. It takes a low disk, since a file of yesterday is not old.

Other places where the code and its text differ, met while modelling. They are in the
models as the code has them, and no run is spent on them:

* The session loop is left as soon as the link is down or a stop comes; what its queue
  still holds becomes no `message` event, against `link.py:3`. Nor do the fragments
  collected so far when a write of the loop raises (`link.py:168` is not reached); this
  is why `EveryNotificationKept` speaks of `phase # "left"` only.
* The bucket's end is an offset into the file that was there before a card was written
  anew (`sync.py:18`): on the same day, the new file's lines below it are taken for
  uploaded. `PowerCut` in `Upload` cuts nothing that was sent, since it would end likewise.
* A refusal is meant to say that nothing was written ("the frame did not go, and the client
  may ask again", `link.py:277`; "it was never written", `contracts/collection.odcs.yaml:369`),
  but `link.py:276` answers so on any exception of the write, and a link that drops between
  the frame's arrival and the cooler's response raises one. `Link` has it so (`WriteRefused`
  after `Reach`), and no property of `Link` says that a refused request was not written: it
  does not hold. What it costs is in `Controller` (`WriteFails`): the run is told no and asks
  again, and one change is written twice with no run cut short. `WrittenOnce` counts exactly
  these (`denied`).
* The empty time counts from now and the projection from the last reading (`daily.py:334`,
  `daily.py:100`); after a quiet spell the message forecasts 0 % for the morning, which
  `_lead` calls "true and useless" (`daily.py:323`). `OutlookHolds` says how far apart the
  two can be: by what the battery falls between the reading and now.
* Without a token a notification is logged and answered with 200, so it is not "posted
  for real once a token is there" (`slack.py:4`); and an instance that has found no token
  keeps that for its life. `FailureSaid` counts these as given up (`unsaid`).
* "the event arrives once" (`service.py:42`) holds of the publisher, not of the topic: a
  post whose answer is lost is made again.
* A table made anew that stands at exactly the count of its mark looks unchanged. The
  two properties of `Transform` except it.

## What is proved

For every value of the constants, from the assumptions the modules name:

* **EventStream**, for any set of readers, any positive `QueueLimit` and any
  `HighWater` and `MaxSeq` (`QueueLimitAssumption`, `SteadyAssumption`, `BoundsAssumption`): `TypeOK`,
  `Accounting`, and the refinement `FeedPromise`. The inductive invariant is
  `TypeOK /\ Accounting`: `Accounting`'s arithmetic needs the types, and its third part,
  that something is lost only while the queue is full, is why the stand-in covers
  exactly all but the newest `QueueLimit` (`DroppedSkips`) and why appending to a full
  queue moves the account by one (`PutAccounts`). `StepFeed` maps each action to a step
  of `Feed` or to none.
* **Link**, for any requests, setpoints and connections (`NoneAssumption`,
  `NoRecordAssumption`, `CommandsAssumption`, `DialectsAssumption`,
  `LinkBoundsAssumption`): all six properties of run `link`. `IInv` adds to
  `TypeOK` (whose part `LockType` is the critical section) `LoopInv`, when there is a
  session and a message held; `PendingInv`, that the command in flight is done, answered
  with accepted, on the link that is up, with nobody writing; and `TaskInv`, what each
  phase of a task says of its story and of what the cooler may have had. No property of
  the six is inductive without the others: a story is in order because what is pending
  has no end, which is so because whoever ends it clears it. For `MisreadAckIsOver`,
  every acknowledgement that is under way is of a command whose frame got to the cooler on
  the link that is up (`AckInv`).
* **Recorder**, for any connections, queue limit and bounds (`RecorderBoundsAssumption`):
  `RecorderTypeOK`, `RowsAreTheStream`, `OutagesAreRows`, and that `Accounting` and
  `FeedPromise` survive the composition. What is added is the way of a line: the lines on
  the socket and in the gateway's buffer follow each other, each as far as it counts
  (`Chained`, `From`), the first follows what the recorder expects next (`ToCome`), and
  what is in the rows is what was read (`SoFar`). `LastTold` and `LastSaid` say which row
  the recorder's two memories stand for; without them, a row after a restart could be one
  too many or too few.
* **Upload**, for any files, chunk size, bounds and number of overlapping uploaders
  (`FilesAssumption`, `UploadBoundsAssumption`): all four safety properties. The invariant
  has a witness, the bytes that a file has had from its beginning (`c`), that outlives the
  file: the objects are cut from it end to end at ends of lines (`Laid`, `CutFrom`), the
  file goes on from where it was cut (`GoesOn`), and every mark that anybody holds, in a
  cache, a plan or an answer under way, is the end of something laid (`Marked`). Two runs
  that overlap put the same object or are refused, since a free start is the end of the
  bucket (`FreeIsTheEnd`).
* **Session**, for any kinds of messages of two fragments or more (`FragmentsAssumption`):
  `Understood`, `EveryNotificationKept` and `JoinedIsOneMessage`. For the first, `OneRequest`
  (one request of each dialect is under way), `Untouched` (a cooler not spoken to in its
  dialect is as it began) and `InStep` (how far the request under way says both sides have
  come); without `OneRequest`, a late answer could turn one side back. For the others,
  `CollectionInv`: each fragment that was held is in one place (`HeldOnce`), and what is
  collected or joined came in a row with nothing handed on between (`InARow`). That a
  joined message is one message is then counting: fragments that fit and are of two
  messages are at least a message apart (`FarApart`), and all between were lost
  (`LostAtLeast`).
* **Controller**, for any `MaxAttempts`, moves and faults (`NoneAssumption`,
  `MaxAttemptsAssumption`, `BoundsAssumption`): `TypeOK`, `WrittenOnce`, `LatestWins`
  and `GivenUpInFull`. `StepEffects` says what any step does to the requests that wait and
  to what was written, in six kinds; `OrderInv` and `OnceInv` are then kept by each kind.
  `OnceInv` counts a request that waits as written already, and gives the change of the
  moment its one write only while its request is `Open`, not refused, and one more for each
  refusal of a frame that had gone; `TriesInv` relates the
  requests made to the failures stored and to the runs cut short.
* **Transform**, for any tables in any order: types and `NothingHidden`. What is
  added is an order: raw covers what was counted, which the build covers, which the
  announcement covers before the mark does (`MarkIsCovered` to `CountIsAnnounced`).
* **Signals**: `QuietMeansFine`, from `RunIsRecorded` (what a run has found so far is what
  its history says, each contract being tested once), and `NothingHidden` of the composition:
  no other service touches the variables of `Transform`'s invariant.
* **Summaries**, for stretches of any length, any number of them and any beginning
  (`NoneAssumption`, `ReasonsAssumption`, `ReadingAssumption`, `BoundsAssumption`): all three properties of run
  `summaries`. The inductive part is small (`WarehouseInv`: the table is dense and of
  snapshots, which is a lemma about the environment and says nothing of the code); the rest is about the functions. A sum is a fold of the community modules,
  and what holds of sums (`SumOfGroups`, `SumOfBoth`, `SumAtMost`) is shown by the least
  subset it would fail for (`SubsetsHaveIt`). A grain divides the day, so that a group and
  the points of the clock it covers are the same (`GroupIs`); two days are three points of
  the coarsest grain wherever they begin (`TwoDaysFit`); and the last readings of the
  stretches less the first ones are all the falls within and between slots
  (`StretchesAddUp`).
* **Setpoint**: every setpoint fits its byte, one that was written is recognised again
  in either unit in spite of two roundings, and one written in the wrong unit never is.

The invariants were invariants of TLC runs on the same instances before they were proved.

Every invariant and every action property that a run checks is proved. Only model-checked
is what is checked under fairness (`EventuallyTold`, `HangupNoticed`, `EventuallyEnded`,
`DeadLinkCloses`, `StopEnds`, `EventuallyRecorded`, `AbsenceIsSaid`, `EventuallyHeld`,
`Settles`, `EventuallyAnnounced`, `FailureSaid`): the prover does neither liveness nor
ENABLED.

## What is not modelled

* Cryptography, the layouts of frames and of state reports (`handshake.py`,
  `commands.py`, `decoder.py`): what the link does with the result is modelled, and the
  setpoint's own way through them; the bytes are not.
* A notification that is no frame, or whose checksum fails: it becomes an event of its
  own and touches no state.
* Lines on the event socket that are not the gateway's: none are served.
* The recorder's open file across a deletion; a record stamped on one day and
  appended after a later one's.
* The unit of the display in `Link`: `Setpoint` says what a switch does to a value.
* The temperature chart, the pulldowns and the wording of the summaries: a chart of two
  series over the same points as the charge's, and layout.
* The day's energy and its comparison with the day before, which are sums of another table
  (`queries.py:136`, `daily.py:393`), and the week's balance (`weekly.py:66-74`): figures
  derived from sums, without a decision of their own.
* SQL (dbt models, raw tables): relational, without steps, covered by dbt's own tests.
* Sensors, command lines, settings, parsing of presence and of configuration: no state
  that outlives a call.

## Plan

1. A second refinement: what `Upload` promises of one file in the bucket as an abstract
   append-only archive (an object is only ever added at the end of what is there), the
   step proved from `UploadIInv`, with line numbers that rise along the cache added to it.
2. A gateway of `Link` and `EventStream` composed: the stories of `Link` as the events of
   the stream, so that a client reads them in order or as a measured hole.
3. `Controller` over `Link` itself instead of its line of requests, so that `denied` is
   derived from the links that drop during a write.
