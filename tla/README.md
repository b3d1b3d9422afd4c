# image-optimizer: a TLA+ verification project

image-optimizer stores uploaded images in an S3 bucket (MinIO), and serves
AVIF variants of them on demand. An API process answers `POST`, `GET`, `HEAD`
and `DELETE /images`; worker processes generate variants from a RabbitMQ queue;
both generate through imgproxy, and both keep their state in the same Postgres
database and the same bucket. There is no lock anywhere: what keeps the parts
consistent is the order of their calls and a handful of SQL statements. This
project models those calls one by one, lets them interleave and fail, and checks
and proves what holds all the same.

## 1. Inventory

| Part | Source | State | Operations | Module |
| --- | --- | --- | --- | --- |
| Metadata store | `internal/db/{images,variants,models}.go`, `migrations/` | rows of `images` and `variants` (status, attempts) | one per SQL statement | `Store` |
| Object storage | `internal/storage` | originals and variant objects | put, delete, paged prefix delete | `Blobs` |
| Queue client and broker | `internal/queue` | ready and unacknowledged messages | publish, deliver, ack, requeue | `Broker` |
| Variant generation | `internal/variantgen` | program counter only | `TransformAndPersist` | `VariantGen` |
| GET / HEAD | `internal/http/handlers.go` | program counter, answer, counters | `resolveVariant`, `syncGenerate`, `waitOrSync`, ... | `Resolve` |
| Worker | `internal/worker` | program counter, attempt number | `process`, retry, acknowledgement | `Worker` |
| DELETE | `internal/http/handlers.go`, `internal/storage` | program counter, listing position | `handleDelete`, `DeleteImageFiles`, `deletePrefix` | `Delete` |
| Upload and copy | `internal/http/handlers.go` | program counter, answer | `handleUpload`, `handleCopy` | `Ingest` |
| What clients see | the handlers above | image, variant, object, request | promises to clients, without a queue or program counters | `VariantCache`, `ClientView` |
| Waiting | `waitOrSync`, `syncGenerate` | time spent, timers | look, sleep, last look, generate | `Waiting` |
| Transform parameters | `internal/transform`, `internal/imgproxy/path.go`, `variantgen.ParamsFromJSON` | rows and objects by hash | parse, normalise, hash, path | `Params` |
| Readiness | `internal/http/ready.go`, `db.Store.Ping`, `queue.Client.Ping` | budget, pending pings, goroutines | `CheckReady` | `Readiness` |
| Start | `cmd/app/main.go`, `internal/config`, `internal/db/{migrate,pool}.go`, `storage.New`, `queue.Connect` | schema, bucket, program counter | `config.Load`, `Migrate`, `ensureBucket`, `Connect` | `Startup` |
| Stop of the API | `cmd/app/main.go` | listeners, `errCh`, requests, pool | `serveSingle`, `serveDual`, `waitShutdown` | `Serve` |
| Stop of a worker | `cmd/app/main.go`, `queue.Consume`, `worker.process` | signal, delivery channel, exit code | `runWorker`, `Consume` | `WorkerRun` |
| Folder check, routes, histograms and gauges, imgproxy's HTTP details | rest of `internal/` | none that changes | | not modelled (section 6) |

How they interact. A request whose `INSERT` creates the variant row publishes a
job and generates the variant itself; every other request for it polls the row
and, when its deadline passes, generates it too. A worker takes the job, looks at
the row, counts an attempt, generates, and acknowledges, requeues, or marks the
row failed. A `DELETE` removes the original, then the objects under
`variants/{id}/` page by page, then the row and by cascade the variants, while
requests and workers are still writing. An upload stores the original and then
the row; when the second fails it tries to take back the first.

What is hard here, and what makes each part correct:

* *The job of a variant* may be lost (no publisher confirms), delivered twice
  (crash before the acknowledgement, lost connection) or outlive its row. It must
  be one job at most (`SingleJob`), kept while the variant is pending
  (`JobKept`), and consumed for good in the end (`EveryJobSettles`).
* *The status of a variant* is written by requests and workers with unconditional
  `UPDATE`s. Ready must mean that there is an object (`ReadyHasObject`), failed
  that the attempts are used up (`FailedExhausted`).
* *A DELETE* races generation, other DELETEs and its own partial failures. 204
  must be final for the rows (`DeletedRowsGone`), a failed DELETE repeatable
  (`RowOutlivesOriginal`), its listing must end (`EveryDeleteEnds`).
* *A request* reads the database several times and acts on what it read. It must
  end (`EveryRequestEnds`) and answer 404 only when that is so (`NotFoundIsTrue`).
* *An upload or copy* is two writes to two systems with a best-effort undo: 201
  must mean both (`CreatedIsStored`), and what is left over must come from
  requests that were not answered 201 (`UnnamedIsUnfinished`).

* *A transform* is generated from the parameters in its row, which another request
  may have written: each request must be served what its own query asks for
  (`ServedAsAsked`).
* *Waiting* has a pause, a deadline and a second timeout: an answer must come within
  two timeouts (`EndsWithinTwoTimeouts`), and waiting requests must not overtake the
  one that generates (`WaitersGenerateLast`).
* *A probe* of `/ready` shares one budget between two pings and leaves goroutines
  behind: it must keep the budget (`AnsweredInTime`) and they must end
  (`FewLeftBehind`, `LeftoversEnd`).
* *Starting* is a race of all processes to create the schema and the bucket: besides a
  missing dependency or certificate only a lost race for a table may make one fail
  (`FailsOnlyIfDown`), and all must run in the end (`EveryProcessStarts`).
* *Stopping* shares one grace period between two servers and meets a worker at any of
  its calls: the exit must come (`StopsWhenTold`, `StopsWhenSignalled`), tell the truth
  (`FailureIsReported`, `CleanExitCutNothing`), close the pool last (`PoolClosedLast`),
  and cost no job (`JobSurvivesStop`).

`PROJECT.json` lists the hazards one by one, at the line where each bites, with
the properties that would catch it.

## 2. Modules

```
FaultBudget <- Store <- Blobs <-+- Delete -----+- Lifecycle <- MCLifecycle
                  ^             |- Ingest -----'
                  |             |
                  '-- Broker <--+- VariantGen <-+- Resolve -.
                                                '- Worker ---+- ImageOptimizer <- MCImageOptimizer
                                   Delete -------------------'        ^
                                                        ImageOptimizerProofs <- JobProofs <-+- DeleteProofs -.
                                                                                            '- StatusProofs -+- ClientViewProofs
ImageOptimizer <- ClientView -- INSTANCE VariantCache
ClientView <- ClientViewProofs
ClientView, MCImageOptimizer <- MCCasts

Lifecycle <- LifecycleProofs

FaultBudget <- Waiting, Readiness \
                          Params   +- MCAnswers
FaultBudget <- Startup, WorkerRun \
                           Serve   +- MCProcesses

MCAnswers <- AnswersProofs;  MCProcesses <- ProcessProofs
```

The second group (`Waiting`, `Readiness`, `Params`, `Startup`, `Serve`, `WorkerRun`)
holds the parts whose questions are not about the interleaving of database calls: time,
processes that start and stop, and pure functions. Each is a specification of its own,
with only the state its questions need. `MCAnswers` and `MCProcesses` check three of
them each: these share no variable but the fault count, so a behaviour is one of its
parts', chosen by the initial state, while the others rest. Nothing is composed by
that; it keeps related questions in one run at the sum of the parts' states.

`MCCasts` gives `ImageOptimizer` instances with a *cast*: the processes that take part,
what they ask for and delete, and the faults that may happen. Whoever is not in the
cast of a behaviour never begins. Six small casts show the races in question at the sum
of their states; all seven processes at once would cost the product.

Every handler is a process whose program counter names its *next call* to a
shared system. One action is one call together with the local computation up to
the next, so everything that another process can observe or disturb lies between
two actions.

| Module | Variables | Actions and the code they stand for |
| --- | --- | --- |
| `FaultBudget` | `faults` | `Fault`: spends one unit of the fault budget |
| `Store` | `imageRows`, `status`, `attempts` | operators named for the statements: `InsertPending`/`InsertConflicts`/`InsertRefused` are the three outcomes of the upsert's `INSERT`; `MarkReady`, `MarkFailed`, `IncrAttempts`; `DeleteImage` with its cascade; `InsertImage` |
| `Blobs` | `originals`, `avifs` | `SaveOriginal`, `WriteVariant`, `DeleteOriginal`, `DeleteObjects`; `Page` is one answer of `ListObjectsV2` |
| `Broker` | `queue`, `unacked` | `Publish` (may lose the message), `Deliver` (`Qos(1)`), `Ack`, `Requeue` |
| `VariantGen` | `job`, `gen` | `GenImage`, `GenFetch`, `GenWrite`, `GenMark`: the calls of `TransformAndPersist`; `GenFails`: one of them fails, before or after its effect |
| `Resolve` | `rpc`, `rcode`, `via`, `counted` | the calls of `resolveVariant` and what follows; `CallFails`, `RequestLost` |
| `Worker` | `wpc`, `tries` | `Receive`, `Lookup`, `CountAttempt`, `Generated`, `GiveUp`, `Backoff`, `Acknowledge`; `StatementFails`, `Crash`, `ConnectionLost` |
| `Delete` | `dpc`, `dimg`, `dcode`, `token`, `page`, `more`, `fileErr` | `DeleteGetImage`, `DeleteOriginalFile`, `ListPage`, `DeletePage`, `DeleteRow`; `DeleteCallFails`, `OriginalFails`, `ObjectsKept`, `DeleteLost` |
| `Ingest` | `upc`, `ucode`, `source` | `GetSource`, `ReadOriginal`, `SaveNewOriginal`, `InsertNewImage`, `Undo`; `ReadFails`, `SaveFails`, `InsertFails`, `IngestLost` |
| `ImageOptimizer` | all but `Ingest`'s | GET, HEAD, DELETE and workers together; the properties of the pipeline |
| `Lifecycle` | `Store`, `Blobs`, `Ingest`, `Delete` | POST and DELETE together |
| `VariantCache` | `image`, `variant`, `object`, `phase`, `wanted`, `answer`, `deleted` | abstract: what clients may rely on; `MayAnswer` says when which status may be answered |
| `ClientView` | none of its own | the refinement mapping from `ImageOptimizer` to `VariantCache` |
| `Waiting` | `row`, `settled`, `step`, `waited`, `age`, `timer`, `code` | `WaitArrive`, `Look`, `Wake`, `LastLook`, `SyncGenerate`, `Leave`; `WorkerMarks`, `ImageDeleted`, `WaitTick` |
| `Params` | `query`, `pc`, `rows`, `objects`, `body` | the functions of `transform`, `ParamsFromJSON` and `BuildPath`; `Receive`, `Upsert`, `Generate`, `Serve` |
| `Readiness` | `pg`, `broker`, `conn`, `silence`, `ppc`, `spent`, `since`, `failed`, `readyCode`, `inspect`, `leftover` | `PingPostgres`, `PingRabbitMQ`, `InspectReturns` (the goroutine), `Select`, `LeftoverEnds`; the dependencies and `ReadyTick` |
| `Serve` | `mtls`, `signalled`, `listener`, `reported`, `errCh`, `mpc`, `cause`, `srv`, `reads`, `result`, `elapsed`, `pool`, `req`, `at` | `TakeSignal`, `TakeError` (the `select`), `Shutdown`, `Drained`, `Collect`, `CloseDeps`, `Exit`; `Report` (a server's goroutine); requests |
| `WorkerRun` | `status`, `attempts`, `failures`, `queue`, `unacked`, `conn`, `buffer`, `cancelled`, `wpc`, `cur`, `exit`, `stops` | `Take`, `TakeDone`, `TakeClosed` (the `select`), `Lookup` to `Settle` (one job), `Leave`, `Start`; `SignalWorker`, `ConnectionLost` |
| `Startup` | `env`, `up`, `versions`, `tables`, `bucket`, `pc` | `LoadConfig` (`Load` is `config.Load`), `ReadVersion`, `CreateVersionTable`, `ApplyMigration` (the three steps of `goose.Up`), `OpenPool`, `HeadBucket`, `CreateBucket`, `ConnectQueue`, `LoadClientCA`; `StartAgain` |

The refinement. `VariantCache` has an image that is stored, deleting or gone, a
variant with its status, its object, and requests that are asked, admitted while the
image is there, and answered once with a status that the state at that moment
justifies. `ClientView` reads this off the detailed state: an image is *deleting* from
the moment a DELETE has found its row, a request is *open* from its image check to its
answer. `ImplementsCache` (`Cache!Spec`) then says of every step of every process that
it is one that clients were promised or one that they cannot see. One promise is
weaker than one would wish, and that is what the code gives: a HEAD may be answered
200 in the course of a DELETE when the object is gone, because it reads the row alone.

The composition is in two parts because an image id is known to nobody before its
upload is answered: generation cannot race the upload of its own image, and a copy
touches no variant. Both parts share `Delete`.

Abstractions. A variant row is named by its `(image_id, params_hash)` pair: the
row's own id stands for the same, since a row goes only with its image and ids are
not reused. Contents are not distinguished: every write of a variant writes the
same transform of the same original. A poll that finds the row pending changes
nothing and is no step. Which requests are well-formed, how long a call takes,
and whether a deadline has passed are choices. The folder check makes every
original's key begin with `storely/` and every variant's with `variants/`, so the
two kinds of object are two sets. Malformed messages and ids that are no UUIDs in
a message have no producer and are left out. S3 answers no empty page that is
truncated.

Where time matters it goes by in ticks (`Waiting`, `Readiness`, `Serve`): a call that
needs less than a tick is made before the next one, so a process waits only where the
code waits. In `Waiting` the statements of a request take no time; a database that
answers slowly adds its own, since statements have no timeout. In `Readiness` a
dependency answers within a tick, is stalled, or is down, and a stalled broker's
connection is closed after `Heartbeat` ticks. SHA-256 is taken to be injective in
`Params`, and the order and spelling of the canonical key, the JSON and the path are
records there. `Serve` abstracts a handler to statements on the pool between two
moments of computation. `WorkerRun` has a single worker, and nothing else touches its
variants: what other processes do to them is `ImageOptimizer`'s. `Startup` gives every
setting one of the values unset, good and bad; a bad one is either refused by
`config.Load` or makes the calls fail that use it. `Publish` fails in one way: a message
that the client refused and one that the broker lost without an error are not told apart,
since `publishBestEffort` goes on alike.

## 3. Runs

Symmetry is over requests, workers and deletes, where nothing else tells them apart,
and only in runs of safety properties. `CHECK_DEADLOCK FALSE` is in
every configuration because every request is served once: when all are answered
and the queue is empty the modelled system has really stopped.

| Run | Bounds | Properties |
| --- | --- | --- |
| `Pipeline` | 1 variant, 2 GETs, 2 workers, 3 attempts, 1 fault | `TypeOK`, `SingleJob`, `FailedExhausted`, `AttemptsWithinBudget`, `JobKept` |
| `Delete` | 6 casts: a GET or a HEAD with a worker and a DELETE (2 variants, 1 cached, 1 fault); a GET and a HEAD with a DELETE (1 fault); a HEAD with 2 DELETEs (1 fault); 2 GETs over 2 images with a DELETE (no fault); a GET and a HEAD with a worker (no fault). Pages of 1 key, 1 attempt | `DeletedRowsGone`, `RowOutlivesOriginal`, `ReadyHasObject`, `NotFoundIsTrue`, `ImplementsCache` |
| `Lifecycle` | 1 upload, 1 copy, 2 DELETEs, 3 images, 1 fault | `TypeOK`, `CreatedIsStored`, `RowHasOriginal`, `UnnamedIsUnfinished` |
| `Live` | 2 casts: a GET, a HEAD and a worker (1 variant); a GET, a worker and a DELETE (2 variants, 1 cached). 2 attempts, 1 fault | `EveryRequestEnds`, `EveryJobSettles`, `EveryDeleteEnds` |
| `Answers` | `Waiting`: 3 requests, timeout 5, pause 2; `Readiness`: 2 probers, budgets 2 and 2, heartbeat 5; `Params`: 2 GETs, the 48 queries of `MCAnswers`. 2 faults | `TypeOK`, `EndsWithinTwoTimeouts`, `NoticedWithinAPause`, `WaitersGenerateLast`, `AnsweredInTime`, `FewLeftBehind`, `EveryProbeEnds`, `LeftoversEnd`, `ServedAsAsked`, `OneRowPerResize` |
| `Processes` | `Startup`: 2 APIs, 1 worker, 8 environments; `Serve`: 1 or 2 servers, 2 requests, grace 3 after a signal, 1 after a failure; `WorkerRun`: 2 jobs, 3 attempts. 2 faults | `TypeOK`, `RunningHasStores`, `FailsOnlyIfDown`, `EveryProcessStarts`, `CutOnlyAfterGrace`, `PoolClosedLast`, `FailureIsReported`, `CleanExitCutNothing`, `StopsWhenTold`, `JobSurvivesStop`, `StopCostsOneAttempt`, `StopsWhenSignalled`, `LossIsRepaired` |

Why these bounds are enough for the cases that matter. Every race here is between
two processes at a time: two requests race the upsert, two workers hold one job
after a lost connection, two DELETEs share an image; a third of a kind repeats
what the second can do. One variant suffices where the property is about a single
row; two of one image, with pages of one key, make a listing continue while one of
its keys appears or goes; a second image shows that a DELETE harms no other. The
number of attempts is the code's three where attempts are counted and smaller where
they only lengthen the run. `MaxFaults` bounds crashes, lost connections, lost
replies and kept objects together, none of which the code itself limits; all other
failures (a transform that fails, an expired deadline, a failed statement of a
request) cost nothing and may happen at every step. The casts without a fault are those
whose properties the free failures concern. In `Delete` two requests wait for each other,
two DELETEs share an image, and each kind of process meets each other kind.

The second group. `Waiting`'s timeout is no multiple of its pause, so that a deadline
falls into a sleep, and with three requests two wait while the third generates.
`Readiness` has the code's 2 seconds for both budgets and a heartbeat longer than
either, so that several probes leave goroutines behind before the connection is closed;
two faults let both dependencies fail, or one fail twice. In `Serve` two requests
make both servers busy, or one twice; the two grace periods differ as in the code. Two
jobs let `WorkerRun` be stopped with one in hand and one in the queue. `Params` needs
two requests because a row has one author and one reader at a time; its queries combine
each parameter given, omitted, explicitly the default and refused. In `Startup`
two APIs race for the schema, and these and a worker for the bucket; the environments are
Compose's, mTLS, and a deviation in each kind of setting, one of them an address with which Postgres
cannot be reached.

Six runs expect a violation. Each states what a document, a comment or the code
itself says of the program, and shows a behaviour of the code that differs:

| Run | Property | What happens |
| --- | --- | --- |
| `LateWrite` | `DeleteLeavesNothing` | a generation that began before a DELETE writes its object after the prefix was listed and ends with an error: 204, and the object stays without a row |
| `KeptObjects` | `DeleteLeavesNothing` | per-key errors in the answer of `DeleteObjects` are not read: 204 with the object left |
| `Terminal` | `ReadyIsTerminal` | the reply of a worker's own `MarkReady` is lost on its last attempt, and its `MarkFailed` overwrites that ready: the variant is 422 from then on |
| `Attempts` | `MaxThreeAttempts` | a crash after the third attempt was counted makes a fourth |
| `NoJob` | `PendingHasJob` | publish and inline generation fail: the row stays pending without a job, `DeletePendingVariant` is never called |
| `Counted` | `CountedIsServed` | the hit counter is incremented before the object is opened, and opening it fails: the request is counted and answered 500 |

Four more differences were seen while modelling; they are plain from the code and have
no run. An API process dials RabbitMQ once, in `Connect` (`queue.go:77`): after the
broker has been away, `/ready` answers 503 until the process is restarted, although the
documentation says 200 when both dependencies are reachable. `CheckReady` pings both
under one context (`ready.go:39`): when Postgres does not answer in time, RabbitMQ is
reported as failed too, whatever its state. `DEFAULT_QUALITY` is read and validated and
has no reader; `Normalize` uses the constant 80 (`params.go:22`). `S3_USE_PATH_STYLE`,
documented with a default, is refused when it is not set (`config.go:89`).

### Fairness

Of the pipeline, `Fairness` is used by the run `Live`. A handler that has begun is run to its
end (`ServeRequest`, `ServeDelete`), because Go schedules its goroutine and each of
its calls returns or fails: the inline generation and the wait have deadlines, the
S3, Postgres and imgproxy clients return errors. A worker takes messages while
there are any (`RunWorker`). Only the steps in which calls succeed, or a deadline
passes, are fair: no process makes progress because it is forced to fail, and a
client is not obliged to send anything. The fault budget is what "eventually" rests
on: a worker that crashes for ever settles nothing.

`ReadyFairness`: the steps of a probe and of the goroutines it left behind are taken when
they can be, the library closes a connection that missed its heartbeats, and time goes
by. No probe has to be sent and no dependency ever has to
recover. `ServeFairness`: the process's own goroutines run and statements return; no
request need end. `RunFairness`: the main goroutine runs, the broker delivers,
a process that failed is restarted; that a cancelled context is noticed is *strongly*
fair, because Go's `select` chooses at random among its ready cases while a rejected
message keeps coming back. A worker that exited with 0 need not be started again.
`StartFairness`: processes run, `restart: on-failure` restarts those that failed, and
a dependency that is down comes up, the number of outages being bounded.

## 4. Proofs

Checked by TLAPS for all values of the constants, given the named assumptions in
the modules that declare the constants (`MaxFaultsAssumption`, `StoreAssumption`,
`BlobsAssumption`, `BrokerAssumption`, `ResolveAssumption`, `WorkerAssumption`,
`InitialAssumption`; `IngestAssumption`, `LifecycleAssumption`; `WaitingAssumption`,
`ReadinessAssumption`, `ParamsAssumption`, `StartupAssumption`, `ServeAssumption`,
`WorkerRunAssumption`): any number of requests, workers, deletes, images,
variants and faults, any timeouts and limits.
`ProcessTypes` alone has hypotheses of its own, about the states in which `MCProcesses` lets
a part rest: that a fault is possible and that Compose's settings are among those tried.

* `ImageOptimizerProofs!TypeCorrect`: `Spec => []TypeOK`. `TypeOK` is not inductive
  alone: a process in the middle of a call must have a variant to work for. The
  inductive invariant `TypeInv` adds that (`JobOK`). The proof has one lemma per
  kind of process (`RequestTypes`, `WorkerTypes`, `DeleteTypes`), and below these
  one per effect (`RequestEffect`, `WorkerEffect`).
* `JobProofs!SingleJobHolds`: `Spec => []SingleJob`. The inductive invariant
  `JobInv` says why there is one message: a variant row refers to an image row
  (`ForeignKey`), a message in flight belongs to a row that exists or to an image
  that is gone (`MessagesOK`), and a request that is about to publish is the only
  one for its variant and no message names it yet (`PublishersOK`).
  `RowsAreCreatedOnce` is the fact about the rows: a row that appears was created by
  an `INSERT` whose image is there, and a deleted image never comes back.
* `JobProofs!JobKeptHolds`: `Spec => JobKept`. `WorkerInv` says what a worker that is
  about to acknowledge knows: the variant is not pending, and stays so, because no
  statement makes a row pending again.

* `DeleteProofs!RowOutlivesOriginalHolds` and `DeletedRowsGoneHolds`: the inductive
  invariant `FilesInv` adds to the types and `ForeignKey` what a DELETE knows at each
  of its calls (`DeleteOK`): past the original it knows the original gone, and it has
  answered 204 only when the row is. Since images and originals only ever go
  (`FilesShrink`), no other process takes that knowledge away.
* `DeleteProofs!ReadyHasObjectHolds`: `ObjectsInv` adds that a process about to mark
  a variant ready has written its object, unless the image is already being deleted,
  and that an image whose DELETE has passed its first call stays so.
* `StatusProofs!FailedExhaustedHolds`: `FailedInv` adds to `WorkerInv` that the attempt
  number a worker carries is never above the counter in the row (`CountsTrue`), which
  only grows while the row is there (`AttemptsGrow`).
* `StatusProofs!NotFoundIsTrueHolds`: `PollInv` says that a request polls only for a row
  that has been created (`PollsCreated`), and the
  row goes only with its image.
* `StatusProofs!AttemptsWithinBudgetHolds`: the counter in the row says nothing about who
  may raise it next, so the inductive invariant `BudgetInv` keeps an account. A worker
  that lost its message (its connection, or a reply) and goes on is an *orphan*, and has
  cost a fault; one that has not counted yet has a *right* to (`Rights`); and the message
  itself may be counted once more (`MayCount`) while the row is pending. `Budget`: the
  counter, the rights and the message's turn together stay within `MaxAttempts + faults`.
  `Tally` says why the worker that compares its own count with the limit may go on: what
  others have counted since was paid for. One lemma per kind of actor: `OrphanMoves`,
  `HolderMoves`, `OthersMove`, and `BudgetStep` puts them together.

* `ClientViewProofs!ImplementsCacheHolds`: `Spec => ImplementsCache`, the refinement.
  `InitCache` and `NextCache` are its two halves; `NextCache` rests on one lemma per action
  of a request, a worker and a DELETE, which names the action of `VariantCache` that it is.
  The mapping alone does not give it: that a 200 has its object comes from
  `ReadyHasObject`'s invariant, that a request in its poll finds 404 or 503 only when it
  may from `PollInv`, and that nothing is generated unasked from `WantedInv`.
  Conversely, what the abstract cache guarantees is then true of the system, and needs a
  look at thirteen small actions only (`CacheInvariant`): `NotServedAfterDeleteHolds`, no
  request that arrives after the 204 is served, and `ServedHasObjectHolds`, a GET is
  answered 200 only when its object is stored. No run states these two.

* `LifecycleProofs`: `TypeOK`, `CreatedIsStored`, `RowHasOriginal` and
  `UnnamedIsUnfinished`, by one inductive invariant, `LifeInv`. `IngestOK` adds to the
  properties that before its row is inserted nobody can have seen an upload's id, so
  that no DELETE has begun on it and its original is untouched; `DeleteOK`, that the
  original which a DELETE removed comes back only by an upload that was not answered
  201. `IngestEffect` and `DeleteEffect` say what one step does to one image.
* `AnswersProofs`: `EndsWithinTwoTimeouts`, `NoticedWithinAPause` and
  `WaitersGenerateLast` follow from `TimeOK`, which bounds the time that a request has
  used up by the step it is at, and `SleepOK`, that a row settled no earlier than the
  sleep began of whoever still sleeps. `AnsweredInTime` is inductive with the types.
* `AnswersProofs!FewLeftBehindHolds`: `leftover` does not say whose goroutines it counts,
  so the inductive invariant `LeftInv` gives each a mark of its own (`Marked`): its prober,
  the last fault before it, and how many that prober had left behind since. There are only
  so many marks. What a prober has left behind since the last fault and the part of its
  budget that its present probe has used (`Used`) together stay within one ping and the
  time that the connection has been silent (`Patience`): a ping that gives up turns what
  was used into a mark, time goes by only while the broker is silent or nobody is left
  behind, and every fault opens a new account. `Quiet` is needed because before the first
  fault none may be left behind at all. The proof corrected the property, which had
  divided by `ReadyTimeout`: a ping gives up after the *shorter* of the two timeouts. In
  the code they are both 2 seconds (`ready.go:10`, `queue.go:58`), so that nothing changes
  in the run; with a shorter `PingTimeout` the old bound is wrong.
* `AnswersProofs!ServedAsAskedHolds` and `OneRowPerResizeHolds`: `RoundTrip`, what
  `ParamsFromJSON` reads from a row is what `Normalize` made of the query, whichever fields
  were left out; `BuildsAsAsked`, the path of the normal form is the one asked for;
  `OneNormalForm`, two resizes with one path have one normal form. `ParamsInv` says that
  rows and objects come from accepted queries. All for any set of queries and numerals.
* `AnswersProofs!AnswersTypes` and `ProcessProofs!ProcessTypes`: the types of the parts, in
  the specifications that the runs check. Those of `Serve` and `WorkerRun` (`ServeTypes`,
  `RunTypesHold`) need counts: a server reports once, the main goroutine has read no
  more than was reported; an attempt that was counted is a failure's, a signal's, or of the
  present run.
* `ProcessProofs!RunningHasStoresHolds` and `FailsOnlyIfDownHolds`: `StoresInv` says that a
  process which is past the migrations, or past the bucket check, has found or made what it
  looked for, which is never taken away, and that only an API migrates or reads
  certificates, the latter only with mTLS.
* `ProcessProofs`, `WorkerRun`: `JobSurvivesStop` needs `DeliveryInv`: while the connection
  is there, the broker holds the very job that the handler or the channel has, and a
  handler acknowledges only what is not pending. `StopCostsOneAttempt` needs
  `Explained`: a signal that arrives before the attempt is counted is not spent yet.
* `ProcessProofs`, `Serve`: `CutOnlyAfterGrace` and `CleanExitCutNothing`.
  `DrainInv` says that a server whose `Shutdown` returned in time has no open listener
  and no request, and that the pool is closed only after all of them.
  `FailureIsReported` needs `ReportInv`, an account of `errCh`: what has been reported
  is in the channel or has been received, and an error that was received is the result.
  `PoolClosedLast` needs both, and `GateInv`: a server that has been left accepts nothing,
  also when its `Shutdown` ran out of time; a single server that fails is never shut down,
  and that it accepts nothing either follows from the report it must have sent.

Every safety property that a passing run checks, invariant or action property, is thus
also a theorem, of the specification of its own component where a run composes several.
The two inductive invariants that count (`BudgetInv`, `LeftInv`) and the two action
properties of `ClientViewProofs` were checked by TLC on small instances before they were proved.

Only model-checked: the liveness properties (`EveryRequestEnds`, `EveryJobSettles`,
`EveryDeleteEnds`, `EveryProbeEnds`, `LeftoversEnd`, `EveryProcessStarts`, `StopsWhenTold`,
`StopsWhenSignalled`, `LossIsRepaired`), since fairness and `ENABLED` are out of the
prover's reach; and what the six counterexamples show.

## 5. Plan

Done: the pipeline (`Store` to `ImageOptimizer`), `Ingest` and `Lifecycle`, the
abstract `VariantCache` with the refinement, and the modules of the second group, with
their runs; the theorems of section 4, the refinement among them. What is left:

1. For the six promises that the code does not keep, the part of each that it does keep,
   as an invariant and a theorem: after a 204, an object without a row is one that a
   generation of before the DELETE wrote late or that the store kept; a pending row without
   a job is one whose publication was lost or refused.
2. The safety half of the liveness properties: a measure that every step of a request, of
   a DELETE and of the listing decreases or leaves alone, so that only fairness is left to TLC.

## 6. Not modelled

* *The folder check* (`internal/folder`) matches one string against regular
  expressions; without its characters nothing of it is left to check.
* *Routes*: which handler is mounted on which listener is static; the runs let every
  request arrive at any time.
* *Histograms and gauges*, and the queue depth poller: they observe and decide nothing.
* *The HTTP details of the imgproxy and S3 clients*: a call succeeds or fails, before or
  after its effect.
* *Concurrent calls on one AMQP channel* (`/ready`, `pollQueueDepth` and `Consume` share
  one): what the library does with them is not in this repository.
* *Stops that come from outside earlier than the grace period* (a supervisor that kills
  after 10 seconds): `RequestLost`, `Crash` and `DeleteLost` stand for them.
