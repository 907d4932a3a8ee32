# TLA+ specifications of listgo

listgo is a speech transcription system: a dozen small Go services that talk
over RabbitMQ, keep their records in MongoDB and share a file system. Nothing
in it is computed in one place: a transcription is a sequence of messages, and
what can go wrong is that one is lost, repeated, late, or half handled. That is
what these modules are about.

## 1. The system

| part | state it keeps | operations | talks to |
|---|---|---|---|
| upload | none of its own (a request, a status record, files) | `ServeHTTP` | reads the recognizer map, sends `Decode` or `DecodeMultiple` |
| manager | the status record, the result | one handler per stage (`decode`, `audioConvertFinish`, ...), `processStatus` | receives the answers of the stages, sends the next one, `Inform`, the topic of status changes, the queues of a parent |
| dispatcher | the maps of tasks and of workers (one mutex) | listeners of registrations, work and answers; timers for expired workers and failing tasks; `changed` | receives `Transcription`, sends to private queues of workers |
| cmdworker, preload tasks | the command it runs, the preloaded process, a lock against its own reaper of zombies | `work`, `live`, `Close`; `Manager.EnsureRunning`, `Runner.Run`, `Runner.Close` | receives work, sends answers, registers with the dispatcher |
| zoom | the record that relates a parent and its parts | `decode`, `gotStatus`, `completed`, `mergedAudio`, `joinResultsFinish` | receives `DecodeMultiple`, starts the parts as transcriptions of their own |
| inform | a lock record per mail | `work`, `Lock`, `UnLock` | receives `Inform`, sends mails |
| kafkaintegration | a working file per message | `readProcessKafkaMsg`, `processMsg`, `listenTranscription` | reads Kafka, posts to upload, polls status and result, writes the file storage, asks clean to delete |
| status service | the connections of web sockets (two maps) | `saveConnection`, `deleteConnection`, `registerQueue`, `processMsg` | receives the topic of status changes, reads the status record |
| clean | none (deletes the records of others) | `Clean`, `serviceLoop`, `Get` of the expired ids | MongoDB, files |
| recognizer map (library) | the map, a cache of infos, two locks | `onConfigChange`, `Get`, `GetAll` | used by upload |
| metrics | the open starts of tasks | `ServeHTTP`, `checkForExpired` | receives measurements |
| punctuation | none | `Process` | calls a model |
| result | none | serves files | |
| rabbit, mongo (libraries) | a shared connection; records | `RunOnChannelWithRetry`, `Save`, `SaveError`, `Lock` | used by all |
| strategy (library) | none, a pure function | `FindBest` | used by the dispatcher |

How they interact: every queue is consumed with manual acknowledgement (the
private queues of the dispatcher and of registered workers are not), a handler
that fails is repeated once (`d.Nack(false, redeliver && !d.Redelivered)`), and
a publish that fails closes the connection of the whole service
(`ChannelProvider.RunOnChannelWithRetry`) before it is repeated on a new one.
The consumers of the old connection end, `fc.Close()` is called and the service
exits, expecting to be started again.

What makes it hard:

* one connection for all consumers and senders: a failed publish in one handler
  puts back the messages of all the others, which go on working;
* at-least-once delivery into handlers that are sequences of five or six calls,
  each of which may be the last one;
* the dispatcher keeps its messages unsettled for as long as a worker runs, and
  knows of workers only by what they tell it, with messages that may be late or
  come after the process is gone;
* records that are read, decided on and written by several handlers at once;
* services that call each other over HTTP, retry what they are not sure of, and
  remember what they have begun in files and records another service deletes;
* goroutines of one process that share a lock, a channel or a map, and reuse them
  after they were closed.

What makes the parts correct: no message is given up silently; a task and its
worker agree about each other; failures are bounded; a result is there before
the record says so; the owner is told how it ended, once; every transcription
ends; what is answered was saved, and what is deleted is no longer needed; a
cache, a map or a cost says what is true when it is used.

## 2. Modules

| module | models |
|---|---|
| `Consumer` | abstract: what the consumers of a queue with manual acknowledgement promise about each message; `Dispatcher`, `Worker` and `Inform` implement it |
| `Dispatcher` | the dispatcher and the registered workers (`internal/app/dispatcher`, the registering part of `internal/app/cmdworker`) |
| `DispatcherProofs` | theorems about `Dispatcher` |
| `Manager` | the manager (`internal/app/manager`), with upload and the workers as it sees them |
| `ManagerProofs` | theorems about `Manager` |
| `Zoom` | the zoom service (`internal/app/zoom`), with the manager and the workers as it sees them |
| `ZoomProofs` | theorems about `Zoom` |
| `Worker` | cmdworker with a preload manager (`internal/app/cmdworker`, `internal/pkg/tasks`) |
| `WorkerProofs` | theorems about `Worker` |
| `Upload` | the handler of the upload service (`internal/app/upload`) |
| `Clean` | the cleaning service (`internal/app/clean`, `internal/pkg/mongo/clean*.go`) |
| `Kafka` | the loop of the Kafka integration (`internal/app/kafkaintegration`) |
| `Integration` | composes `Upload`, `Clean` and `Kafka` over their shared records |
| `IntegrationProofs` | theorems about `Integration` and its parts |
| `Inform` | the replicas of the inform service and the lock of a mail (`internal/app/inform`, `internal/pkg/mongo/locker.go`) |
| `StatusEvents` | the web sockets and the events of the status service (`internal/app/status`) |
| `Cost` | the cost strategy of the dispatcher (`internal/pkg/strategy/cost.go`) |
| `Punctuator` | the windows of the punctuator (`internal/app/punctuation/punctuator.go`) |
| `RecognizerMap` | the map of recognizers, its watcher and its cache (`internal/pkg/config/fileRecognizerMap.go`) |
| `Metrics` | the open starts of the metrics service (`internal/app/metrics`) |
| `Services` | puts `Upload`, `Clean`, `Inform`, `StatusEvents`, `Cost`, `Punctuator`, `RecognizerMap`, `Metrics` beside each other |
| `ServicesProofs` | theorems about the recognizer map, the punctuator, the status service, uploads, metrics and the cost strategy |
| `InformProofs` | theorems about the inform service, as a part of `Services` |
| `PositionLemmas` | lemmas about positions in sequences, folds over sequences and orders of finite sets, for the proofs of both compositions |
| `MCDispatcher`, `MCManager`, `MCZoom`, `MCWorker`, `MCIntegration`, `MCServices` | instances for TLC |

### Consumer and Dispatcher

`Consumer` has three variables per message: where the broker has it, the
Redelivered flag, and the connection that holds it. A step of a connection may take
queued messages, acknowledge or discard those it holds, and put one it holds back,
once; all that it holds is queued again when it is lost, and then only (`losses`
changes). `Dispatcher` instantiates it under the same variable names with its one
connection for work, `Worker` with its own, `Inform` with one for each replica,
whose holder is computed from what the replicas have (`HolderOf`). `ConsumerSpec`,
in `Dispatcher` and in `Worker`, and `InformConsumes` are that specification as a
property. The listeners of the manager and of zoom keep the same discipline, but
their modules count the messages in bags, in which one copy cannot be told from
another, and have no mapping to it.

State: `delivery`, `runsOn` and `fails` are the task map (`task.d`, `task.worker`
together with `task.started`, `task.failCount`); `registered` and `wtask` the
worker map (`worker.task` together with `worker.working`); `pending` counts the
goroutines that wait to run `changed`, `todo` holds the idle workers the running
one has not visited; `conn` says which of the two connections are open. The
broker is `dstate`, `redelivered`, `reg`, `resp`, `inbox`.

All handlers run under one mutex, so each is one action; the exception is
`changed`, which publishes to one worker after another: `ChangedStart`, then
`StartOn` or `SkipWorker` for each worker, with `MutexFree` false in between. A
publish has three outcomes (`SendOver`): sent, sent over a second connection, or
failed. The two latter close the main connection, and with it the exclusive
response queue. `Restart` is the exit that follows, or a crash.

What is left out: which of the waiting tasks the cost strategy prefers (any may
be chosen; a worker may be passed over as `MayWait` says), and times. The 100 and
120 seconds of the worker checks are nondeterministic: a process that is gone
always expires in the end, a live one only as a fault.

### Manager

Each of the seven listeners has one message at a time (`Qos(1)`) and a program
counter `h[l].pc` that names the call it makes next. Every call of the database
and every publish is an action of its own, because a crash, a failing call or
another listener may come between any two. `status`, `error`, `result`,
`available` are the records; `told`, `reported`, `unpublished` say what others
have been told. `ready` is a bag of messages, so a message may be there twice.

A publish that fails makes `up` false and puts the messages of all busy
listeners back at once, marked as redelivered; the handlers go on and their
acknowledgements have no effect (`Settle`). `Upload` is a request that succeeds. `dbFailed` remembers in which deliveries of
which transcriptions a database call failed: `GivenUpForDatabase` names that of the
discarded message itself, its second one, and not a fault elsewhere.
A status query, log messages and malformed messages (which no service sends) are
left out. The error text, its code and all tags but the three that decide
something (`Split`, `Child` for the two queue tags) are abstracted.

### Zoom

The same frame as `Manager`: five listeners, a bag of messages, one shared
connection, a program counter per listener. What is different is that the
handlers read before they write. `gotStatus` and `completed` read the work
record, the parent's status and the status of each part, one call after
another; `h[l].set`, `seen` and `to` keep what was read, so that the decision
(`MustSave`) is made on values that may be old by then. `h[l].again` is the first
result of a handler, which allows a second delivery; `bad` says that the status
to be saved is an error.

One parent is modelled, with `Files` parts. A `DecodeMultiple` message that is
delivered again starts a new set of parts with new ids: `Part` is a pair of the
attempt and the file, `related` the set the work record names. The manager is
seen from here: a part that runs reaches some of the stages `PartStages` of its file and ends
(`PartAdvances`, `PartEnds`), and each change sends its messages. `upload` is the
kind of the upload: several files, files of different lengths, which `decode`
refuses, or the channels of one file, whose audio is not merged.

A call that fails (`io`) returns the error, with two exceptions that the code
makes: `decode` saves an error in the second delivery, and `gotStatus` uses the
record of a part before it looks at the error of the call, which stops the whole
service (`PartReadFails`).

What the runs show about it: without faults a message is given up in one case
only, when it came twice before `decode` recorded the parts (`OnlyEarlyIsDropped`);
a parent all of whose parts end that early waits for ever. Otherwise the owner is
told, and a failed part always wins, because the message of its failure is read
after the record was written. That does not hold for the failure of the merged
audio: a `gotStatus` in progress saves its status over it, and Save unsets the
error (`zoom_overwrite`). `joinResultsFinish` never looks whether the parent has
failed, so that a parent whose audio could not be merged may end as completed
after its owner was told of the failure; `OwnerIsTold` is therefore stated for one
direction only. With a crash between the saved error and the message to the owner
the message is never sent: the repeated handler finds the parent "already failed"
and skips it. This is why `OwnerIsTold` is checked without faults.

### Worker

Four parties: the listener (`pc`, `cur`, `why`), main (`svc`), a goroutine
`runCmd` for each call of `Run` (`runs[r].g`) with its process (`runs[r].proc`), and
the reaper. `startWait`, `startErr` and `finished` are the fields of the one runner
of the service, `closing` is who is inside `Runner.Close` and how far it is, and
keeps its lock together with `pc = "wait"` (`LockFree`). `EnsureRunning` is `Ensure`,
`CloseStart` and what follows it (`Closed`), `Start`, `RunReturns`, `CheckRunning`;
each is an action because a process may end and main may close in between. `Panics`
is the second `Done` of the wait group; the service is then gone, its message is
queued again, and a new one starts with a new runner.

A process that is told to end does so; to withstand SIGTERM and SIGKILL are faults
(`stubborn`, `stuck`), and so is to end by itself. `orphans` records how each
process that outlived its service came about. `MaxRuns` bounds the processes of
one life of the service: the second one is where it panics, so two are enough.
Task names, environment and output of commands are left out.

### Upload, Clean, Kafka and Integration

`Upload` has one handler per id: `Check` is all the form checks up to the first
save, followed by the request, the status, each file and the message. A save that
fails may have had its effect. `written` remembers which part of the form each
stored name has, since two files of one form may have one name.

`Clean` runs the jobs of a cleaning one by one (`Job`); jobs that fail are counted
and the cleaning is an error only when all did. The timer reads pages of the
request collection (`ReadPage`) that others delete from. `requests` is that
collection in the order of its `_id`, so that `expired` ids are a prefix of it as
long as nothing else was deleted. An hour of waiting in which nothing is old is no
step.

`Kafka` is one loop, with the working file (`filer`: none, created and empty, or an
id) created and written in two steps. A call with retries is one action that
succeeds or, as a fault, fails for as long as they last; a write or a save that
fails may have been done. An error the loop does not answer ends the process
(`Exit`), which comes back at the committed offset.

`Integration` joins them: posting starts a handler of `Upload`, deleting a cleaning
of `Clean`, and `Finish` is all of the manager that matters here: the status it
writes, by an upsert, whether the records are still there or not. What the
properties except is what the code cannot do better: a transcription may be started
twice when the first one's id was lost (`Blind`), an empty working file is refused
for ever (`RefusesForEver`), and a transcription that ends after its cleaning began
(`late`), or a job that failed before the request record went, leaves records that
no later cleaning finds.

### Services and its parts

`Services` is a product: a behaviour belongs to one part, the others rest. It lets
parts that share nothing be checked together without multiplying their states. It
has uploads and cleanings again, under other circumstances than `Integration`: any
form a client may post, `DELETE` requests beside the timer.

* `Inform`: `Locker.Lock` is an upsert that looks (`Look`), inserts (`Insert`) and takes a
  free record (`Lock`), because the collection has no unique index. Each of the three may
  give an error (`LockFault`), also when the database has done what it was asked; `work`
  then returns before its deferred `UnLock`, and the record may stay taken. `UnLock` itself
  may fail, and its error is not looked at. `Leaving` is what leaves a taken lock to
  nobody: each crash and each kind of failed call of the locker, at most one record each. A
  mail may have been sent by a call that gave an error; with that exception `SentOnce` is
  what the comment at `inform/service.go:35` says of the locker, and it is violated
  (`inform_twice`): two replicas that look at the same time insert a record each.
  `MailedOnce` is what is left of it, for a mail with one record; it holds with lost
  connections, crashes, failing calls and repeated deliveries. `SilentIsLocked` says which
  faults cost a mail: an attempt that failed when the redelivery was used up, or a lock
  that stays taken.
* `StatusEvents`: two maps that are written under a lock and read without it (`Take`,
  `Get`, `Write`), so that connections come and go during the loop over them; the
  process that ends for it is `Race`. `registerQueue` is `Connect` and `Again`: after
  the loss of a channel the first attempt always fails, because it declares the
  queue on the dead channel again. A subscription writes nothing (`saveConnection`), so
  that who comes after the last event of its id sees no status until it changes again.
  `missed` has those connections, and those whose event was lost, until the next event of
  their id is queued; `NewestIsShown` is about all others: `shown` is only what was
  written.
* `Cost`: `FindBest` as operators over sequences and functions, with all orders that
  `sort.Slice` may give to tasks that arrived together, in a small dispatcher that
  asks for idle workers in any order and lets tasks take as long as they like.
  `SomeIdleIsServed` and `WorkIsDone` are what `MayWait` in `Dispatcher` relies on.
  The dispatcher only logs that the model of a task could not be had, so that its type
  is "" (`NoType`). `findTask` takes such a choice of `getBest` for none (`bg != ""`) and
  asks `getTaskByV2`, which looks at all types in order: the untyped task hides those that
  waited as long as it did or less (`Hidden`), which is an exception of
  `NotPassedOver`. A worker that has run it has the model "<none>" (`ModelOf`).
* `Punctuator`: one step per window, with a model that gives any marks.
* `RecognizerMap`: the file is read (`ReadFirst`) before it is watched (`AddWatcher`); what
  is written in between is not seen. Then the watcher holds `vLock` from before it reads
  the file, and waits for the lock of the cache to swap the map; a request holds that lock
  while it loads. Two writes of the file may come as one event; a broken version is not
  used, and a reading that fails for another reason is not repeated. `noticed` is the
  last version for which there was an event whose reading did not fail, and `WorkIsDone`
  speaks of that version only.
* `Metrics`: hours, starts and ends that are posted again or in another order, and
  tasks that run again under one id. A later start writes over an earlier one. A time
  stamp is valid for two hours and not before it is reached (`Valid`).

## 3. Runs

| run | instance | checks |
|---|---|---|
| `dispatcher_faults` | 2 ids, one of them in two messages, a malformed message, 2 workers, one fault of any kind, limit of failures 1, prefetch 2 | `PointersAgree`, `HeldAreKnown`, `StartedIsRunning`, `NoSilentLoss`, `ConsumerSpec` |
| `dispatcher_live` | 2 ids, one of which kills its workers, one fault of any kind, limit 2, fairness | `EveryTaskSettled`, `FailBound` |
| `manager_live` | one part of a larger transcription, one fault of any kind, fairness | `ResultBeforeCompleted`, `NoLostWork`, `OutcomeIsTold`, `EveryUploadEnds` |
| `manager_pair` | two transcriptions, one is split, one a part of a larger one, any two faults, one listener at a time | `OneOutcome`, `StatusAdvances`, `GivenUpForDatabase` |
| `zoom_clean` | 2 parts, one of which is seen in a stage before it ends, audio and parts may fail, 2 handlers at once, no faults | `JoinAfterParts`, `OwnerIsTold`, `PartFailureFails`, `OnlyEarlyIsDropped` |
| `zoom_faults` | 1 part, every kind of upload, one handler at a time, one fault of any kind, fairness | `RecordsAreTrue`, `ParentEnds` |
| `zoom_overwrite` | 1 part and the merged audio, which may fail, 2 handlers at once, no faults | `FailedStaysFailed`, which is violated: a finding |
| `worker_faults` | messages for two models and for none, two faults of any kind, 2 processes per life, fairness | `CommandHasItsModel`, `StatusIsNotStolen`, `NothingLeftRunning`, `ConsumerSpec`, `EveryMessageAnswered` |
| `worker_restart` | two messages for two models, no faults | `NotRunningIsTrue`, which is violated: a finding |
| `integration_faults` | an audio asked for twice, a message without id, an unreadable one, 3 ids, one of which may grow old, pages of one record, one fault of any kind, fairness | `CommittedIsAnswered`, `OneForEach`, `CleanedIsDone`, `NothingIsOrphaned`, `FreshIsKept`, `EveryMessageIsCommitted` |
| `services_all` | 8 parts: nine forms; 3 ids with pages of one; 3 deliveries, two of one mail, 2 replicas, two faults; 2 ids and 2 sockets; 2 workers and any of 4 tasks of 2 models and of none; texts of up to 7 words in windows of 2 and 3; a map written 3 times, from before it is watched, 2 clients and two faults; 2 tasks over 4 hours, run twice, the start and the end of one of them posted twice; fairness | `SentHasItsFiles`, `LocksWork`, `SubscribersAreServed`, `ChoiceIsRight`, `MarksAreWhole`, `CacheIsOfMap`, `TasksAreMeasured`, `InformConsumes`, `WorkIsDone` |
| `inform_twice` | 2 messages about one mail, 2 replicas, no faults | `SentOnce`, which is violated: a finding |

Some of these properties are conjunctions of named ones: `HeldAreKnown` of
`KnownIsHeld` and `HeldIsKnown`; `RecordsAreTrue` of `RelatedAreStarted`
and `ResultBeforeFinished`; `ParentEnds` has `AudioIsReadyOrFailed` beside the liveness,
which is about one handler at a time as that run is: with two, `gotStatus` may take back
the saved failure of the audio (`zoom_overwrite`) whose message a fault has lost;
`OneForEach` of `StartedOnce` and
`AnswersItsOwn`; `CleanedIsDone` of `WorkingIsNotCleaned` and `CleanedIsSaved`;
`LocksWork`, `SubscribersAreServed`, `ChoiceIsRight` and `TasksAreMeasured` likewise.
That the variables have their types is proved, for every value of the constants, with the
invariants of section 4, and no run repeats it.

Bounds. `MaxFaults` limits how many faults happen, not when or where: each step
of each handler is a place for it. One fault is enough to have a message twice,
a worker run the same task twice, a connection lost under every handler, or a
late answer; the second one matters for the rule "redeliver for first time", for
the mail that is lost, for a map that cannot be read beside an info file that
cannot, and for a process that withstands both signals: `services_all` (inform and
recognizers), `worker_faults` and `manager_pair` have two. In the last one they are of
any kind, so that a message can be put back by any of them before the database fails for it, or
for the other transcription.
`MaxPending` limits the goroutines that wait for
the dispatcher's mutex; they are interchangeable, and a step that would start one
more waits. `MaxFail` is 10 in the code and 1 or 2 here: only whether it is
reached matters. `MaxBusy` limits how many listeners of the manager have a message
at once to two: one transcription is at two places only
after a repetition. In `manager_pair` it is one: `OneOutcome` and `StatusAdvances` speak of
the time before the first fault, when two handlers are of two transcriptions and share
nothing, and `GivenUpForDatabase` of what single messages met; the theorems about all
three have any number of listeners at work. Two ids and two workers are what the disagreement of two maps
needs; a duplicate needs two messages of one id. A start or an end that is posted
again needs two posts (`MaxPosts`) of one task; the other one shares its key.
`dispatcher_faults` is symmetric in
the worker queues and in the two messages of one id. Pages of one record make every
deletion shift the pages; three ids are one more than the old ones, so that the
reading has a fresh one to stop at. Texts of 7 words have at least two windows
and a rest. Four hours are one more than the time for which a start is kept. Deadlock is
checked for the dispatcher, which always has a heartbeat to wait for, and not for
the others, which rest when all is done.

Fairness. Goroutines of Go run and its mutex is not starved for ever; RabbitMQ
delivers what is queued to a free consumer; a command ends and its worker answers;
heartbeats are sent and dead workers expire. A service that lost its connection
exits (`<-fc.C` in `run`) and is started again: that is the job of whatever runs
the containers, and is not in this repository. The loop of the Kafka integration is
fair by itself, and the services it calls together, since their work is finite;
`Work` in `Services` is the work of the part that runs, and finite too: clients,
sockets, writers of files and posted measurements need not go on. No fault is ever
forced, and no fairness is assumed of a fault.

Every property of every run has a mutant: a named operator next to the one it
replaces, marked as a mutant in the module, which changes the model the way a
mistake in the code would.

## 4. Proofs

`DispatcherProofs` holds for every set of tasks, messages and worker queues, any
limits and any number of faults; it assumes only `DispatcherAssumption`.

* `TypeCorrect` is inductive by itself.
* `PointersAgree` is not: `StartOn` only keeps it because the workers in `todo`
  are idle and the tasks chosen are not started, and `FailBound` because no task at
  its limit is chosen. `Agreement` adds that all workers still to visit are
  registered and idle (`TodoIsIdle`), which holds since nothing else runs while
  `changed` has the mutex.
* The relation to the broker (`KnownIsHeld` and `HeldIsKnown`, together
  `HeldAreKnown`, and `NoSilentLoss`) is one
  invariant, `Settlement`: besides the three it says that prefetched messages are
  held (`ArrivedIsHeld`) and that the message of a known task was not settled
  before (`KnownWasRequeued`), also after the work channel was lost, when `Ack`
  does nothing.
* `DispatcherIsConsumer` follows from it: each step takes, settles or puts back
  held messages, or disconnects.
* `StartedIsRunning` rests on `Agreement`.

`ManagerProofs` holds for every set of transcriptions with any tags, any faults,
however many, and any number of listeners at work; it assumes only
`ManagerAssumption`.

* `TypeOK` is not inductive: that only parts are in `reported` and only split
  transcriptions in `handed` needs to know where a handler can be. `Shape` adds
  `Right(l)`, which says for each place in a handler which listener, tags and
  message it can have, and that the messages of SplitChannels are of
  transcriptions to be split (`SplitsOnly`).
* `ResultBeforeCompleted` holds because each step of `resultMakeFinish` finds what
  the ones before it saved (`Saved`), also when its message comes again.
* `NoLostWork` needs one more fact, `ZombieIsRequeued`: a handler that goes on
  after the connection was lost has its message in the queue again. Without it
  such a handler could be the last that has a transcription, and end without being
  able to settle anything. For a step of a handler three things are shown:
  nothing that waits vanishes (`HandlerKeeps`), the handlers beside it keep their
  duty or have their message returned (`HandlerAccounts`), and the handler itself
  leaves a successor, an end or its own duty (`HandlerDuty`). It speaks of every
  fault; what it allows is the message that failed twice (`dropped`).
* `GivenUpForDatabase`: a handler that is to return an error over an open connection has
  seen a call of the database fail in this very delivery (`ForDatabase`; a send that fails has
  closed the connection), and a message is marked redelivered only after a fault
  (`AgainAfterFault`). So the delivery in which a message is discarded is in `dbFailed`
  as a second one, and there were two faults.
* `OutcomeIsTold` is `Kept` with `Honest`. Five things can be owed for a transcription
  (`Debt`: the message of a failure, of success, the change to the topic and to the
  parent, the report of a part). What is owed (`Owed`) is followed (`Followed`) by a
  message that waits or by a handler that has still to come to the step that pays it
  (`Pays`) or is to be repeated. A handler that fails to pay because the connection is
  lost leaves its message in the queue, which is why `ZombieIsRequeued` is needed again.
* `OneOutcome` and `StatusAdvances` are about the time before the first fault. `OneInv`
  says that a transcription then is at one place (`Token`, `Sole`): in one queue, at one
  worker, with one handler that is to pass it on (`OnDuty`) or to tell its end (`Ends`),
  or told; that its record shows the status with which the stage of that place is
  entered (`Reached`); and that no handler is to return an error (`Undisturbed`). Each
  stage's table leads to a higher status (`NextStatusAdvances`). With that no second
  handler can write an older status over a newer one.

`WorkerProofs` holds for any messages, keys and faults and any number of calls of
`Run`; it assumes only `WorkerAssumption`.

* `TypeCorrect` is inductive by itself.
* `StatusIsNotStolen` needs to know where the listener is while a command runs
  (`StatusInv`): in `work`, and so under the lock that keeps the reaper out, and not
  in a `Close`, from which it would return somewhere else.
* `CommandHasItsModel` and `NothingLeftRunning` are one invariant, `RunInv`. At its
  heart is `RunnerOK`: the counter of the wait group is one until the first goroutine
  has tried to start its process, and then no other can, so that the process of the
  first call is the only one a service ever has; who sees the channel closed knows
  that it is gone. `ListenerOK` says what `EnsureRunning` knows of it at each place
  (also when main closes the runner in between), `MainOK` that what is called after
  main has closed the runner is known to be `late`. Steps that start nothing are one
  case of the proof (`SameRuns`).
* `WorkerIsConsumer`, the refinement of `Consumer`, needs to know that the worker holds
  the message it is at work on, and no other (`OneHeld`): only then is the message of a
  failed answer all that the lost connection returns. That the listener is at work while
  it is inside `Close` or waits for a command is `StatusInv` again. Panic and exit
  return what is held, whatever the place.

`ZoomProofs` holds for any number of files, parts and handlers at work, any kind of
upload and any faults, but for the second half, which is about a service in which
nothing fails.

* `RecordsAreTrue` and `JoinAfterParts` are about what was true when it was read, while
  other handlers, workers and repeated messages change it. `ZoomInv` says of each place
  of each handler what has been found by then (`Reading`: the parts before the one to be
  read are completed, and a completed part stays so), what was started (`Starting`: the
  parts of the set of `decode` up to the one it is at, and those the work record names),
  when results may be joined (`Joining`: all parts of some set are completed) and what
  the last handler has saved (`Saving`). `Budget` counts: every set of parts but the
  first costs a fault, so that there are never more attempts than sets of part ids.
* `OwnerIsTold`, `PartFailureFails` and `OnlyEarlyIsDropped` are proved for
  `Faults = {}`, as the run checks them, since with faults they do not hold (see above).
  Interleavings remain: any handlers, workers and stages in any order. `CalmInv` adds to
  `ZoomInv` that no handler is to return an error unless it found no work record
  (`Smooth`), and what is never lost then (`Followed`): the telling of a saved failure
  (`Telling`), the sight of a failed part (`FailSeen`: a message for `gotStatus` waits,
  it is still to read the part, or the error is saved and nobody is about to take it
  back), the sight of the end of the parts (`EndSeen`) and the split itself (`SplitSeen`).

`IntegrationProofs` holds for any messages, ids, pages, forms and faults; it assumes
`IntegrationAssumption`, of which two clauses are facts about the code: the patterns
of the cleaning service find the audio and the decoded files, since `newFileCleaners`
reads them from its configuration (`fileStorage.patterns`) and what they do not find is
never cleaned; and `None` and the names of cleanings are no ids.

* One invariant (`Integrated`) with a part for each program, each kept by every step as
  long as those before it hold: `UploadInv` (what a handler of an upload has done at its
  place), `DataInv` (stored data has a request record or a cleaning at work on it; what
  the jobs done so far have removed is gone), `CleanInv` (which ids a cleaning may be
  about), `LoopInv` and `StartOK`.
* `LoopInv` is what the loop knows: `LoopOK` of the id it waits for, `AnswersOK` of what
  it has answered and saved, `FilerOK` of the working files, `AskedOK` of the cleanings
  it asked for: `CommittedIsAnswered` and `CleanedIsDone` follow.
* `OneForEach` follows from `StartOK`: with no blind fault every transcription that was
  started for the message in work is known to the loop or its working file, and only the
  upload it waits for can still send. `FreshIsKept` is an action property, from
  `CleanInv`: what a cleaning removes is of an id that is old or that a client named.

`ServicesProofs` and `InformProofs` hold for any constants that satisfy
`ServicesAssumption`. There `None` and `Unset` stand for the absence of a caller, a
topic, a message or a mark, a duration is a number, 0 is the type of no model and not
that of a worker without one, and the ids that were uploaded
before differ from each other (`requestSaver.go` upserts by id). Each part has its own invariant,
which the steps of the other parts leave.

* `CacheIsCurrent`: who is past the first step of a request holds the cache's lock, and
  no map is swapped while somebody does (`CacheInv`).
* `TextIsPunctuated`: the words up to `ci` are `Whole`, and the next window begins where
  one may (`PunctInv`); for texts and windows of any length.
* `EveryoneIsServed`: `EventInv` follows each change of a record until it was written to a
  connection of its id, or is known to be missed (`Served`), and the two maps through their
  four operations. Since a subscription writes nothing, what is owed to who has just
  subscribed is an event that is still to be taken or whose status is still to be read.
* `SentIsStored`: the files before the one that is saved are there, or were written over
  (`Has`); for forms of any number of files.
* `EveryTaskIsMeasured`: an open start is of a run that began, and is one more than the
  durations observed (`Metered`); a start that is forgotten was posted so long ago that
  its end is not valid any more (`Remembered`): three hours against two, for a task that
  runs for one.
* `LocksDoTheirWork` (in `InformProofs`) has three layers. `BaseInv`: what a replica at
  work has, and that no two hold one message. `MailInv`: the records of a lock that are
  taken are at least as many as the replicas that took them, and at most one more for a
  crash and each kind of failed locker call (`Record`); `Balanced` says so of three finite
  sets, and what each step does is a lemma about one element that comes or goes. Who has a
  lock with one record sends what was not sent (`Once`), and a mail is not lost while its
  lock is free unless a step to send it failed (`NotSilent`). `HopeInv`: while one
  preparation, one sending or one call of `Lock` has failed at most, and nothing else
  (`Calm`), a mail is sent, or is left locked by that call, or a message is left that can
  have it sent (`Hopeful`).
* `InformIsConsumer` (in `InformProofs`) is the refinement of `Consumer` by any number of
  replicas. It rests on `BaseInv`: since no two replicas hold one message and a message
  that is held is not queued, `HolderOf` is the replica that works on it, and a step of
  a replica changes the holder of that message only (`TakenHolders`, `FreedHolders`). A
  replica that goes on without its connection settles nothing.
* `ChoiceStaysRight`: what `FindBest` chooses for every set of tasks and workers. `CostInv`
  has the types and that an idle worker is free by now (`CompleteTask` sets its end);
  everything else is about the choice itself. `getTaskByV2` is two folds, one inside the
  other; `FoldSteps` turns each into a walk (`GroupSteps`, `TypeSteps`: a function of how
  many elements were looked at), along which the facts are kept (`GroupKeeps`,
  `TypeKeeps`). A type that waits is a candidate for a worker that has its model, or for
  any if none has (`SomeCandidate`), and of finitely many candidates one is cheapest
  (`CheapestOf`), so that somebody is served; finite sets have the orders that
  `sort.Slice` makes (`OrderExists`). No worker has the type of an untyped task
  (`NobodyHasNoType`), which is why that type never makes a worker wait, and the only way
  it hides another is to be cheaper in `getBest`. Of the assumptions it uses that load time, factor, unit and
  cost of a delay are positive whole numbers, that there is a worker and tasks are
  finitely many, and that loading a model costs less than the highest cost of the code (100000 seconds,
  `cost.go`), which the code does not check: with a longer one nobody would be chosen.

Only model-checked: everything under fairness, which the provers do not reach
(`EveryTaskSettled`, `EveryUploadEnds`, `ParentEnds`, `EveryMessageAnswered`,
`EveryMessageIsCommitted`, `WorkIsDone`). All other properties of the passing runs
are theorems. The induction theorems of the library take an operator as a
parameter, which the provers cannot instantiate; where a proof needs an induction
(an order of the types exists, a fold goes through its sequence) it is made with
sets instead: a set of numbers that is not empty has a least element (`LeastOf`),
and so a set of them that has 0 and with each number the next one has all
(`AllNaturals`).

## 5. Not modelled, and the plan

Left out: `result` and the helpers, which read and serve files and keep no state
that two actors share; `cmd/`, which only starts the services; the vocabularies
and the tensorflow client of the punctuator; the mutex of `ChannelProvider`, whose
connection is in every service's model; what a file system reports when a map of
recognizers is replaced by renaming, which gives no write event, so that the watch
stays on the old file. An info file of a recognizer that cannot be read once is
remembered as an error until the map itself is written again (`lastErr` in
`RecognizerMap`); no property speaks of it, because that is how the cache is meant.
Configuration, logging, and the wording of messages are left out everywhere.

In the order planned:

1. Deliveries of the manager and of zoom as elements instead of bags, so that their
   listeners refine `Consumer` too.
2. The manager and zoom composed over the messages of the parts.
3. The mutex of `ChannelProvider` and the backoff of its dial.
