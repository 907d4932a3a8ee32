----------------------------- MODULE Dispatcher -----------------------------
(***************************************************************************)
(* The dispatcher service: it takes transcription tasks from the work      *)
(* queue, keeps them unacknowledged while a worker runs them, and hands    *)
(* each to the private queue of a registered worker.  A worker announces   *)
(* itself over the registration queue, and its answer comes back through   *)
(* the dispatcher's private response queue.                                *)
(*                                                                         *)
(* The handlers of the three queues, the two timers and the goroutines     *)
(* that run `changed' share one mutex, so each handler is one action; only *)
(* `changed', which sends a message per idle worker while it holds the     *)
(* mutex, is split into one action per worker it visits.                   *)
(***************************************************************************)
EXTENDS Naturals, Sequences, FiniteSets

CONSTANTS
    Task,           \* the ids of the transcriptions
    Delivery,       \* the messages of the work queue
    WorkerQ,        \* private queues: one for each run of a worker process
    IdOf,           \* the id that a message of the work queue carries
    Malformed,      \* the messages that are not JSON
    Poison,         \* the ids that kill the process of the worker they run on
    NoTask, NoWorker, NoDelivery,
    MaxFail,        \* maxTaskFailCount
    Preload,        \* the Qos of the work channel
    MaxPending,     \* bound: goroutines waiting to run `changed'
    Faults,         \* which kinds of fault happen
    MaxFaults       \* bound: how many faults happen

FaultKind ==
    {"connection", "channel", "restart", "crash", "quit", "expire", "stale"}

ASSUME DispatcherAssumption ==
    /\ IdOf \in [Delivery -> Task]
    /\ Malformed \subseteq Delivery
    /\ Poison \subseteq Task
    /\ NoTask \notin Task /\ NoWorker \notin WorkerQ /\ NoDelivery \notin Delivery
    /\ IsFiniteSet(WorkerQ) /\ IsFiniteSet(Delivery)
    /\ MaxFail \in Nat \ {0} /\ Preload \in Nat \ {0}
    /\ MaxPending \in Nat /\ MaxFaults \in Nat
    /\ Faults \subseteq FaultKind

VARIABLES
    \* the broker
    dstate,         \* work queue: what became of each message
    redelivered,    \* work queue: the Redelivered flag of each message
    reg,            \* registration queue: the messages in it
    resp,           \* the private response queue: answers per CorrelationId
    inbox,          \* the private queue of each worker
    \* the dispatcher
    arrived,        \* prefetched, its handler did not get the mutex yet
    delivery,       \* tasks.tsks: the delivery of the task of an id
    runsOn,         \* task.worker of the task (task.started is set with it)
    fails,          \* task.failCount
    registered,     \* the keys of workers.workers
    wtask,          \* worker.task (worker.working is set with it)
    pending,        \* goroutines that are to run `changed'
    todo,           \* idle workers the running `changed' has yet to visit
    conn,           \* which of its two connections are open
    \* the rest of the world
    wproc,          \* the process of each worker
    answered,       \* the deliveries whose answer was sent to ReplyTo
    faults          \* how many faults happened

brokerVars == <<dstate, redelivered, reg, resp, inbox>>
taskVars   == <<delivery, runsOn, fails>>
workerVars == <<registered, wtask>>
envVars    == <<wproc, answered, faults>>
vars == <<brokerVars, arrived, taskVars, workerVars, pending, todo, conn, envVars>>

\* The work queue has one consumer: what is not settled is held by its channel.
Consumer == INSTANCE Consumer WITH
    Connection <- {"work"}, Nobody <- "none",
    holder <- [d \in Delivery |-> IF dstate[d] = "unacked" THEN "work" ELSE "none"],
    losses <- <<conn, faults>>

AllConnections == {"main", "work"}
ProcState == {"off", "on", "quitting", "exited"}
RegMsg == [type : {"Beat", "Exit"}, queue : WorkerQ]
Item == [id : Task, live : BOOLEAN]     \* live: its reply queue still exists

\* A Register message and a heartbeat have the same handler, registerWorker.
Beat(w) == [type |-> "Beat", queue |-> w]
Exit(w) == [type |-> "Exit", queue |-> w]

Init ==
    /\ Consumer!Init
    /\ reg = {}
    /\ resp = [t \in Task |-> 0]
    /\ inbox = [w \in WorkerQ |-> <<>>]
    /\ arrived = {}
    /\ delivery = [t \in Task |-> NoDelivery]
    /\ runsOn = [t \in Task |-> NoWorker]
    /\ fails = [t \in Task |-> 0]
    /\ registered = {}
    /\ wtask = [w \in WorkerQ |-> NoTask]
    /\ pending = 0
    /\ todo = {}
    /\ conn = AllConnections
    /\ wproc = [w \in WorkerQ |-> "off"]
    /\ answered = {}
    /\ faults = 0

-----------------------------------------------------------------------------
(***************************************************************************)
(* State functions.                                                        *)
(***************************************************************************)
Known == {t \in Task : delivery[t] # NoDelivery}
Started(t) == runsOn[t] # NoWorker
Working(w) == wtask[w] # NoTask

\* The workers that `changed' visits.
Idle == {w \in registered : ~Working(w)}

\* mapTasks: the tasks the strategy chooses from.
SchedulableForever == {t \in Known : ~Started(t)}  \* mutant: no limit of failures
Schedulable == {t \in Known : ~Started(t) /\ fails[t] < MaxFail}

\* cleanFailing: the tasks it gives up.
Failing == {t \in Known : ~Started(t) /\ fails[t] >= MaxFail}

\* The mutex that workers and tasks share is free: no `changed' holds it.
MutexFree == todo = {}

Spawn(n) == /\ pending + n <= MaxPending
            /\ pending' = pending + n

Fault(kind) == /\ kind \in Faults
               /\ faults < MaxFaults
               /\ faults' = faults + 1

(***************************************************************************)
(* A send over the main connection.  When a publish fails, the provider    *)
(* closes the connection and publishes again on a new one.  Either way the *)
(* consumers of the old connection end, so the service is about to exit,   *)
(* and the exclusive response queue is gone.                               *)
(***************************************************************************)
SendOutcome == {"sent", "reconnected", "failed"}

SendOver(out) ==
    \/ out = "sent" /\ UNCHANGED <<conn, faults>>
    \/ out # "sent" /\ Fault("connection") /\ conn' = conn \ {"main"}

\* What is left of the answers, and of the items that wait for a worker,
\* when the response queue is deleted.
RespAfter(out) == IF out = "sent" THEN resp ELSE [t \in Task |-> 0]
Orphan(s) == [i \in DOMAIN s |-> [s[i] EXCEPT !.live = FALSE]]
InboxAfter(out) ==
    IF out = "sent" THEN inbox ELSE [w \in WorkerQ |-> Orphan(inbox[w])]

(***************************************************************************)
(* Ack of the deliveries A and Nack(false, !Redelivered) of N.  On a work  *)
(* channel that is lost neither reaches the broker.                        *)
(***************************************************************************)
AnyChannel == TRUE                                 \* mutant: acks on a new channel
WorkOpen == "work" \in conn

NackDiscards(d) == "discarded"                     \* mutant: Nack(false, false)
Nacked(d) == IF redelivered[d] THEN "discarded" ELSE "queued"

Settle(A, N) ==
    IF WorkOpen
    THEN /\ dstate' = [d \in Delivery |-> IF d \in A THEN "acked"
                                          ELSE IF d \in N THEN Nacked(d)
                                          ELSE dstate[d]]
         /\ redelivered' = [d \in Delivery |->
                redelivered[d] \/ (d \in N /\ Nacked(d) = "queued")]
    ELSE UNCHANGED <<dstate, redelivered>>

\* delete(ts.tsks, id) for the ids of S
KeepTasks(S) == UNCHANGED taskVars                 \* mutant: no delete
DropTasks(S) ==
    /\ delivery' = [t \in Task |-> IF t \in S THEN NoDelivery ELSE delivery[t]]
    /\ runsOn' = [t \in Task |-> IF t \in S THEN NoWorker ELSE runsOn[t]]
    /\ fails' = [t \in Task |-> IF t \in S THEN 0 ELSE fails[t]]

\* completeTask of the worker of task t
KeepWorkerOf(t) == UNCHANGED wtask                 \* mutant: the worker stays busy
FreeWorkerOf(t) ==
    wtask' = [w \in WorkerQ |-> IF w = runsOn[t] THEN NoTask ELSE wtask[w]]

\* delete(wrks.workers, queue), and failRequeueTask of what they run
RequeuedNone(W) == {}                              \* mutant: the task stays started
RequeuedBy(W) == {wtask[w] : w \in W} \ {NoTask}

DropWorkers(W) ==
    /\ registered' = registered \ W
    /\ wtask' = [w \in WorkerQ |-> IF w \in W THEN NoTask ELSE wtask[w]]
    /\ runsOn' = [t \in Task |->
                    IF t \in RequeuedBy(W) THEN NoWorker ELSE runsOn[t]]
    /\ fails' = [t \in Task |->
                    IF t \in RequeuedBy(W) THEN fails[t] + 1 ELSE fails[t]]
    /\ UNCHANGED delivery

-----------------------------------------------------------------------------
(***************************************************************************)
(* The registration queue.                                                 *)
(***************************************************************************)
RegisterWorker(w) ==
    /\ MutexFree
    /\ Beat(w) \in reg
    /\ reg' = reg \ {Beat(w)}
    /\ registered' = registered \cup {w}
    /\ IF w \in registered THEN UNCHANGED pending ELSE Spawn(1)
    /\ UNCHANGED <<dstate, redelivered, resp, inbox, arrived, taskVars, wtask,
                   todo, conn, envVars>>

ExitWorker(w) ==
    /\ MutexFree
    /\ Exit(w) \in reg
    /\ reg' = reg \ {Exit(w)}
    /\ IF w \in registered
       THEN DropWorkers({w}) /\ Spawn(1)
       ELSE UNCHANGED <<taskVars, workerVars, pending>>
    /\ UNCHANGED <<dstate, redelivered, resp, inbox, arrived, todo, conn, envVars>>

\* A message that waited for two minutes is acknowledged and ignored.
IgnoreStale(m) ==
    /\ m \in reg
    /\ reg' = reg \ {m}
    /\ Fault("stale")
    /\ UNCHANGED <<dstate, redelivered, resp, inbox, arrived, taskVars, workerVars,
                   pending, todo, conn, wproc, answered>>

\* Workers without a heartbeat for 100 seconds: processes that are gone and,
\* as a fault, workers whose heartbeats are late.
ExpireWorkers(W) ==
    /\ MutexFree
    /\ W \subseteq registered
    /\ \/ (\A w \in W : wproc[w] = "off") /\ UNCHANGED faults
       \/ (\E w \in W : wproc[w] # "off") /\ Fault("expire")
    /\ DropWorkers(W)
    /\ Spawn(Cardinality(W))
    /\ UNCHANGED <<brokerVars, arrived, todo, conn, wproc, answered>>

-----------------------------------------------------------------------------
(***************************************************************************)
(* The work queue.                                                         *)
(***************************************************************************)
InUse == {d \in Delivery : dstate[d] = "unacked"}

Deliver(d) ==
    /\ WorkOpen
    /\ dstate[d] = "queued"
    /\ Cardinality(InUse) < Preload
    /\ dstate' = [dstate EXCEPT ![d] = "unacked"]
    /\ arrived' = arrived \cup {d}
    /\ UNCHANGED <<redelivered, reg, resp, inbox, taskVars, workerVars, pending,
                   todo, conn, envVars>>

\* A second message with the id of a known task takes its place: the worker
\* of the old one is marked free and the old message is never settled.
AddTask(d) ==
    /\ MutexFree
    /\ d \in arrived \ Malformed
    /\ arrived' = arrived \ {d}
    /\ FreeWorkerOf(IdOf[d])
    /\ delivery' = [delivery EXCEPT ![IdOf[d]] = d]
    /\ runsOn' = [runsOn EXCEPT ![IdOf[d]] = NoWorker]
    /\ fails' = [fails EXCEPT ![IdOf[d]] = 0]
    /\ Spawn(1)
    /\ UNCHANGED <<brokerVars, registered, todo, conn, envVars>>

RejectWork(d) ==
    /\ d \in arrived \cap Malformed
    /\ arrived' = arrived \ {d}
    /\ IF WorkOpen
       THEN dstate' = [dstate EXCEPT ![d] = "discarded"]    \* Nack(false, false)
       ELSE UNCHANGED dstate
    /\ UNCHANGED <<redelivered, reg, resp, inbox, taskVars, workerVars, pending,
                   todo, conn, envVars>>

-----------------------------------------------------------------------------
(***************************************************************************)
(* The response queue and the clean-up timer.                              *)
(***************************************************************************)
\* An answer for a task that is not in the map any more is dropped.
DropResponse(t) ==
    /\ MutexFree
    /\ resp[t] > 0
    /\ t \notin Known
    /\ resp' = [resp EXCEPT ![t] = @ - 1]
    /\ UNCHANGED <<dstate, redelivered, reg, inbox, arrived, taskVars, workerVars,
                   pending, todo, conn, envVars>>

ProcessResponse(t, out) ==
    /\ MutexFree
    /\ resp[t] > 0
    /\ t \in Known
    /\ SendOver(out)
    /\ resp' = [RespAfter(out) EXCEPT ![t] = IF @ = 0 THEN 0 ELSE @ - 1]
    /\ inbox' = InboxAfter(out)
    /\ IF out = "failed"
       THEN Settle({}, {delivery[t]}) /\ UNCHANGED answered
       ELSE Settle({delivery[t]}, {}) /\ answered' = answered \cup {delivery[t]}
    /\ FreeWorkerOf(t)
    /\ DropTasks({t})
    /\ Spawn(1)
    /\ UNCHANGED <<reg, arrived, registered, todo, wproc>>

\* The tasks U are those whose failure message could not be sent.
CleanFailing(U, out) ==
    /\ MutexFree
    /\ Failing # {}
    /\ U \subseteq Failing
    /\ (U # {}) = (out = "failed")
    /\ SendOver(out)
    /\ resp' = RespAfter(out)
    /\ inbox' = InboxAfter(out)
    /\ Settle({delivery[t] : t \in Failing \ U}, {delivery[t] : t \in U})
    /\ answered' = answered \cup {delivery[t] : t \in Failing \ U}
    /\ DropTasks(Failing)
    /\ UNCHANGED <<reg, arrived, workerVars, pending, todo, wproc>>

-----------------------------------------------------------------------------
(***************************************************************************)
(* `changed': visit the idle workers one after another.                    *)
(***************************************************************************)
ChangedStart ==
    /\ MutexFree
    /\ pending > 0
    /\ pending' = pending - 1
    /\ todo' = Idle
    /\ UNCHANGED <<brokerVars, arrived, taskVars, workerVars, conn, envVars>>

(***************************************************************************)
(* The cost strategy may keep an idle worker for later: it compares the    *)
(* model it has loaded and the time it is free with those of the others.   *)
(* It finds nothing for any of them only when there is nothing to run, or  *)
(* when some worker is busy, or a hand-over of this pass failed.           *)
(***************************************************************************)
MayWait(w) ==
    \/ Schedulable = {}
    \/ \E v \in registered \ {w} : Working(v) \/ v \in todo
    \/ "main" \notin conn

SkipWorker(w) ==
    /\ w \in todo
    /\ MayWait(w)
    /\ todo' = todo \ {w}
    /\ UNCHANGED <<brokerVars, arrived, taskVars, workerVars, pending, conn, envVars>>

\* A publish to the queue of a process that is gone succeeds and is lost.
EnqueueNoReply(w, t, out) ==                       \* mutant: no reply queue given
    IF wproc[w] = "off" THEN InboxAfter(out)
    ELSE [InboxAfter(out) EXCEPT ![w] = Append(@, [id |-> t, live |-> FALSE])]
Enqueue(w, t, out) ==
    IF wproc[w] = "off" THEN InboxAfter(out)
    ELSE [InboxAfter(out) EXCEPT
            ![w] = Append(@, [id |-> t, live |-> "main" \in conn'])]

StartOn(w, t, out) ==
    /\ w \in todo
    /\ t \in Schedulable
    /\ SendOver(out)
    /\ resp' = RespAfter(out)
    /\ todo' = todo \ {w}
    /\ IF out = "failed"
       THEN /\ inbox' = InboxAfter(out)
            /\ fails' = [fails EXCEPT ![t] = @ + 1]
            /\ UNCHANGED <<runsOn, wtask>>
       ELSE /\ inbox' = Enqueue(w, t, out)
            /\ runsOn' = [runsOn EXCEPT ![t] = w]
            /\ wtask' = [wtask EXCEPT ![w] = t]
            /\ UNCHANGED fails
    /\ UNCHANGED <<dstate, redelivered, reg, arrived, delivery, registered, pending,
                   wproc, answered>>

-----------------------------------------------------------------------------
(***************************************************************************)
(* The service ends: a connection is lost or the process is killed.        *)
(***************************************************************************)
\* The channel of the work queue closes: all that is not settled is queued
\* again, and prefetched messages are dropped.
LoseWorkChannel ==
    /\ "work" \in conn
    /\ Fault("channel")
    /\ conn' = conn \ {"work"}
    /\ Consumer!Requeue("work")
    /\ arrived' = {}
    /\ UNCHANGED <<reg, resp, inbox, taskVars, workerVars, pending, todo, wproc,
                   answered>>

\* A listener that ends closes fc, and the service exits.  The next one
\* knows no tasks and no workers and has a response queue of its own.
Restart ==
    /\ \/ conn # AllConnections /\ UNCHANGED faults
       \/ conn = AllConnections /\ Fault("restart")
    /\ Consumer!Requeue("work")
    /\ resp' = RespAfter("failed")
    /\ inbox' = InboxAfter("failed")
    /\ arrived' = {}
    /\ delivery' = [t \in Task |-> NoDelivery]
    /\ runsOn' = [t \in Task |-> NoWorker]
    /\ fails' = [t \in Task |-> 0]
    /\ registered' = {}
    /\ wtask' = [w \in WorkerQ |-> NoTask]
    /\ pending' = 0
    /\ todo' = {}
    /\ conn' = AllConnections
    /\ UNCHANGED <<reg, wproc, answered>>

-----------------------------------------------------------------------------
(***************************************************************************)
(* The workers (cmdworker with a registry queue).                          *)
(***************************************************************************)
dispatcherVars ==
    <<dstate, redelivered, arrived, taskVars, workerVars, pending, todo, conn,
      answered>>

\* A worker starts with a queue nobody knows.  The name of a queue that is
\* forgotten everywhere stands for a new one.
WorkerStart(w) ==
    /\ wproc[w] = "off"
    /\ w \notin registered /\ Beat(w) \notin reg /\ Exit(w) \notin reg
    /\ wproc' = [wproc EXCEPT ![w] = "on"]
    /\ UNCHANGED <<dispatcherVars, reg, resp, inbox, faults>>

\* A heartbeat may be on its way while Close sends Exit, and come after it.
WorkerBeat(w) ==
    /\ wproc[w] # "off"
    /\ reg' = reg \cup {Beat(w)}
    /\ UNCHANGED <<dispatcherVars, resp, inbox, wproc, faults>>

\* The command ended, well or not, and the answer is sent.
WorkerReply(w) ==
    /\ inbox[w] # <<>>
    /\ LET item == Head(inbox[w]) IN
        /\ item.id \notin Poison
        /\ resp' = [resp EXCEPT ![item.id] = IF item.live THEN @ + 1 ELSE @]
        /\ inbox' = [inbox EXCEPT ![w] = Tail(@)]
    /\ UNCHANGED <<dispatcherVars, reg, wproc, faults>>

\* The send of an answer failed, once or twice: the connection of the worker
\* was closed and its private queue with it, so the worker exits.
WorkerReplyReconnects(w, sent) ==
    /\ inbox[w] # <<>>
    /\ Fault("connection")
    /\ LET item == Head(inbox[w]) IN
        /\ item.id \notin Poison
        /\ resp' = [resp EXCEPT ![item.id] = IF sent /\ item.live THEN @ + 1 ELSE @]
    /\ inbox' = [inbox EXCEPT ![w] = <<>>]
    /\ wproc' = [wproc EXCEPT ![w] = IF @ = "on" THEN "quitting" ELSE @]
    /\ UNCHANGED <<dispatcherVars, reg>>

WorkerQuit(w) ==
    /\ wproc[w] = "on"
    /\ Fault("quit")
    /\ wproc' = [wproc EXCEPT ![w] = "quitting"]
    /\ UNCHANGED <<dispatcherVars, reg, resp, inbox>>

\* Close of the registrator: Exit is sent, or that fails too.
WorkerClose(w) ==
    /\ wproc[w] = "quitting"
    /\ wproc' = [wproc EXCEPT ![w] = "exited"]
    /\ reg' \in {reg, reg \cup {Exit(w)}}
    /\ UNCHANGED <<dispatcherVars, resp, inbox, faults>>

Gone(w) ==
    /\ wproc' = [wproc EXCEPT ![w] = "off"]
    /\ inbox' = [inbox EXCEPT ![w] = <<>>]
    /\ UNCHANGED <<dispatcherVars, reg, resp>>

WorkerEnd(w) == wproc[w] = "exited" /\ Gone(w) /\ UNCHANGED faults

WorkerCrash(w) == wproc[w] # "off" /\ Fault("crash") /\ Gone(w)

WorkerPoisoned(w) ==
    /\ inbox[w] # <<>> /\ Head(inbox[w]).id \in Poison
    /\ Gone(w) /\ UNCHANGED faults

-----------------------------------------------------------------------------
RegistryStep ==
    \/ \E w \in WorkerQ : RegisterWorker(w) \/ ExitWorker(w)
    \/ \E m \in RegMsg : IgnoreStale(m)
    \/ \E W \in SUBSET WorkerQ \ {{}} : ExpireWorkers(W)

WorkStep == \E d \in Delivery : Deliver(d) \/ AddTask(d) \/ RejectWork(d)

ReplyStep ==
    \/ \E t \in Task : DropResponse(t)
    \/ \E t \in Task, out \in SendOutcome : ProcessResponse(t, out)
    \/ \E U \in SUBSET Task, out \in SendOutcome : CleanFailing(U, out)

ChangedStep ==
    \/ ChangedStart
    \/ \E w \in WorkerQ : SkipWorker(w)
    \/ \E w \in WorkerQ, t \in Task, out \in SendOutcome : StartOn(w, t, out)

ServiceStep == LoseWorkChannel \/ Restart

WorkerStep ==
    \E w \in WorkerQ :
        \/ WorkerStart(w) \/ WorkerBeat(w) \/ WorkerReply(w)
        \/ \E sent \in BOOLEAN : WorkerReplyReconnects(w, sent)
        \/ WorkerQuit(w) \/ WorkerClose(w) \/ WorkerEnd(w)
        \/ WorkerCrash(w) \/ WorkerPoisoned(w)

Next == \/ RegistryStep \/ WorkStep \/ ReplyStep \/ ChangedStep
        \/ ServiceStep \/ WorkerStep

Spec == Init /\ [][Next]_vars

(***************************************************************************)
(* Fairness: the goroutines of the dispatcher run, and Go's mutex lets     *)
(* each of them in; the broker delivers; a process that is to exit does,   *)
(* and is started again; a worker sends heartbeats and ends its commands.  *)
(* No fault is ever forced to happen.                                      *)
(***************************************************************************)
Fairness ==
    /\ \A w \in WorkerQ :
        /\ WF_vars(RegisterWorker(w))
        /\ WF_vars(ExitWorker(w))
        /\ WF_vars(ExpireWorkers({w}) /\ UNCHANGED faults)
        /\ WF_vars(WorkerStart(w))
        /\ WF_vars(WorkerBeat(w))
        /\ WF_vars(WorkerReply(w))
        /\ WF_vars(WorkerClose(w))
        /\ WF_vars(WorkerEnd(w))
        /\ WF_vars(WorkerPoisoned(w))
    /\ \A d \in Delivery : /\ WF_vars(Deliver(d))
                          /\ WF_vars(AddTask(d))
                          /\ WF_vars(RejectWork(d))
    /\ \A t \in Task : WF_vars(DropResponse(t) \/ ProcessResponse(t, "sent"))
    /\ WF_vars(CleanFailing({}, "sent"))
    /\ WF_vars(ChangedStart)
    /\ WF_vars(\E w \in WorkerQ :
                \/ SkipWorker(w)
                \/ \E t \in Task : StartOn(w, t, "sent"))
    /\ WF_vars(Restart /\ UNCHANGED faults)

FairSpec == Spec /\ Fairness

-----------------------------------------------------------------------------
(***************************************************************************)
(* Properties.                                                             *)
(***************************************************************************)
\* The variables have their types.
TypeOK ==
    /\ Consumer!ConsumerTypeOK
    /\ reg \subseteq RegMsg
    /\ resp \in [Task -> Nat]
    /\ inbox \in [WorkerQ -> Seq(Item)]
    /\ arrived \subseteq Delivery
    /\ delivery \in [Task -> Delivery \cup {NoDelivery}]
    /\ runsOn \in [Task -> WorkerQ \cup {NoWorker}]
    /\ fails \in [Task -> Nat]
    /\ registered \subseteq WorkerQ
    /\ wtask \in [WorkerQ -> Task \cup {NoTask}]
    /\ pending \in Nat
    /\ todo \subseteq WorkerQ
    /\ conn \subseteq AllConnections
    /\ wproc \in [WorkerQ -> ProcState]
    /\ answered \subseteq Delivery
    /\ faults \in Nat

\* The two maps agree at every moment: a worker is busy with the task that
\* says it runs there and with no other, whatever mix of duplicates, late
\* answers, exits and expiries came before (worker.task against task.worker).
PointersAgree ==
    /\ \A w \in WorkerQ : Working(w) =>
        /\ w \in registered
        /\ wtask[w] \in Known
        /\ runsOn[wtask[w]] = w
    /\ \A t \in Task : Started(t) =>
        /\ t \in Known
        /\ runsOn[t] \in registered
        /\ wtask[runsOn[t]] = t

\* A task in the map holds an unacknowledged message of its own id, so the
\* Ack or Nack that ends the task settles the right message, and only once.
KnownIsHeld ==
    \A t \in Known :
        /\ IdOf[delivery[t]] = t
        /\ delivery[t] \notin arrived \cup Malformed
        /\ WorkOpen => Consumer!Held(delivery[t])

\* The reverse: a message that is held is on its way into the map or in it.
\* The one exception is a message whose id came again while it was held.
HeldIsKnown ==
    WorkOpen =>
        \A d \in Delivery : Consumer!Held(d) =>
            \/ d \in arrived
            \/ delivery[IdOf[d]] = d
            \/ \E e \in Delivery \ {d} :
                    IdOf[e] = IdOf[d] /\ (dstate[e] # "queued" \/ redelivered[e])

\* Both: the task map and the broker agree about every message, whatever is
\* repeated, replaced, answered late or lost with its channel.
HeldAreKnown == KnownIsHeld /\ HeldIsKnown

\* A task is given up after maxTaskFailCount failures, never later: it is
\* not started again once the limit is reached.
FailBound ==
    \A t \in Task :
        /\ fails[t] <= MaxFail
        /\ Started(t) => fails[t] < MaxFail

\* A started task is never forgotten by everybody: while its worker process
\* lives, the task waits or runs there or its answer is on the way back.
HasItem(w, t) == \E i \in DOMAIN inbox[w] : inbox[w][i] = [id |-> t, live |-> TRUE]
StartedIsRunning ==
    \A t \in Task : Started(t) =>
        \/ wproc[runsOn[t]] # "on"
        \/ HasItem(runsOn[t], t)
        \/ resp[t] > 0
        \/ "main" \notin conn

\* No message is lost silently: an acknowledged one was answered, and a
\* readable one is discarded only after a second delivery failed too.  None
\* is answered twice unless the broker delivered it twice.
NoSilentLoss ==
    \A d \in Delivery :
        /\ dstate[d] = "acked" => d \in answered
        /\ dstate[d] = "discarded" => d \in Malformed \/ redelivered[d]
        /\ d \in answered => dstate[d] = "acked" \/ redelivered[d]

\* The dispatcher keeps the discipline of a queue consumer.
ConsumerSpec == Consumer!Spec

\* Every readable message is settled in the end, or was replaced by another
\* one of the same id that is.
Settled(d) == d \notin Malformed /\ dstate[d] \in {"acked", "discarded"}
EveryTaskSettled ==
    \A d \in Delivery \ Malformed :
        dstate[d] = "queued" ~>
            \E e \in Delivery : IdOf[e] = IdOf[d] /\ Settled(e)
=============================================================================
