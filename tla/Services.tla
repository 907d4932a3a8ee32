------------------------------ MODULE Services ------------------------------
(***************************************************************************)
(* The services around the transcription, each by itself: uploads,         *)
(* cleanings, the inform replicas, the status events, the choices of the   *)
(* cost strategy, the punctuator, the map of recognizers and the metrics.  *)
(* They share no state, so that a behaviour of their composition is one    *)
(* behaviour of each; this module has the behaviours of every part, with   *)
(* the other parts at rest.                                                *)
(***************************************************************************)
EXTENDS Naturals, Integers, Sequences, FiniteSets, SequencesExt

CONSTANTS
    None, Faults,
    Budget,                     \* MaxFaults of each part
    Id, Name, AudioName, MaxFiles, Forms, Patterns, PageSize, Expiring,
    NewIds,                     \* the ids of new uploads
    Earlier,                    \* ids that were uploaded before, in order
    Deleted,                    \* those that their clients have cleaned
    Delivery, MailOf, Replica,
    Topic, Conn, MaxChanges, MaxMessages, InitialWait, MaxWait,
    Task, Worker, NoModel, LoadTime, RtFactor, Unit, DelayCost, MaxNow,
    MaxWords, Timesteps, Mark, SentenceEnd, Unset,
    Versions, Broken, BadInfo, Caller, MaxCalls,
    Tracked, KeyOf, Length, MaxHours, MaxRuns, MaxPosts

ASSUME ServicesAssumption ==
    /\ AudioName \subseteq Name
    /\ NewIds \cup Range(Earlier) \cup Deleted \subseteq Id /\ IsInjective(Earlier)
    /\ MaxFiles \in Nat /\ PageSize \in Nat \ {0}
    /\ InitialWait \in 1..MaxWait
    /\ {LoadTime, RtFactor, Unit, DelayCost} \subseteq Nat \ {0}
    /\ LoadTime < 100000               \* it costs less than CostMax
    /\ Task \subseteq [type : Nat, arrived : Int, duration : Nat]
    /\ IsFiniteSet(Task) /\ None \notin Task
    /\ NoModel # 0                     \* the type of a task that has none
    /\ Worker \subseteq Nat /\ Worker # {}
    /\ MaxWords \in Nat /\ Timesteps \subseteq Nat /\ \A t \in Timesteps : t >= 3
    /\ SentenceEnd \subseteq Mark /\ Unset \notin Mark
    /\ None \notin Caller /\ None \notin Topic /\ None \notin Delivery
    /\ None \notin Replica
    /\ Length \in [Tracked -> Nat]

VARIABLES
    part, faults,
    upc, form, nfile, written, sent, reply,
    cleaning, job, failed, tpc, skip, list, cleanReply, expired,
    requests, store, status,
    dstate, redelivered, ipc, cur, held, value, locks, mails,
    connectionID, idConnections, cpc, messages, current, announced, queue,
    channel, lpc, wait, event, toSend, visited, result, shown, missed,
    todo, workers, now,
    length, timesteps, ci, marks, madeAt, ppc,
    file, noticed, events, mpc, copyV, vLock, v, cLock, needsReload, cached, lastErr,
    gpc, calls,
    dMap, hour, runs, starts, ends, tasksStarted, tasksEnded, observed

Up == INSTANCE Upload WITH MaxFaults <- Budget.upload
Clean == INSTANCE Clean WITH MaxFaults <- Budget.cleaning
Mails == INSTANCE Inform WITH MaxFaults <- Budget.inform
Status == INSTANCE StatusEvents WITH MaxFaults <- Budget.events
Strategy == INSTANCE Cost
Punct == INSTANCE Punctuator
Recognizers == INSTANCE RecognizerMap WITH MaxFaults <- Budget.recognizers
Meter == INSTANCE Metrics

uploadVars == <<upc, form, nfile, written, sent, reply>>
cleanVars == <<cleaning, job, failed, tpc, skip, list, cleanReply>>
storageVars == <<uploadVars, cleanVars, expired, requests, store, status>>
informVars == <<dstate, redelivered, ipc, cur, held, value, locks, mails>>
eventVars == <<connectionID, idConnections, cpc, messages, current, announced,
               queue, channel, lpc, wait, event, toSend, visited, result, shown,
               missed>>
costVars == <<todo, workers, now>>
punctVars == <<length, timesteps, ci, marks, madeAt, ppc>>
mapVars == <<file, noticed, events, mpc, copyV, vLock, v, cLock, needsReload, cached,
             lastErr, gpc, calls>>
metricVars == <<dMap, hour, runs, starts, ends, tasksStarted, tasksEnded, observed>>

vars == <<part, faults, storageVars, informVars, eventVars, costVars, punctVars,
          mapVars, metricVars>>

-----------------------------------------------------------------------------
Part == {"upload", "cleaning", "inform", "events", "cost", "punctuation",
         "recognizers", "metrics"}

\* What is cleaned was uploaded before.
There == IF part = "cleaning" THEN Earlier ELSE <<>>

StorageInit ==
    /\ Up!Init
    /\ Clean!Init
    /\ requests = There
    /\ store = [id \in Id |-> IF id \in Range(There)
                              THEN {"audio", "request", "status"} ELSE {}]
    /\ status = [id \in Id |-> IF id \in Range(There) THEN "Uploaded" ELSE None]

CostInit ==
    IF part = "cost" THEN Strategy!Init
    ELSE todo = {} /\ workers = <<>> /\ now = 0

PunctInit ==
    IF part = "punctuation" THEN Punct!Init
    ELSE /\ length = 0 /\ timesteps = 3 /\ ci = 0
         /\ marks = <<>> /\ madeAt = <<>> /\ ppc = "done"

Init ==
    /\ part \in Part
    /\ faults = {}
    /\ StorageInit
    /\ Mails!Init
    /\ Status!Init
    /\ CostInit
    /\ PunctInit
    /\ Recognizers!Init
    /\ Meter!Init

-----------------------------------------------------------------------------
\* Clients post forms, with an id not used before.
Uploads ==
    /\ \/ /\ \E id \in NewIds, f \in Forms : Up!Post(id, f)
          /\ UNCHANGED <<requests, store, status, faults>>
       \/ \E id \in Id : Up!Handle(id)
       \/ Up!UploadCrash
    /\ UNCHANGED <<cleanVars, expired>>

\* A client has an id cleaned, once.
Deletes(id) ==
    /\ id \in Deleted
    /\ cleanReply[id] = None
    /\ Clean!Delete(id)
    /\ UNCHANGED <<uploadVars, expired, requests, store, status, faults>>

Cleans(c) ==
    /\ Clean!Job(c) \/ Clean!Cleaned(c)
    /\ UNCHANGED <<uploadVars, status>>

TimerStep ==
    /\ Clean!Timer
    /\ UNCHANGED <<uploadVars, status>>

CleanCrash ==
    /\ Clean!CleanCrash
    /\ UNCHANGED <<uploadVars, status>>

Expire(id) ==
    /\ Clean!Expire(id)
    /\ UNCHANGED <<uploadVars, status>>

Running(p) == part = p /\ UNCHANGED part

UploadStep(A) ==
    /\ Running("upload")
    /\ A
    /\ UNCHANGED <<informVars, eventVars, costVars, punctVars, mapVars, metricVars>>

CleanStep(A) ==
    /\ Running("cleaning")
    /\ A
    /\ UNCHANGED <<informVars, eventVars, costVars, punctVars, mapVars, metricVars>>

InformStep(A) ==
    /\ Running("inform")
    /\ A
    /\ UNCHANGED <<storageVars, eventVars, costVars, punctVars, mapVars, metricVars>>

EventStep(A) ==
    /\ Running("events")
    /\ A
    /\ UNCHANGED <<storageVars, informVars, costVars, punctVars, mapVars, metricVars>>

CostStep(A) ==
    /\ Running("cost")
    /\ A
    /\ UNCHANGED <<storageVars, informVars, eventVars, punctVars, mapVars, metricVars,
                   faults>>

PunctStep(A) ==
    /\ Running("punctuation")
    /\ A
    /\ UNCHANGED <<storageVars, informVars, eventVars, costVars, mapVars, metricVars,
                   faults>>

MapStep(A) ==
    /\ Running("recognizers")
    /\ A
    /\ UNCHANGED <<storageVars, informVars, eventVars, costVars, punctVars, metricVars>>

MeterStep(A) ==
    /\ Running("metrics")
    /\ A
    /\ UNCHANGED <<storageVars, informVars, eventVars, costVars, punctVars, mapVars,
                   faults>>

Next ==
    \/ UploadStep(Uploads)
    \/ \E id \in Id : CleanStep(Deletes(id) \/ Expire(id))
    \/ CleanStep(TimerStep \/ CleanCrash)
    \/ \E c \in Clean!Cleaner : CleanStep(Cleans(c))
    \/ InformStep(Mails!Next)
    \/ EventStep(Status!Next)
    \/ CostStep(Strategy!Next)
    \/ PunctStep(Punct!Next)
    \/ MapStep(Recognizers!Next)
    \/ MeterStep(Meter!Next)

Spec == Init /\ [][Next]_vars

(***************************************************************************)
(* What a service has begun it goes on with: a handler, a loop or a        *)
(* goroutine that can take its next step is not stopped for ever.  In each *)
(* part this work is finite, so that fairness to all of it is fairness to  *)
(* each of its processes.                                                  *)
(***************************************************************************)
Work ==
    \/ CleanStep(TimerStep)
    \/ \E c \in Clean!Cleaner : CleanStep(Cleans(c))
    \/ \E r \in Replica : InformStep(Mails!Work(r))
    \/ EventStep(Status!Listen \/ Status!Bus)
    \/ \E w \in Worker : CostStep(Strategy!Changed(w) \/ Strategy!CompleteTask(w))
    \/ PunctStep(Punct!Punctuate)
    \/ MapStep(Recognizers!Watcher \/ \E c \in Caller : Recognizers!Call(c))

FairSpec == Spec /\ WF_vars(Work)

-----------------------------------------------------------------------------
\* The message that starts a transcription is sent only when every file of
\* the form is stored, unless two of them have the same name (saveFiles).
SentHasItsFiles ==
    \A id \in Id : sent[id] # None =>
        \A k \in Up!Fields(form[id]) :
            \/ \E w \in written[id] : w[2] = k
            \/ \E j \in Up!Fields(form[id]) :
                  j # k /\ form[id].names[j] = form[id].names[k]

\* The locks do their work: a mail with one lock record is sent once, whatever
\* is delivered twice, put back, lost or crashes, none is lost while its lock is
\* free, and no lock is taken by nobody (Lock, UnLock); the exceptions are those
\* of module Inform.
LocksWork == Mails!LocksWork

\* The locker "is used to quarantee not to send the emails twice"
\* (inform/service.go), unless a mail was sent by a call that gave an error.
SentOnce == Mails!SentOnce

\* The inform replicas keep the discipline of queue consumers: a message is held
\* by one of them, which alone settles it, and once, and puts it back at most once
\* ("try redeliver for the first time", inform/service.go), also when a replica
\* goes on with a message whose connection it has lost.
InformConsumes == Mails!Consumer!Spec

\* The two maps of the status service agree (saveConnection,
\* deleteConnection), and when nothing about an id is under way, its
\* connections were written its newest status, but for the events that a
\* fault lost (see StatusEvents).
SubscribersAreServed == Status!SubscribersAreServed

\* The strategy never leaves all workers idle while a task waits (FindBest);
\* an idle worker waits only for workers that are expected to be free before
\* it could load the model they have (getTaskByV2); and a task that waited
\* for longer than a model's load is worth is passed over only for a worker
\* that has its model (calcCost, getBest).
ChoiceIsRight == part = "cost" => Strategy!ChoiceIsRight

\* Every mark of a punctuated text was given by a window that begins at a
\* sentence's first word when it can (fillResult).
MarksAreWhole == part = "punctuation" => Punct!MarksAreWhole

\* Between requests the recognizers' cache is of the map in use, or is to be
\* loaded anew (onConfigChange, GetAll).
CacheIsOfMap == Recognizers!CacheIsOfMap

\* Durations are observed once for a start and an end, and never negative
\* (metrics ServeHTTP), and the start of a short task is kept until its end
\* can no longer be posted (checkForExpired).
TasksAreMeasured == Meter!TasksAreMeasured

\* What was accepted or is due is done in the end.  Every message of the
\* Inform queue is settled (processMsg); every task is started though idle
\* workers may wait for better ones (FindBest); every text is punctuated,
\* whatever marks the model gives (punctuate); the timer cleans what is old
\* though jobs, queries and the service fail and DELETE requests shift its
\* pages (serviceLoop, Get); the status service listens again after every
\* loss of its channel (registerQueue); and the last map of recognizers that
\* was written is used, whatever was written before it, if it is one, was
\* written under the watch (addWatcher), and its reading did not fail.
WorkIsDone ==
    <>[]CASE part = "inform" -> \A d \in Delivery : dstate[d] \in {"acked", "discarded"}
          [] part = "cost" -> todo = {}
          [] part = "punctuation" -> ppc # "run"
          [] part = "cleaning" -> expired \cap Range(requests) = {}
          [] part = "events" -> Status!Listening
          [] part = "recognizers" ->
                  file = noticed /\ file \notin Broken => v = file
          [] OTHER -> TRUE
=============================================================================
