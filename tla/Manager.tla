------------------------------- MODULE Manager -------------------------------
(***************************************************************************)
(* The manager service: it drives a transcription through its stages.      *)
(* Seven listeners run concurrently, one per queue, each with one message  *)
(* at a time: the Decode queue and the result queues of the six stages.    *)
(* A handler saves the new status, tells everybody and sends the work      *)
(* message of the next stage, one call after another; the broker has the   *)
(* message until the handler settles it.                                   *)
(*                                                                         *)
(* All listeners and senders share one connection.  A publish that fails   *)
(* closes it: what was not settled is queued again at once, the handlers   *)
(* in progress go on until the service exits, and none of them can settle  *)
(* its message any more.                                                   *)
(***************************************************************************)
EXTENDS Naturals, FiniteSets

CONSTANTS
    ID,             \* transcriptions
    Split,          \* those with the tag to separate speakers on channels
    Child,          \* parts of a larger one: tagged with two queues of it, one
                    \* for the changes of the status and one for the result
    Silent,         \* those whose audio may hold no speech
    Failing,        \* the stages whose worker may answer with an error
    Faults,         \* which kinds of fault happen
    MaxFaults,      \* bound: how many faults happen
    MaxBusy         \* bound: how many listeners have a message at once

FaultKind == {"db", "connection", "crash", "worker"}

Stage == {"SplitChannels", "AudioConvert", "Diarization", "Transcription",
          "Rescore", "ResultMake"}

ASSUME ManagerAssumption ==
    /\ Split \subseteq ID /\ Child \subseteq ID /\ Silent \subseteq ID
    /\ Failing \subseteq Stage
    /\ Faults \subseteq FaultKind
    /\ MaxFaults \in Nat /\ MaxBusy \in Nat

Listener == Stage \cup {"Decode"}

\* status.go; 0 is a record that does not exist
Status == 0 .. 9
Uploaded == 1
Completed == 9
StatusOf == [SplitChannels |-> 2, AudioConvert |-> 3, Diarization |-> 4,
             Transcription |-> 5, Rescore |-> 6, ResultMake |-> 7]

VARIABLES
    ready,          \* messages that wait for a listener, how many of each
    work,           \* work messages of each stage and transcription
    h,              \* what each listener does
    up,             \* the listeners' connection is open
    status, error,  \* the status record: its status, whether an error is set
    result,         \* the transcriptions whose result text is saved
    available,      \* the transcriptions whose availableResults are saved
    unpublished,    \* who is to be told yet of a change of a transcription
    told,           \* the inform messages sent of each transcription
    reported,       \* the transcriptions whose end was sent to their result queue
    handed,         \* the transcriptions passed on to DecodeMultiple
    dropped,        \* those a message of which was discarded
    dbFailed,       \* in which deliveries of which the database failed, the
                    \* first ones or redelivered ones
    faults          \* how many faults happened

dbVars == <<status, error, result, available, dbFailed>>
sentVars == <<unpublished, told, reported, handed>>
vars == <<ready, work, h, up, dbVars, sentVars, dropped, faults>>

Msg == [l : Listener, id : ID, err : BOOLEAN, redelivered : BOOLEAN]
PC == {"result", "available", "status", "error", "topic", "parent", "started", "next",
       "report", "finished", "failed", "reportFailed", "settle"}
Handler == [id : ID, err : BOOLEAN, redelivered : BOOLEAN,
            noSpeech : BOOLEAN,     \* the file of segments is empty
            pc : PC,
            ok : BOOLEAN]           \* the handler is to return no error
Idle == [pc |-> "idle"]

Init ==
    /\ ready = [m \in Msg |-> 0]
    /\ work = [s \in Stage |-> [i \in ID |-> 0]]
    /\ h = [l \in Listener |-> Idle]
    /\ up = TRUE
    /\ status = [i \in ID |-> 0]
    /\ error = [i \in ID |-> FALSE]
    /\ result = {} /\ available = {} /\ dbFailed = {}
    /\ unpublished = {}
    /\ told = [i \in ID |-> {}]
    /\ reported = {} /\ handed = {} /\ dropped = {}
    /\ faults = 0

-----------------------------------------------------------------------------
Busy(l) == h[l] # Idle

Fault(kind) == /\ kind \in Faults
               /\ faults < MaxFaults
               /\ faults' = faults + 1

\* The unsettled messages are back in their queues, marked redelivered.
HeldBy(l) == [l |-> l, id |-> h[l].id, err |-> h[l].err, redelivered |-> TRUE]
NotRequeued(m) == FALSE                          \* mutant: auto-ack
Requeued(m) == Busy(m.l) /\ m = HeldBy(m.l)
Requeue == ready' = [m \in Msg |-> IF Requeued(m) THEN ready[m] + 1 ELSE ready[m]]

(***************************************************************************)
(* A publish: it is sent, or it is sent on a second connection after the   *)
(* first was closed, or it fails there too.                                *)
(***************************************************************************)
SendOutcome == {"sent", "reconnected", "failed"}

SendOver(out) ==
    \/ out = "sent" /\ UNCHANGED <<up, ready, faults>>
    \/ /\ out # "sent"
       /\ Fault("connection")
       /\ up' = FALSE
       /\ IF up THEN Requeue ELSE UNCHANGED ready

Goto(l, pc) == h' = [h EXCEPT ![l].pc = pc]
Return(l, ok) == h' = [h EXCEPT ![l].pc = "settle", ![l].ok = ok]

\* A call of the database fails.
DbFault(l) ==
    /\ Fault("db")
    /\ dbFailed' = dbFailed \cup {<<h[l].id, h[l].redelivered>>}
    /\ UNCHANGED <<status, error, result, available, unpublished>>

(***************************************************************************)
(* What follows a stage: the status to save and the stage to send to.      *)
(***************************************************************************)
NextStage(l, id, noSpeech) ==
    CASE l = "Decode"        -> IF id \in Split THEN "SplitChannels" ELSE "AudioConvert"
      [] l = "SplitChannels" -> "DecodeMultiple"
      [] l = "AudioConvert"  -> "Diarization"
      [] l = "Diarization"   -> IF noSpeech THEN "ResultMake" ELSE "Transcription"
      [] l = "Transcription" -> "Rescore"
      [] l = "Rescore"       -> "ResultMake"
      [] l = "ResultMake"    -> "none"

\* There is no status for DecodeMultiple.
NextStatusRepeated(l, id, noSpeech) ==           \* mutant: rescoreFinish as the one before
    CASE l \in {"SplitChannels", "Rescore"} -> StatusOf["AudioConvert"]
      [] l = "ResultMake" -> Completed
      [] OTHER -> StatusOf[NextStage(l, id, noSpeech)]
NextStatus(l, id, noSpeech) ==
    CASE l = "ResultMake"    -> Completed
      [] l = "SplitChannels" -> StatusOf["AudioConvert"]
      [] OTHER               -> StatusOf[NextStage(l, id, noSpeech)]

\* Where a handler starts.
EntryStatusFirst(l, err) == IF err THEN "error" ELSE "status"   \* mutant
Entry(l, err) == CASE err -> "error"
                   [] ~err /\ l = "ResultMake" -> "result"
                   [] ~err /\ l # "ResultMake" -> "status"

\* Who a change of the status is published to.
Audience(id) == {"topic"} \cup (IF id \in Child THEN {"parent"} ELSE {})
Unpublished(id) == unpublished \cup ({id} \X Audience(id))

\* What a handler does when it has published the change.
AfterPublishSilent(l, id, err) ==                \* mutant: no inform message on failure
    CASE err -> "settle"
      [] ~err /\ l = "Decode" -> "started"
      [] ~err /\ l = "ResultMake" -> "finished"
      [] ~err /\ l \notin {"Decode", "ResultMake"} -> "next"
AfterPublish(l, id, err) ==
    CASE err -> "failed"
      [] ~err /\ l = "Decode" -> "started"
      [] ~err /\ l = "ResultMake" -> IF id \in Child THEN "report" ELSE "finished"
      [] ~err /\ l \notin {"Decode", "ResultMake"} -> "next"

-----------------------------------------------------------------------------
(***************************************************************************)
(* The upload service and the workers, as far as the manager sees them.    *)
(***************************************************************************)
Upload(id) ==
    /\ status[id] = 0
    /\ status' = [status EXCEPT ![id] = Uploaded]
    /\ ready' = [ready EXCEPT ![[l |-> "Decode", id |-> id, err |-> FALSE,
                                 redelivered |-> FALSE]] = @ + 1]
    /\ UNCHANGED <<work, h, up, error, result, available, dbFailed, sentVars, dropped,
                   faults>>

\* A worker answers with a result or an error.  As a fault the message it
\* worked on is delivered again.
Worker(s, id, err) ==
    /\ work[s][id] > 0
    /\ err => s \in Failing
    /\ ready' = [ready EXCEPT ![[l |-> s, id |-> id, err |-> err,
                                 redelivered |-> FALSE]] = @ + 1]
    /\ \/ work' = [work EXCEPT ![s][id] = @ - 1] /\ UNCHANGED faults
       \/ Fault("worker") /\ UNCHANGED work
    /\ UNCHANGED <<h, up, dbVars, sentVars, dropped>>

-----------------------------------------------------------------------------
(***************************************************************************)
(* listenQueue: a message is taken, and settled when the handler returns.  *)
(***************************************************************************)
Take(m, noSpeech) ==
    /\ up
    /\ h[m.l] = Idle
    /\ ready[m] > 0
    /\ Cardinality({l \in Listener : Busy(l)}) < MaxBusy
    /\ noSpeech => m.l = "Diarization" /\ ~m.err /\ m.id \in Silent
    /\ ready' = [ready EXCEPT ![m] = @ - 1]
    /\ h' = [h EXCEPT ![m.l] =
                [id |-> m.id, err |-> m.err, redelivered |-> m.redelivered,
                 noSpeech |-> noSpeech, pc |-> Entry(m.l, m.err), ok |-> TRUE]]
    /\ UNCHANGED <<work, up, dbVars, sentVars, dropped, faults>>

\* Ack, or Nack(false, redeliver && !d.Redelivered).  Neither arrives over a
\* connection that is closed.
DropAtOnce(l) == up /\ ~h[l].ok                  \* mutant: no second delivery
MustDrop(l) == up /\ ~h[l].ok /\ h[l].redelivered
AlwaysRequeue(l) == up /\ ~h[l].redelivered      \* mutant: Nack after a success
MustRequeue(l) == up /\ ~h[l].ok /\ ~h[l].redelivered

Settle(l) ==
    /\ h[l].pc = "settle"
    /\ h' = [h EXCEPT ![l] = Idle]
    /\ IF MustRequeue(l) THEN ready' = [ready EXCEPT ![HeldBy(l)] = @ + 1]
                         ELSE UNCHANGED ready
    /\ dropped' = IF MustDrop(l) THEN dropped \cup {h[l].id} ELSE dropped
    /\ UNCHANGED <<work, up, dbVars, sentVars, faults>>

-----------------------------------------------------------------------------
(***************************************************************************)
(* The steps of the handlers.  `id' is the transcription of the message.   *)
(***************************************************************************)
SaveResult(l) ==
    /\ h[l].pc = "result"
    /\ \/ /\ result' = result \cup {h[l].id}
          /\ Goto(l, "available")
          /\ UNCHANGED <<status, error, available, dbFailed, faults>>
       \/ DbFault(l) /\ Return(l, FALSE)
    /\ UNCHANGED <<ready, work, up, sentVars, dropped>>

SaveAvailable(l) ==
    /\ h[l].pc = "available"
    /\ \/ /\ available' = available \cup {h[l].id}
          /\ Goto(l, "status")
          /\ UNCHANGED <<status, error, result, dbFailed, faults>>
       \/ DbFault(l) /\ Return(l, FALSE)
    /\ UNCHANGED <<ready, work, up, sentVars, dropped>>

\* The new status replaces the old one and any error.  When that fails all
\* handlers but decode send a failure message before they return the error.
SaveStatus(l) ==
    LET id == h[l].id IN
    /\ h[l].pc = "status"
    /\ \/ /\ status' = [status EXCEPT ![id] = NextStatus(l, id, h[l].noSpeech)]
          /\ error' = [error EXCEPT ![id] = FALSE]
          /\ unpublished' = Unpublished(id)
          /\ Goto(l, "topic")
          /\ UNCHANGED <<result, available, dbFailed, faults>>
       \/ /\ DbFault(l)
          /\ h' = [h EXCEPT ![l].pc = IF l = "Decode" THEN "settle" ELSE "failed",
                            ![l].ok = FALSE]
    /\ UNCHANGED <<ready, work, up, told, reported, handed, dropped>>

SaveError(l) ==
    LET id == h[l].id IN
    /\ h[l].pc = "error"
    /\ \/ /\ error' = [error EXCEPT ![id] = TRUE]
          /\ unpublished' = Unpublished(id)
          /\ Goto(l, "topic")
          /\ UNCHANGED <<status, result, available, dbFailed, faults>>
       \/ DbFault(l) /\ Return(l, FALSE)
    /\ UNCHANGED <<ready, work, up, told, reported, handed, dropped>>

\* publishStatusChange: the topic, and then for a part of a larger
\* transcription the status queue of that one.  A failure is only logged.
Publish(l, out) ==
    LET id == h[l].id IN
    /\ h[l].pc \in {"topic", "parent"}
    /\ SendOver(out)
    /\ unpublished' = IF out = "failed" THEN unpublished
                                        ELSE unpublished \ {<<id, h[l].pc>>}
    /\ Goto(l, IF h[l].pc = "topic" /\ id \in Child THEN "parent"
               ELSE AfterPublish(l, id, h[l].err))
    /\ UNCHANGED <<work, dbVars, told, reported, handed, dropped>>

Inform(id, type) == told' = [told EXCEPT ![id] = @ \cup {type}]

InformStarted(l, out) ==
    /\ h[l].pc = "started"
    /\ SendOver(out)
    /\ IF out = "failed" THEN Return(l, FALSE) /\ UNCHANGED told
                         ELSE Goto(l, "next") /\ Inform(h[l].id, "Started")
    /\ UNCHANGED <<work, dbVars, unpublished, reported, handed, dropped>>

SendNext(l, out) ==
    LET id == h[l].id
        to == NextStage(l, id, h[l].noSpeech) IN
    /\ h[l].pc = "next"
    /\ SendOver(out)
    /\ IF out = "failed"
       THEN Return(l, FALSE) /\ UNCHANGED <<work, handed>>
       ELSE /\ Return(l, TRUE)
            /\ IF to \in Stage
               THEN work' = [work EXCEPT ![to][id] = @ + 1] /\ UNCHANGED handed
               ELSE handed' = handed \cup {id} /\ UNCHANGED work
    /\ UNCHANGED <<dbVars, unpublished, told, reported, dropped>>

\* The message to the result queue of a part, at its end and after a
\* failure.  A send that fails is only logged.
Report(l, out) ==
    /\ h[l].pc \in {"report", "reportFailed"}
    /\ SendOver(out)
    /\ reported' = IF out = "failed" THEN reported ELSE reported \cup {h[l].id}
    /\ Goto(l, IF h[l].pc = "report" THEN "finished" ELSE "settle")
    /\ UNCHANGED <<work, dbVars, unpublished, told, handed, dropped>>

InformFinished(l, out) ==
    /\ h[l].pc = "finished"
    /\ SendOver(out)
    /\ IF out = "failed" THEN Return(l, FALSE) /\ UNCHANGED told
                         ELSE Return(l, TRUE) /\ Inform(h[l].id, "Finished")
    /\ UNCHANGED <<work, dbVars, unpublished, reported, handed, dropped>>

\* sendInformFailure; a send that fails is only logged.
InformFailed(l, out) ==
    /\ h[l].pc = "failed"
    /\ SendOver(out)
    /\ Goto(l, IF h[l].id \in Child THEN "reportFailed" ELSE "settle")
    /\ IF out = "failed" THEN UNCHANGED told ELSE Inform(h[l].id, "Failed")
    /\ UNCHANGED <<work, dbVars, unpublished, reported, handed, dropped>>

-----------------------------------------------------------------------------
\* The service exits after it lost its connection, or is killed.
Restart ==
    /\ \/ ~up /\ UNCHANGED <<ready, faults>>
       \/ up /\ Fault("crash") /\ Requeue
    /\ up' = TRUE
    /\ h' = [l \in Listener |-> Idle]
    /\ UNCHANGED <<work, dbVars, sentVars, dropped>>

Handle(l) ==
    \/ SaveResult(l) \/ SaveAvailable(l) \/ SaveStatus(l) \/ SaveError(l)
    \/ Settle(l)
    \/ \E out \in SendOutcome :
        \/ Publish(l, out) \/ InformStarted(l, out) \/ SendNext(l, out)
        \/ Report(l, out) \/ InformFinished(l, out) \/ InformFailed(l, out)

Next ==
    \/ \E id \in ID : Upload(id)
    \/ \E s \in Stage, id \in ID, err \in BOOLEAN : Worker(s, id, err)
    \/ \E m \in Msg, noSpeech \in BOOLEAN : Take(m, noSpeech)
    \/ \E l \in Listener : Handle(l)
    \/ Restart

Spec == Init /\ [][Next]_vars

(***************************************************************************)
(* Fairness: listeners take messages and run their handlers, workers       *)
(* answer, and a service that is to exit does and is started again.        *)
(***************************************************************************)
Fairness ==
    /\ \A l \in Listener :
        /\ WF_vars(\E m \in Msg, noSpeech \in BOOLEAN : m.l = l /\ Take(m, noSpeech))
        /\ WF_vars(Handle(l) /\ UNCHANGED faults)
    /\ \A s \in Stage, id \in ID :
        WF_vars(\E err \in BOOLEAN : Worker(s, id, err) /\ UNCHANGED faults)
    /\ WF_vars(~up /\ Restart)

FairSpec == Spec /\ Fairness

-----------------------------------------------------------------------------
(***************************************************************************)
(* What the service promises.                                              *)
(***************************************************************************)

\* The variables have the values the program gives them.
TypeOK ==
    /\ ready \in [Msg -> Nat]
    /\ work \in [Stage -> [ID -> Nat]]
    /\ h \in [Listener -> Handler \cup {Idle}]
    /\ up \in BOOLEAN
    /\ status \in [ID -> Status]
    /\ error \in [ID -> BOOLEAN]
    /\ result \subseteq ID /\ available \subseteq ID
    /\ unpublished \subseteq ID \X {"topic", "parent"}
    /\ told \in [ID -> SUBSET {"Started", "Finished", "Failed"}]
    /\ reported \subseteq Child /\ handed \subseteq Split /\ dropped \subseteq ID
    /\ dbFailed \subseteq ID \X BOOLEAN
    /\ faults \in 0 .. MaxFaults

\* A transcription that is shown as completed, or whose owner was told that it
\* is finished, has its result and the list of its result files, however many
\* times its messages were delivered and whichever calls failed
\* (resultMakeFinish saves before it sets the status).
ResultBeforeCompleted ==
    \A id \in ID :
        status[id] = Completed \/ "Finished" \in told[id]
            => id \in result /\ id \in available

\* A handler still has to record an end, to send the next message, or to give
\* its message back.
OnDuty(l, id) ==
    /\ up /\ Busy(l) /\ h[l].id = id
    /\ \/ ~h[l].ok
       \/ h[l].pc \in {"result", "available", "status", "error", "started", "next"}
       \/ h[l].pc \in {"topic", "parent"} /\ AfterPublish(l, id, h[l].err) \in {"started", "next"}

Waiting(id) == \/ \E m \in Msg : m.id = id /\ ready[m] > 0
               \/ \E s \in Stage : work[s][id] > 0

Final(id) == error[id] \/ status[id] = Completed

\* Every uploaded transcription has an end in its record, or was passed on, or
\* somebody still works on it: a message waits or a handler is not done.  The
\* exception is one whose message was discarded after the database failed
\* twice (listenQueue's second Nack).
NoLostWork ==
    \A id \in ID :
        status[id] # 0 => \/ Final(id) \/ id \in handed \/ id \in dropped
                          \/ Waiting(id) \/ \E l \in Listener : OnDuty(l, id)

\* Nothing is left to do for the transcription.
Quiet(id) == ~Waiting(id) /\ \A l \in Listener : Busy(l) => h[l].id # id

\* When all is done everybody knows the end: the owner got the message of a
\* failure or of success that the record shows, the topic and the parent were
\* told of the last change, and the parent has the report of its part.  A send
\* that fails is not repeated by the handler: the closed connection is what
\* brings its message back.
OutcomeIsTold ==
    \A id \in ID :
        Quiet(id) /\ status[id] # 0 /\ id \notin dropped =>
            /\ error[id] => "Failed" \in told[id]
            /\ ~error[id] /\ status[id] = Completed => "Finished" \in told[id]
            /\ \A a \in Audience(id) : <<id, a>> \notin unpublished
            /\ Final(id) /\ id \in Child => id \in reported

\* A message is only discarded for the database: it fails in a delivery that
\* is not the first one, which took a fault before.  Nothing else that happens
\* to a connection, the service or a worker, and in no order, makes the service
\* give up on a transcription (listenQueue's second Nack).
GivenUpForDatabase ==
    /\ \A id \in dropped : <<id, TRUE>> \in dbFailed
    /\ dropped # {} => faults >= 2

\* As long as nothing failed a transcription has one message or handler at a
\* time, and its owner never gets both a failure and a success.
Tokens(id) ==
    Cardinality({p \in Msg \X (1 .. 2) : p[1].id = id /\ p[2] <= ready[p[1]]})
    + Cardinality({p \in Stage \X (1 .. 2) : p[2] <= work[p[1]][id]})
    + Cardinality({l \in Listener : OnDuty(l, id)})
OneOutcome ==
    faults = 0 => \A id \in ID : /\ Tokens(id) <= 1
                                 /\ ~({"Finished", "Failed"} \subseteq told[id])

\* As long as nothing failed the status never goes back, and after an end it
\* stays.
StatusAdvances ==
    [][faults' = 0 => \A id \in ID :
            /\ status'[id] >= status[id]
            /\ Final(id) => status'[id] = status[id] /\ error'[id] = error[id]]_vars

\* Every uploaded transcription ends: its record shows the end, or it is
\* passed on, with nothing left to do.
EveryUploadEnds ==
    \A id \in ID :
        status[id] # 0 ~> id \in dropped \/ (Quiet(id) /\ (Final(id) \/ id \in handed))
=============================================================================
