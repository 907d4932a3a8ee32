--------------------------------- MODULE Zoom ---------------------------------
(***************************************************************************)
(* The zoom service: a transcription of several files is split into parts, *)
(* one for each file, that the manager drives like any other.  While they  *)
(* run the status of the parent follows the slowest part; when all are     *)
(* completed their results are joined; when one fails the parent fails.    *)
(* Meanwhile the files themselves are merged into one audio.               *)
(*                                                                         *)
(* Five listeners run concurrently.  The handlers of the messages of the   *)
(* parts read the records of the parent and of the parts one after another *)
(* and decide on what they read; the record of the parent is written by    *)
(* all of them.  One parent is modelled; a redelivered DecodeMultiple      *)
(* message gives it a second set of parts with new ids.                    *)
(***************************************************************************)
EXTENDS Naturals, FiniteSets

CONSTANTS
    Files,          \* how many files the parent has
    Uploads,        \* what kinds of upload there are
    PartStages,     \* the stages the part of each file is seen in before it ends
    Failing,        \* the work that may end with an error
    Faults,         \* which kinds of fault happen
    MaxFaults,      \* bound: how many faults happen
    MaxBusy         \* bound: how many listeners have a message at once, for each
                    \* kind of upload

Work == {"JoinAudio", "JoinResults"}
Listener == Work \cup {"DecodeMultiple", "OneStatus", "OneCompleted"}
\* Files of one length, files of different lengths, which is refused, or the
\* channels of one file, which are not merged.
UploadKind == {"files", "uneven", "channels"}
FaultKind == {"io", "connection", "crash", "repeat"}

ASSUME ZoomAssumption ==
    /\ Files \in Nat \ {0}
    /\ Uploads \subseteq UploadKind
    /\ PartStages \in [1 .. Files -> SUBSET (2 .. 7)]
    /\ Failing \subseteq Work \cup {"Part"}
    /\ Faults \subseteq FaultKind
    /\ MaxFaults \in Nat /\ MaxBusy \in [Uploads -> Nat]

\* status.go; 0 is a record that does not exist
Status == 0 .. 9
Uploaded == 1
JoinResults == 8
Completed == 9

\* Each set of parts but the first needs a repeated DecodeMultiple message.
Attempt == 1 .. MaxFaults + 1
Part == Attempt \X (1 .. Files)

VARIABLES
    ready,          \* messages that wait for a listener, how many of each
    work,           \* work messages to merge the audio and to join the results
    h,              \* what each listener does
    up,             \* the listeners' connection is open
    status, error,  \* the parent's record: its status, whether an error is set
    audioReady,     \* the parent's merged audio is marked as ready
    result,         \* the parent's joined result is saved
    available,      \* the parent's availableResults are saved
    partStatus,     \* the records of the parts
    partError,
    running,        \* the parts whose Decode message was sent
    related,        \* the work record: the set of parts, 0 while there is none
    upload,         \* the kind of the upload
    attempts,       \* how many sets of parts were begun
    told,           \* the inform messages sent to the owner
    dropped,        \* the queues a message of which was discarded
    faults          \* how many faults happened

parentVars == <<status, error, audioReady, result, available, related>>
partVars == <<partStatus, partError, running>>
vars == <<ready, work, h, up, parentVars, partVars, upload, attempts, told, dropped,
          faults>>

Msg == [q : Listener, err : BOOLEAN, redelivered : BOOLEAN]
PC == {"files", "started", "joinAudio", "record", "send", "saveWork",
       "work", "parent", "part", "audioReady", "result", "available",
       "status", "error", "publish", "join", "finished", "failed", "settle"}
Handler == [err : BOOLEAN, redelivered : BOOLEAN, pc : PC,
            set : Nat,          \* the parts it starts or reads
            i : Nat,            \* the part it is at
            seen : Status,      \* the parent's status when it was read
            to : Status,        \* the status it is to save
            bad : BOOLEAN,      \* an error is to be saved, or was
            ok : BOOLEAN,       \* it is to return no error
            again : BOOLEAN]    \* it is to allow a second delivery
Idle == [pc |-> "idle"]

Message(q, err) == [q |-> q, err |-> err, redelivered |-> FALSE]

Init ==
    /\ ready = [m \in Msg |-> IF m = Message("DecodeMultiple", FALSE) THEN 1 ELSE 0]
    /\ work = [w \in Work |-> 0]
    /\ h = [l \in Listener |-> Idle]
    /\ up = TRUE
    /\ status = Uploaded /\ error = FALSE
    /\ audioReady = FALSE /\ result = FALSE /\ available = FALSE
    /\ partStatus = [p \in Part |-> 0]
    /\ partError = {} /\ running = {}
    /\ related = 0
    /\ upload \in Uploads /\ attempts = 0
    /\ told = {} /\ dropped = {}
    /\ faults = 0

-----------------------------------------------------------------------------
Busy(l) == h[l] # Idle
Lesser(a, b) == IF a < b THEN a ELSE b

Fault(kind) == /\ kind \in Faults
               /\ faults < MaxFaults
               /\ faults' = faults + 1

\* The unsettled messages are back in their queues, marked redelivered.
HeldBy(l) == [q |-> l, err |-> h[l].err, redelivered |-> TRUE]
NotRequeued(m) == FALSE                          \* mutant: auto-ack
Requeued(m) == Busy(m.q) /\ m = HeldBy(m.q)
Requeue == ready' = [m \in Msg |-> IF Requeued(m) THEN ready[m] + 1 ELSE ready[m]]

\* A publish fails and closes the connection; a second one may succeed.
SendOutcome == {"sent", "reconnected", "failed"}
SendOver(out) ==
    \/ out = "sent" /\ UNCHANGED <<up, ready, faults>>
    \/ /\ out # "sent"
       /\ Fault("connection")
       /\ up' = FALSE
       /\ IF up THEN Requeue ELSE UNCHANGED ready

Goto(l, pc) == h' = [h EXCEPT ![l].pc = pc]
Return(l, ok) == h' = [h EXCEPT ![l].pc = "settle", ![l].ok = ok]

\* A call of the database or of the file system succeeds, or it fails and the
\* handler returns the error.
Succeeds == UNCHANGED faults
FailsAndReturns(l) == Fault("io") /\ Return(l, FALSE) /\ UNCHANGED <<parentVars, partVars>>

-----------------------------------------------------------------------------
(***************************************************************************)
(* listenQueue.                                                            *)
(***************************************************************************)
\* Where a handler starts.
EntryStatusFirst(q, err) ==                      \* mutant: no result is saved
    CASE q = "DecodeMultiple"               -> "files"
      [] q \in {"OneStatus", "OneCompleted"} -> "work"
      [] q = "JoinAudio"                    -> "parent"
      [] q = "JoinResults"                  -> IF err THEN "error" ELSE "status"
Entry(q, err) ==
    CASE q = "DecodeMultiple"               -> "files"
      [] q \in {"OneStatus", "OneCompleted"} -> "work"
      [] q = "JoinAudio"                    -> "parent"
      [] q = "JoinResults"                  -> IF err THEN "error" ELSE "result"

\* The status it saves at its end; gotStatus lowers it part by part.
Target(q) == IF q = "OneCompleted" THEN JoinResults ELSE Completed

Take(m) ==
    LET decodes == m.q = "DecodeMultiple" IN
    /\ up
    /\ h[m.q] = Idle
    /\ ready[m] > 0
    /\ Cardinality({l \in Listener : Busy(l)}) < MaxBusy[upload]
    /\ ready' = [ready EXCEPT ![m] = @ - 1]
    /\ attempts' = IF decodes THEN attempts + 1 ELSE attempts
    /\ h' = [h EXCEPT ![m.q] =
                [err |-> m.err, redelivered |-> m.redelivered,
                 pc |-> Entry(m.q, m.err),
                 set |-> IF decodes THEN attempts + 1 ELSE 0,
                 i |-> 1, seen |-> 0, to |-> Target(m.q),
                 bad |-> m.q = "JoinResults" /\ m.err,
                 ok |-> TRUE, again |-> TRUE]]
    /\ UNCHANGED <<work, up, parentVars, upload, partVars, told, dropped, faults>>

DropRedelivered(l) == up /\ h[l].redelivered    \* mutant: no look at the error
MustDrop(l) == up /\ ~h[l].ok /\ (h[l].redelivered \/ ~h[l].again)
NeverRequeue(l) == FALSE                         \* mutant: Ack after an error
MustRequeue(l) == up /\ ~h[l].ok /\ ~h[l].redelivered /\ h[l].again

Settle(l) ==
    /\ h[l].pc = "settle"
    /\ h' = [h EXCEPT ![l] = Idle]
    /\ IF MustRequeue(l) THEN ready' = [ready EXCEPT ![HeldBy(l)] = @ + 1]
                         ELSE UNCHANGED ready
    /\ dropped' = IF MustDrop(l) THEN dropped \cup {l} ELSE dropped
    /\ UNCHANGED <<work, up, parentVars, upload, partVars, attempts, told, faults>>

-----------------------------------------------------------------------------
(***************************************************************************)
(* decode.                                                                 *)
(***************************************************************************)
\* The list of the files and their lengths.
ReadFiles(l) ==
    /\ h[l].pc = "files"
    /\ \/ /\ Succeeds
          /\ IF upload = "uneven"
             THEN h' = [h EXCEPT ![l].pc = "error", ![l].bad = TRUE]
             ELSE Goto(l, "started")
       \/ Fault("io") /\ Return(l, FALSE)
    /\ UNCHANGED <<ready, work, up, parentVars, upload, partVars, attempts, told, dropped>>

InformStarted(l, out) ==
    /\ h[l].pc = "started"
    /\ SendOver(out)
    /\ IF out = "failed" THEN Return(l, FALSE) /\ UNCHANGED told
       ELSE /\ Goto(l, IF upload = "channels" THEN "record" ELSE "joinAudio")
            /\ told' = told \cup {"Started"}
    /\ UNCHANGED <<work, parentVars, upload, partVars, attempts, dropped>>

SendJoinAudio(l, out) ==
    /\ h[l].pc = "joinAudio"
    /\ SendOver(out)
    /\ IF out = "failed" THEN Return(l, FALSE) /\ UNCHANGED work
       ELSE Goto(l, "record") /\ work' = [work EXCEPT !["JoinAudio"] = @ + 1]
    /\ UNCHANGED <<parentVars, upload, partVars, attempts, told, dropped>>

\* A part that cannot be started: in the second delivery the parent fails.
StartFails(l) ==
    IF h[l].redelivered
    THEN h' = [h EXCEPT ![l].pc = "error", ![l].bad = TRUE,
                        ![l].ok = FALSE, ![l].again = FALSE]
    ELSE Return(l, FALSE)

\* startTranscription: the request, the status and the file, of which only
\* the status is read here.
RecordPart(l) ==
    LET p == <<h[l].set, h[l].i>> IN
    /\ h[l].pc = "record"
    /\ \/ Succeeds /\ Goto(l, "send")
       \/ Fault("io") /\ StartFails(l)
    /\ \/ partStatus' = [partStatus EXCEPT ![p] = Uploaded]
       \/ faults' # faults /\ UNCHANGED partStatus
    /\ UNCHANGED <<ready, work, up, parentVars, upload, partError, running, attempts,
                   told, dropped>>

SendPart(l, out) ==
    LET p == <<h[l].set, h[l].i>> IN
    /\ h[l].pc = "send"
    /\ SendOver(out)
    /\ IF out = "failed" THEN StartFails(l) /\ UNCHANGED running
       ELSE /\ running' = running \cup {p}
            /\ IF h[l].i = Files THEN Goto(l, "saveWork")
               ELSE h' = [h EXCEPT ![l].pc = "record", ![l].i = @ + 1]
    /\ UNCHANGED <<work, parentVars, upload, partStatus, partError, attempts, told, dropped>>

SaveWork(l) ==
    /\ h[l].pc = "saveWork"
    /\ \/ /\ Succeeds
          /\ related' = h[l].set
          /\ Return(l, TRUE)
          /\ UNCHANGED <<status, error, audioReady, result, available, partVars>>
       \/ FailsAndReturns(l)
    /\ UNCHANGED <<ready, work, up, upload, attempts, told, dropped>>

-----------------------------------------------------------------------------
(***************************************************************************)
(* gotStatus and completed: read the work record, the parent and the parts *)
(* in turn.  mergedAudio reads the parent only.                            *)
(***************************************************************************)
ReadWork(l) ==
    /\ h[l].pc = "work"
    /\ \/ /\ Succeeds
          /\ IF related = 0 THEN Return(l, FALSE)
             ELSE h' = [h EXCEPT ![l].pc = "parent", ![l].set = related]
       \/ Fault("io") /\ Return(l, FALSE)
    /\ UNCHANGED <<ready, work, up, parentVars, upload, partVars, attempts, told, dropped>>

\* mergedAudio does not get a second delivery after it read the record.
AfterParent(l) ==
    CASE l # "JoinAudio"               -> "part"
      [] l = "JoinAudio" /\ h[l].err   -> "error"
      [] l = "JoinAudio" /\ ~h[l].err  -> "audioReady"

AlreadyFailed == error

ReadParent(l) ==
    /\ h[l].pc = "parent"
    /\ \/ /\ Succeeds
          /\ IF AlreadyFailed THEN Return(l, TRUE)
             ELSE h' = [h EXCEPT ![l].pc = AfterParent(l), ![l].seen = status,
                                 ![l].bad = l = "JoinAudio" /\ h[l].err,
                                 ![l].again = l # "JoinAudio"]
       \/ Fault("io") /\ Return(l, FALSE)
    /\ UNCHANGED <<ready, work, up, parentVars, upload, partVars, attempts, told, dropped>>

\* What is left to do when all parts were read and none has failed: `to' is
\* the least status for gotStatus; completed goes on if all are completed.
SaveAlways(l, least) == TRUE                     \* mutant: does not wait for all
MustSave(l, least) ==
    IF l = "OneStatus" THEN least # h[l].seen /\ least # Completed
                       ELSE least = JoinResults

\* For completed a part that is not completed makes the target 0.
PartSays(l, st) ==
    CASE l = "OneStatus"                        -> Lesser(h[l].to, st)
      [] l = "OneCompleted" /\ st = Completed   -> h[l].to
      [] l = "OneCompleted" /\ st # Completed   -> 0

ReadPart(l) ==
    LET p == <<h[l].set, h[l].i>>
        least == PartSays(l, partStatus[p]) IN
    /\ h[l].pc = "part"
    /\ Succeeds
    /\ CASE p \in partError ->
                h' = [h EXCEPT ![l].pc = "error", ![l].bad = TRUE]
         [] p \notin partError /\ h[l].i < Files ->
                h' = [h EXCEPT ![l].i = @ + 1, ![l].to = least]
         [] p \notin partError /\ h[l].i = Files ->
                h' = [h EXCEPT ![l].to = least,
                               ![l].pc = IF MustSave(l, least) THEN "status"
                                                               ELSE "settle"]
    /\ UNCHANGED <<ready, work, up, parentVars, upload, partVars, attempts, told, dropped>>

\* A failed read of a part: completed returns the error; gotStatus uses the
\* missing record before it looks at the error, and the service panics.
PartReadFails(l) ==
    /\ h[l].pc = "part"
    /\ Fault("io")
    /\ IF l = "OneCompleted"
       THEN Return(l, FALSE) /\ UNCHANGED <<ready, up>>
       ELSE /\ h' = [k \in Listener |-> Idle]
            /\ up' = TRUE
            /\ IF up THEN Requeue ELSE UNCHANGED ready
    /\ UNCHANGED <<work, parentVars, upload, partVars, attempts, told, dropped>>

-----------------------------------------------------------------------------
(***************************************************************************)
(* The writes to the record of the parent, and what is sent.               *)
(***************************************************************************)
\* SaveF of audioReady.  A failure of it is told as a failed transcription.
SaveAudioReady(l) ==
    /\ h[l].pc = "audioReady"
    /\ \/ /\ Succeeds
          /\ audioReady' = TRUE
          /\ Goto(l, "publish")
       \/ /\ Fault("io") /\ UNCHANGED audioReady
          /\ h' = [h EXCEPT ![l].pc = "failed", ![l].ok = FALSE]
    /\ UNCHANGED <<ready, work, up, status, error, result, available, related,
                   partVars, upload, attempts, told, dropped>>

SaveResult(l) ==
    /\ h[l].pc = "result"
    /\ \/ /\ Succeeds
          /\ result' = TRUE
          /\ Goto(l, "available")
          /\ UNCHANGED <<status, error, audioReady, available, related, partVars>>
       \/ FailsAndReturns(l)
    /\ UNCHANGED <<ready, work, up, upload, attempts, told, dropped>>

SaveAvailable(l) ==
    /\ h[l].pc = "available"
    /\ \/ /\ Succeeds
          /\ available' = TRUE
          /\ Goto(l, "status")
          /\ UNCHANGED <<status, error, audioReady, result, related, partVars>>
       \/ FailsAndReturns(l)
    /\ UNCHANGED <<ready, work, up, upload, attempts, told, dropped>>

\* Save replaces the status and unsets the error.
SaveStatus(l) ==
    /\ h[l].pc = "status"
    /\ \/ /\ Succeeds
          /\ status' = h[l].to
          /\ error' = FALSE
          /\ Goto(l, "publish")
       \/ /\ Fault("io") /\ UNCHANGED <<status, error>>
          /\ h' = [h EXCEPT ![l].pc = "failed", ![l].ok = FALSE]
    /\ UNCHANGED <<ready, work, up, audioReady, result, available, related, partVars,
                   upload, attempts, told, dropped>>

SaveError(l) ==
    /\ h[l].pc = "error"
    /\ \/ /\ Succeeds
          /\ error' = TRUE
          /\ Goto(l, "publish")
          /\ UNCHANGED <<status, audioReady, result, available, related, partVars>>
       \/ FailsAndReturns(l)
    /\ UNCHANGED <<ready, work, up, upload, attempts, told, dropped>>

AfterPublishSilent(l) == "settle"                \* mutant: no inform messages
AfterPublish(l) ==
    CASE h[l].bad                              -> "failed"
      [] ~h[l].bad /\ l = "OneCompleted"       -> "join"
      [] ~h[l].bad /\ l = "JoinResults"        -> "finished"
      [] ~h[l].bad /\ l \notin {"OneCompleted", "JoinResults"} -> "settle"

\* publishStatusChange; a failure is only logged.
Publish(l, out) ==
    /\ h[l].pc = "publish"
    /\ SendOver(out)
    /\ Goto(l, AfterPublish(l))
    /\ UNCHANGED <<work, parentVars, upload, partVars, attempts, told, dropped>>

\* sendInformFailure; a failure is only logged.
InformFailed(l, out) ==
    /\ h[l].pc = "failed"
    /\ SendOver(out)
    /\ told' = IF out = "failed" THEN told ELSE told \cup {"Failed"}
    /\ Goto(l, "settle")
    /\ UNCHANGED <<work, parentVars, upload, partVars, attempts, dropped>>

SendJoinResults(l, out) ==
    /\ h[l].pc = "join"
    /\ SendOver(out)
    /\ IF out = "failed" THEN Return(l, FALSE) /\ UNCHANGED work
       ELSE Return(l, TRUE) /\ work' = [work EXCEPT !["JoinResults"] = @ + 1]
    /\ UNCHANGED <<parentVars, upload, partVars, attempts, told, dropped>>

InformFinished(l, out) ==
    /\ h[l].pc = "finished"
    /\ SendOver(out)
    /\ IF out = "failed" THEN Return(l, FALSE) /\ UNCHANGED told
       ELSE Return(l, TRUE) /\ told' = told \cup {"Finished"}
    /\ UNCHANGED <<work, parentVars, upload, partVars, attempts, dropped>>

-----------------------------------------------------------------------------
(***************************************************************************)
(* The workers, and the manager as zoom sees it: the record of a part      *)
(* changes and its messages are sent.  A message that is still to be sent  *)
(* is as good as one that waits.                                           *)
(***************************************************************************)
Worker(w, err) ==
    /\ work[w] > 0
    /\ err => w \in Failing
    /\ ready' = [ready EXCEPT ![Message(w, err)] = @ + 1]
    /\ \/ work' = [work EXCEPT ![w] = @ - 1] /\ UNCHANGED faults
       \/ Fault("repeat") /\ UNCHANGED work
    /\ UNCHANGED <<h, up, parentVars, upload, partVars, attempts, told, dropped>>

Ended(p) == p \in partError \/ partStatus[p] = Completed

PartAdvances(p, st) ==
    /\ p \in running /\ ~Ended(p)
    /\ st \in PartStages[p[2]] /\ st > partStatus[p]
    /\ partStatus' = [partStatus EXCEPT ![p] = st]
    /\ ready' = [ready EXCEPT ![Message("OneStatus", FALSE)] = @ + 1]
    /\ UNCHANGED <<work, h, up, parentVars, upload, partError, running, attempts, told,
                   dropped, faults>>

PartEnds(p, err) ==
    /\ p \in running /\ ~Ended(p)
    /\ err => "Part" \in Failing
    /\ IF err THEN partError' = partError \cup {p} /\ UNCHANGED partStatus
       ELSE partStatus' = [partStatus EXCEPT ![p] = Completed] /\ UNCHANGED partError
    /\ ready' = [ready EXCEPT ![Message("OneStatus", FALSE)] = @ + 1,
                              ![Message("OneCompleted", FALSE)] = @ + 1]
    /\ UNCHANGED <<work, h, up, parentVars, upload, running, attempts, told, dropped, faults>>

-----------------------------------------------------------------------------
\* The service exits after it lost its connection, or is killed.
Restart ==
    /\ \/ ~up /\ UNCHANGED <<ready, faults>>
       \/ up /\ Fault("crash") /\ Requeue
    /\ up' = TRUE
    /\ h' = [l \in Listener |-> Idle]
    /\ UNCHANGED <<work, parentVars, upload, partVars, attempts, told, dropped>>

Handle(l) ==
    \/ ReadFiles(l) \/ RecordPart(l) \/ SaveWork(l)
    \/ ReadWork(l) \/ ReadParent(l) \/ ReadPart(l) \/ PartReadFails(l)
    \/ SaveAudioReady(l) \/ SaveResult(l) \/ SaveAvailable(l)
    \/ SaveStatus(l) \/ SaveError(l)
    \/ Settle(l)
    \/ \E out \in SendOutcome :
        \/ InformStarted(l, out) \/ SendJoinAudio(l, out) \/ SendPart(l, out)
        \/ Publish(l, out) \/ InformFailed(l, out) \/ SendJoinResults(l, out)
        \/ InformFinished(l, out)

PartStep(p) == \/ \E st \in PartStages[p[2]] : PartAdvances(p, st)
               \/ \E err \in BOOLEAN : PartEnds(p, err)

Next ==
    \/ \E m \in Msg : Take(m)
    \/ \E l \in Listener : Handle(l)
    \/ \E w \in Work, err \in BOOLEAN : Worker(w, err)
    \/ \E p \in Part : PartStep(p)
    \/ Restart

Spec == Init /\ [][Next]_vars

(***************************************************************************)
(* Fairness: as in Manager, and the parts end.                             *)
(***************************************************************************)
Fairness ==
    /\ \A l \in Listener :
        /\ WF_vars(\E m \in Msg : m.q = l /\ Take(m))
        /\ WF_vars(Handle(l) /\ UNCHANGED faults)
    /\ \A w \in Work : WF_vars(\E err \in BOOLEAN : Worker(w, err) /\ UNCHANGED faults)
    /\ \A p \in Part : WF_vars(PartStep(p))
    /\ WF_vars(~up /\ Restart)

FairSpec == Spec /\ Fairness

-----------------------------------------------------------------------------
(***************************************************************************)
(* What the service promises.                                              *)
(***************************************************************************)

Parts(a) == {a} \X (1 .. Files)

\* Nothing is left to do for the parent.
Quiet ==
    /\ \A m \in Msg : ready[m] = 0
    /\ \A w \in Work : work[w] = 0
    /\ \A l \in Listener : ~Busy(l)
    /\ \A p \in running : Ended(p)

\* The parts that the work record names were all started, so the parent never
\* waits for one that nobody works on (decode saves the record last).
RelatedAreStarted == related # 0 => Parts(related) \subseteq running

\* The owner hears that the parent is finished, and the record says completed,
\* only with the joined result and the list of its files saved
\* (joinResultsFinish), whatever was repeated before.
ResultBeforeFinished ==
    "Finished" \in told \/ status = Completed => result /\ available

\* The results are joined only when each part is completed, although completed
\* reads the parts one after another while they change.
JoinAfterParts ==
    status = JoinResults \/ work["JoinResults"] > 0 \/ result
        => \E a \in Attempt : \A p \in Parts(a) : partStatus[p] = Completed

\* When all is done the owner was told of the end, whatever was interleaved,
\* and of a failure when the record shows an error.  The exception is a
\* discarded message.
OwnerIsTold ==
    Quiet /\ dropped = {} =>
        /\ told \cap {"Finished", "Failed"} # {}
        /\ error => "Failed" \in told

\* What the records say was done, in whatever order handlers were interrupted,
\* repeated and interleaved: the parts were started and the results saved.
RecordsAreTrue == RelatedAreStarted /\ ResultBeforeFinished

\* A failed part makes the parent fail for good, also when the handlers of
\* other parts, which looked at the records before, save their status last.
PartFailureFails ==
    Quiet /\ dropped = {} /\ related # 0 /\ Parts(related) \cap partError # {}
        => error

\* Without faults a message is discarded only when its handler came twice
\* before decode recorded the parts (gotStatus and completed return an error
\* when there is no work record); no message that was handled is.
OnlyEarlyIsDropped ==
    [][\A l \in dropped' \ dropped :
        l \in {"OneStatus", "OneCompleted"} /\ h[l].set = 0]_vars

\* A transcription that has failed stays so: each handler that changes the
\* status looks whether it "already failed" (gotStatus, completed, mergedAudio).
FailedStaysFailed == [][error => error']_vars

\* A parent of several files has its merged audio, or its owner was told of a
\* failure, or its record shows one.
AudioIsReadyOrFailed ==
    upload = "files" => audioReady \/ error \/ "Failed" \in told

\* The parent ends: nothing is left to do, the audio is there or missed, and the
\* owner knows, or, where a handler was interrupted between the record and the
\* message, the record shows the failure (the handler that comes again finds it
\* "already failed").  The exception is a discarded message.
ParentEnds ==
    <>(\/ dropped # {}
       \/ /\ Quiet /\ AudioIsReadyOrFailed
          /\ told \cap {"Finished", "Failed"} # {} \/ (faults > 0 /\ error))
=============================================================================
