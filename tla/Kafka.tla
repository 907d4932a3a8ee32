-------------------------------- MODULE Kafka -------------------------------
(***************************************************************************)
(* The Kafka integration: one loop that takes the messages of a topic in   *)
(* order, has each audio transcribed by the system's HTTP services, saves  *)
(* the result in the file storage, answers on the result topic and commits *)
(* the offset.  A file per message in work remembers the transcription's   *)
(* id, so that a restarted service waits for it instead of uploading again.*)
(* Any error the loop does not answer ends the process; it is restarted    *)
(* and reads again from the committed offset.                              *)
(***************************************************************************)
EXTENDS Naturals, Sequences, FiniteSets

CONSTANTS
    Id,
    Msg,            \* the ids of audios that messages name
    Input,          \* the topic: ids, NoId, or Unreadable ones
    NoId, Unreadable,
    LeaveFilesOnError,
    Faults, MaxFaults, None

VARIABLES
    kpc,            \* where the loop is
    offset,         \* messages committed
    tr,             \* ids.TrID, or the id of the call in progress
    outcome,        \* the result to save, "done" or "failed"
    filer,          \* the working file of an audio: None, Empty or an id
    db,             \* the result in the file storage
    answers,        \* the answers written, by the place in the topic
    external,       \* the place in the topic an upload was made for
    reply, cleanReply, store, status, faults

kafkaVars == <<kpc, offset, tr, outcome, filer, db, answers, external>>

Fault(kind) ==
    /\ kind \in Faults \ faults
    /\ Cardinality(faults) < MaxFaults
    /\ faults' = faults \cup {kind}

Empty == "empty"

At == offset + 1
Current == Input[At]

-----------------------------------------------------------------------------
Init ==
    /\ kpc = "poll"
    /\ offset = 0
    /\ tr = None
    /\ outcome = None
    /\ filer = [m \in Msg |-> None]
    /\ db = [m \in Msg |-> None]
    /\ answers = [k \in DOMAIN Input |-> {}]
    /\ external = [id \in Id |-> 0]

Goto(pc) == kpc' = pc /\ UNCHANGED <<offset, tr, outcome, filer, db, answers, external>>

\* An unanswered error: listenKafka returns and the process ends.
Exit == kpc' = "exited" /\ tr' = None /\ outcome' = None

\* kReader.Get: a message whose JSON cannot be read is an error.
Poll ==
    /\ kpc = "poll"
    /\ At \in DOMAIN Input
    /\ Goto(CASE Current = Unreadable -> "exited"
              [] Current = NoId -> "commit"
              [] OTHER -> "find")
    /\ UNCHANGED faults

\* Mutant of Find: no working file is found.
FindNone ==
    /\ kpc = "find"
    /\ Goto("audio")
    /\ UNCHANGED faults

\* filer.Find: a working file without an id in it is an error.
Find ==
    /\ kpc = "find"
    /\ IF filer[Current] = Empty THEN Goto("exited")
       ELSE /\ tr' = filer[Current]
            /\ kpc' = IF tr' = None THEN "audio" ELSE "listen"
            /\ UNCHANGED <<offset, outcome, filer, db, answers, external>>
    /\ UNCHANGED faults

\* An operation that is retried succeeds, or fails for as long as the
\* retries last.
GetAudio ==
    /\ kpc = "audio"
    /\ \/ Goto("upload") /\ UNCHANGED faults
       \/ Fault("audio") /\ Goto("tell")

(***************************************************************************)
(* Upload posts the audio and waits.  400 is permanent; any other failure  *)
(* is retried, by another upload, until the retries are over.              *)
(***************************************************************************)
Upload(id) ==
    /\ kpc = "upload"
    /\ kpc' = "posted"
    /\ tr' = id
    /\ external' = [external EXCEPT ![id] = At]
    /\ UNCHANGED <<offset, outcome, filer, db, answers>>

CannotStart ==
    /\ tr' = None
    /\ outcome' = "failed"
    /\ kpc' = "save"

Uploaded ==
    /\ kpc = "posted"
    /\ reply[tr] # None
    /\ \/ reply[tr] = 200 /\ kpc' = "create" /\ UNCHANGED <<tr, outcome>>
       \/ reply[tr] \notin {200, 400} /\ kpc' = "upload" /\ tr' = None /\ UNCHANGED outcome
       \/ reply[tr] # 200 /\ CannotStart
    /\ UNCHANGED <<offset, filer, db, answers, external, faults>>

\* filer.SetWorking: the file is created, then the id is written to it.
\* Each of the two may fail.
SetWorking ==
    /\ \/ /\ kpc = "create"
          /\ filer' = [filer EXCEPT ![Current] = Empty]
          /\ kpc' = "mark"
          /\ UNCHANGED <<tr, outcome, faults>>
       \/ /\ kpc = "mark"
          /\ filer' = [filer EXCEPT ![Current] = tr]
          /\ kpc' = "listen"
          /\ UNCHANGED <<tr, outcome, faults>>
       \/ /\ kpc \in {"create", "mark"}
          /\ Fault("mark")
          /\ Exit
          /\ UNCHANGED filer
    /\ UNCHANGED <<offset, db, answers, external>>

\* The status service gives an error code for an id it has no record of.
GetStatus ==
    /\ kpc = "listen"
    /\ \/ /\ "status" \in store[tr]
          /\ status[tr] = "Completed"
          /\ kpc' = "result"
          /\ UNCHANGED <<tr, outcome, faults>>
       \/ /\ "status" \notin store[tr] \/ status[tr] = "Failed"
          /\ outcome' = "failed"
          /\ kpc' = "save"
          /\ UNCHANGED <<tr, faults>>
       \/ /\ Fault("status")     \* answered, and the working file is left
          /\ CannotStart
    /\ UNCHANGED <<offset, filer, db, answers, external>>

GetResult ==
    /\ kpc = "result"
    /\ kpc' = "save"
    /\ \/ "decoded" \in store[tr] /\ outcome' = "done" /\ UNCHANGED faults
       \/ "decoded" \notin store[tr] /\ outcome' = "failed" /\ UNCHANGED faults
       \/ Fault("result") /\ outcome' = "failed"
    /\ UNCHANGED <<offset, tr, filer, db, answers, external>>

\* saveSendResults: what cannot be saved is answered with an error; the
\* storage may have taken it all the same.
SaveResult ==
    /\ kpc = "save"
    /\ \/ /\ db' = [db EXCEPT ![Current] = outcome]
          /\ kpc' = "send"
          /\ UNCHANGED faults
       \/ /\ Fault("db")
          /\ db' \in {db, [db EXCEPT ![Current] = outcome]}
          /\ kpc' = "tell"
    /\ UNCHANGED <<offset, tr, outcome, filer, answers, external>>

Said == IF kpc = "send" THEN "ok" ELSE "error"

\* Mutant of Send: the error of a write is not looked at.
SendUnchecked ==
    /\ kpc \in {"send", "tell"}
    /\ kpc' = IF tr = None THEN "commit" ELSE "unfile"
    /\ \/ answers' = [answers EXCEPT ![At] = @ \cup {Said}] /\ UNCHANGED faults
       \/ Fault("write") /\ UNCHANGED answers
    /\ UNCHANGED <<offset, tr, outcome, filer, db, external>>

\* sendKafkaMsg; with no transcription to put away, the loop commits.
Send ==
    /\ kpc \in {"send", "tell"}
    /\ \/ /\ answers' = [answers EXCEPT ![At] = @ \cup {Said}]
          /\ kpc' = IF tr = None THEN "commit" ELSE "unfile"
          /\ UNCHANGED <<tr, outcome, faults>>
       \/ /\ Fault("write")
          /\ answers' \in {answers, [answers EXCEPT ![At] = @ \cup {Said}]}
          /\ Exit
    /\ UNCHANGED <<offset, filer, db, external>>

KeepsData == outcome = "failed" /\ LeaveFilesOnError

\* Mutant of DeleteFile: its error is not looked at.
DeleteFileUnchecked ==
    /\ kpc = "unfile"
    /\ kpc' = IF KeepsData THEN "commit" ELSE "delete"
    /\ \/ filer' = [filer EXCEPT ![Current] = None] /\ UNCHANGED faults
       \/ Fault("unfile") /\ UNCHANGED filer
    /\ UNCHANGED <<offset, tr, outcome, db, answers, external>>

DeleteFile ==
    /\ kpc = "unfile"
    /\ \/ /\ filer' = [filer EXCEPT ![Current] = None]
          /\ kpc' = IF KeepsData THEN "commit" ELSE "delete"
          /\ UNCHANGED <<tr, outcome, faults>>
       \/ /\ Fault("unfile")
          /\ Exit
          /\ UNCHANGED filer
    /\ UNCHANGED <<offset, db, answers, external>>

\* tr.Delete asks the cleaning service; its failure is only logged.
Delete ==
    /\ kpc = "delete"
    /\ Goto("deleting")

DeleteFails ==
    /\ kpc = "delete"
    /\ Fault("delete")
    /\ Goto("commit")

\* Mutant of Deleted: only a good answer ends the call.
DeletedWell ==
    /\ kpc = "deleting"
    /\ cleanReply[tr] = 200
    /\ Goto("commit")
    /\ UNCHANGED faults

Deleted ==
    /\ kpc = "deleting"
    /\ cleanReply[tr] # None
    /\ Goto("commit")
    /\ UNCHANGED faults

\* The commit fails too when the transcription took longer than the
\* consumer may stay away from Poll.
Commit ==
    /\ kpc = "commit"
    /\ tr' = None
    /\ outcome' = None
    /\ \/ offset' = offset + 1 /\ kpc' = "poll" /\ UNCHANGED faults
       \/ Fault("commit") /\ kpc' = "exited" /\ UNCHANGED offset
    /\ UNCHANGED <<filer, db, answers, external>>

\* A crash with nothing in hand is a restart that changes nothing.
KafkaCrash ==
    /\ tr # None \/ outcome # None
    /\ Fault("crash")
    /\ Exit
    /\ UNCHANGED <<offset, filer, db, answers, external>>

Restart ==
    /\ kpc = "exited"
    /\ Goto("poll")
    /\ UNCHANGED faults

Loop ==
    \/ Poll \/ Find \/ GetAudio \/ Uploaded \/ SetWorking
    \/ GetStatus \/ GetResult \/ SaveResult \/ Send \/ DeleteFile
    \/ DeleteFails \/ Deleted \/ Commit \/ Restart
=============================================================================
