----------------------------- MODULE Integration ----------------------------
(***************************************************************************)
(* The life of a transcription around the manager: the Kafka integration   *)
(* uploads an audio through the upload service, waits for its status,      *)
(* saves its result and has its data cleaned, while the cleaning service's *)
(* timer removes what is old.  The manager is only its end: the status it  *)
(* writes and the result it leaves (module Manager).                       *)
(***************************************************************************)
EXTENDS Naturals, Sequences, FiniteSets, SequencesExt

CONSTANTS
    Id, Name, AudioName, MaxFiles, Patterns, PageSize, Expiring,
    Msg, Input, NoId, Unreadable, LeaveFilesOnError,
    FormOf,         \* the form that the client makes of an audio
    Faults, MaxFaults, None

\* The patterns of the cleaning service find all that a transcription stores.
ASSUME IntegrationAssumption ==
    /\ AudioName \subseteq Name
    /\ PageSize \in Nat \ {0}
    /\ Patterns \in Seq({"audio", "decoded"})
    /\ {"audio", "decoded"} \subseteq Range(Patterns)
    /\ Input \in Seq(Msg \cup {NoId, Unreadable})
    /\ NoId \notin Msg /\ Unreadable \notin Msg
    /\ LeaveFilesOnError \in BOOLEAN
    /\ {MaxFiles, MaxFaults} \subseteq Nat
    /\ "timer" \notin Id /\ "empty" \notin Id
    /\ None \notin Id \cup Nat \cup {"empty", "done", "failed", "Decode", "DecodeMultiple"}

VARIABLES
    upc, form, nfile, written, sent, reply,
    cleaning, job, failed, tpc, skip, list, cleanReply, expired,
    kpc, offset, tr, outcome, filer, db, answers, external,
    requests, store, status, faults,
    late            \* transcriptions that ended after their cleaning had begun

U == INSTANCE Upload
C == INSTANCE Clean
K == INSTANCE Kafka

uploadVars == <<upc, form, nfile, written, sent, reply>>
cleanVars == <<cleaning, job, failed, tpc, skip, list, cleanReply>>
kafkaVars == <<kpc, offset, tr, outcome, filer, db, answers, external>>
shared == <<requests, store, status, faults>>

vars == <<uploadVars, cleanVars, expired, kafkaVars, shared, late>>

Init ==
    /\ U!Init
    /\ C!Init
    /\ K!Init
    /\ requests = <<>>
    /\ store = [id \in Id |-> {}]
    /\ status = [id \in Id |-> None]
    /\ faults = {}
    /\ late = {}

-----------------------------------------------------------------------------
KafkaStep ==
    /\ K!Loop
    /\ UNCHANGED <<uploadVars, cleanVars, expired, requests, store, status, late>>

KafkaCrash ==
    /\ K!KafkaCrash
    /\ UNCHANGED <<uploadVars, cleanVars, expired, requests, store, status, late>>

\* tr.Upload: the post and the handler it starts, with an id never used.
\* Ids are interchangeable: the model draws them in one order.
NewId == CHOOSE id \in Id : upc[id] = "free"

KafkaUpload ==
    /\ \E id \in Id : upc[id] = "free"
    /\ K!Upload(NewId)
    /\ U!Post(NewId, FormOf[K!Current])
    /\ UNCHANGED <<cleanVars, expired, shared, late>>

\* tr.Delete: the DELETE and the handler it starts.
KafkaDelete ==
    /\ K!Delete
    /\ C!Delete(tr)
    /\ UNCHANGED <<uploadVars, expired, shared, late>>

UploadStep(id) ==
    /\ U!Handle(id)
    /\ UNCHANGED <<cleanVars, expired, kafkaVars, late>>

UploadCrash ==
    /\ U!UploadCrash
    /\ UNCHANGED <<cleanVars, expired, kafkaVars, late>>

CleanStep(c) ==
    /\ C!Job(c) \/ C!Cleaned(c)
    /\ UNCHANGED <<uploadVars, kafkaVars, status, late>>

TimerStep ==
    /\ C!Timer
    /\ UNCHANGED <<uploadVars, kafkaVars, status, late>>

CleanCrash ==
    /\ C!CleanCrash
    /\ UNCHANGED <<uploadVars, kafkaVars, status, late>>

\* A record grows old; no upload takes as long as that.
Expire(id) ==
    /\ ~U!Busy(id)
    /\ C!Expire(id)
    /\ UNCHANGED <<uploadVars, kafkaVars, status, late>>

(***************************************************************************)
(* The transcription ends: its status is written, by an upsert, whether    *)
(* its records are there or not, and with it the results of a good one.    *)
(***************************************************************************)
Finish(id) ==
    /\ sent[id] # None
    /\ status[id] = "Uploaded"
    /\ \/ /\ status' = [status EXCEPT ![id] = "Completed"]
          /\ store' = [store EXCEPT ![id] = @ \cup {"status", "result", "decoded"}]
       \/ /\ status' = [status EXCEPT ![id] = "Failed"]
          /\ store' = [store EXCEPT ![id] = @ \cup {"status"}]
    /\ late' = IF id \in Range(requests) /\ \A c \in C!Cleaner : cleaning[c] # id
               THEN late ELSE late \cup {id}
    /\ UNCHANGED <<uploadVars, cleanVars, expired, kafkaVars, requests, faults>>

Next ==
    \/ KafkaStep \/ KafkaCrash \/ KafkaUpload \/ KafkaDelete
    \/ \E id \in Id : UploadStep(id) \/ Expire(id) \/ Finish(id)
    \/ UploadCrash
    \/ \E c \in C!Cleaner : CleanStep(c)
    \/ TimerStep \/ CleanCrash

Spec == Init /\ [][Next]_vars

(***************************************************************************)
(* The loop goes on, and so do the services it calls: their handlers,      *)
(* cleanings and transcriptions are finitely many, so that fairness to any *)
(* of them is fairness to each.                                            *)
(***************************************************************************)
Services ==
    \/ \E id \in Id : UploadStep(id) \/ Finish(id)
    \/ \E c \in C!Cleaner : CleanStep(c)
    \/ TimerStep

FairSpec ==
    /\ Spec
    /\ WF_vars(KafkaStep \/ KafkaUpload \/ KafkaDelete)
    /\ WF_vars(Services)

-----------------------------------------------------------------------------
\* A message of the topic is committed only after an answer to it was
\* written, and an answer without an error only after its result was saved
\* (processMsg, saveSendResults): no crash, failed write or commit loses one.
CommittedIsAnswered ==
    \A k \in DOMAIN Input : Input[k] \in Msg =>
        /\ k <= offset => answers[k] # {}
        /\ "ok" \in answers[k] => db[Input[k]] # None

\* Of one message at most one transcription is started, whatever fails,
\* except where the code cannot know of the first one: the upload's answer
\* is lost, it is not yet in the working file, or the file is already
\* removed when the message comes again.
Blind == {"save", "reply", "uploadcrash", "mark", "crash", "commit"}

StartedOnce ==
    faults \cap Blind = {} =>
        \A a, b \in Id :
            sent[a] # None /\ sent[b] # None /\ external[a] = external[b] => a = b

\* The transcription that the loop waits for was made for the message it
\* works on, and not for an earlier one of the same audio: only a failed
\* status call leaves a working file behind (listenTranscription).
AnswersItsOwn ==
    tr # None /\ "status" \notin faults => external[tr] = K!At

\* A message and its transcription belong together, one to one.
OneForEach == StartedOnce /\ AnswersItsOwn

\* The service never has data cleaned that a working file still points to:
\* after a restart the id in the file can be waited for.
WorkingIsNotCleaned ==
    \A m \in Msg : filer[m] \in Id =>
        cleaning[filer[m]] = None /\ cleanReply[filer[m]] = None

\* A completed transcription is cleaned on the integration's request only
\* when its result is in the file storage, unless the result could not be
\* read or saved for as long as the retries last, or was old and cleaned.
CleanedIsSaved ==
    \A id \in Id \ expired :
        /\ cleaning[id] # None \/ cleanReply[id] # None
        /\ status[id] = "Completed"
        /\ faults \cap {"db", "result"} = {}
        => db[Input[external[id]]] # None

\* The integration asks for the cleaning of what nobody needs any more.
CleanedIsDone == WorkingIsNotCleaned /\ CleanedIsSaved

\* What no DELETE asked for and is not old keeps all its data.
FreshIsKept ==
    [][\A id \in Id :
          \/ store[id] \subseteq store'[id]
          \/ id \in expired
          \/ cleaning[id] # None]_vars

\* No cleaning leaves data behind that no later one can find: without its
\* request record an id is never read again.  Only a failed job, a crash
\* inside a cleaning, or a transcription that ends after its start does.
NothingIsOrphaned ==
    \A id \in Id :
        \/ store[id] = {}
        \/ id \in Range(requests)
        \/ \E c \in C!Cleaner : cleaning[c] = id
        \/ faults \cap {"job", "cleancrash"} # {}
        \/ id \in late

\* Every readable message of the topic is committed at last, unless a crash
\* or an error left an empty working file: Find refuses it for ever.
FirstUnreadable ==
    CHOOSE k \in 1..(Len(Input) + 1) :
        /\ k = Len(Input) + 1 \/ Input[k] = Unreadable
        /\ \A j \in 1..(k - 1) : Input[j] # Unreadable

RefusesForEver ==
    K!Current \in Msg /\ kpc = "exited" /\ filer[K!Current] = K!Empty

EveryMessageIsCommitted ==
    <>(offset = FirstUnreadable - 1 \/ RefusesForEver)
=============================================================================
