------------------------------- MODULE Upload -------------------------------
(***************************************************************************)
(* The upload service: the handler that checks a form, saves the request,  *)
(* the status and the audio files of a new transcription, and sends the    *)
(* message that starts it.  Each handler runs for an id of its own; any of *)
(* its four saves may fail, with or without its effect, and the service    *)
(* may crash between them.                                                 *)
(***************************************************************************)
EXTENDS Naturals, Sequences, FiniteSets

CONSTANTS
    Id,             \* the ids that uuid.New() gives
    Name,           \* file names as they are stored (sanitizeName)
    AudioName,      \* those with a supported extension and without ".."
    MaxFiles,       \* file, file2, ... : the fields the handler looks at
    Faults,         \* the kinds of fault that may happen, each once
    MaxFaults,      \* how many of them in one behaviour
    None

VARIABLES
    upc,            \* where the handler of an id is
    form,           \* the form it was given
    nfile,          \* the files it has saved
    written,        \* what it wrote: <<stored name, part>>
    sent,           \* the queue its message went to
    reply,          \* what its client was answered
    requests,       \* the request collection in the order of _id
    store,          \* the collections and directories an id has data in
    status,         \* the value in its status record
    faults          \* the faults that happened

\* In place of a code: the connection was lost before the answer.
Lost == 0

uploadVars == <<upc, form, nfile, written, sent, reply>>

\* A fault of a kind that has not happened yet, within the budget.
Fault(kind) ==
    /\ kind \in Faults \ faults
    /\ Cardinality(faults) < MaxFaults
    /\ faults' = faults \cup {kind}

-----------------------------------------------------------------------------
(***************************************************************************)
(* A form: whether its parameters are known and clean, whether its e-mail  *)
(* is well formed, what the recognizer map says of its recognizer, whether *)
(* it asks for a speaker per channel, and the names in its file fields,    *)
(* field 1 being "file", field k "file<k>".                                *)
(***************************************************************************)
Fields(f) == DOMAIN f.names

ValidFormFiles(f) == \E n \in 1..MaxFiles : Fields(f) = 1..n

\* takeFiles stops at the first field that is missing.
Taken(f) ==
    {k \in Fields(f) \cap (1..MaxFiles) : 1..k \subseteq Fields(f)}

ValidFiles(f) == \A k \in Taken(f) : f.names[k] \in AudioName

\* The answer to a form that is not accepted, 0 when it is.
Refusal(f) ==
    IF ~(f.params /\ ValidFormFiles(f) /\ f.email) THEN 400
    ELSE IF f.recognizer = "broken" THEN 500
    ELSE IF f.recognizer = "unknown" \/ ~ValidFiles(f)
            \/ (f.separate /\ Cardinality(Taken(f)) > 1) THEN 400
    ELSE 0

-----------------------------------------------------------------------------
Init ==
    /\ upc = [id \in Id |-> "free"]
    /\ form = [id \in Id |-> None]
    /\ nfile = [id \in Id |-> 0]
    /\ written = [id \in Id |-> {}]
    /\ sent = [id \in Id |-> None]
    /\ reply = [id \in Id |-> None]

Busy(id) == upc[id] \notin {"free", "done"}

\* A client posts a form; the id is the one the handler will draw.
Post(id, f) ==
    /\ upc[id] = "free"
    /\ upc' = [upc EXCEPT ![id] = "check"]
    /\ form' = [form EXCEPT ![id] = f]
    /\ UNCHANGED <<nfile, written, sent, reply>>

Answer(id, code) ==
    /\ upc' = [upc EXCEPT ![id] = "done"]
    /\ reply' = [reply EXCEPT ![id] = code]

\* The step was done: the handler goes on, or takes it for failed.
Goes(id, next) ==
    \/ upc' = [upc EXCEPT ![id] = next] /\ UNCHANGED <<reply, faults>>
    \/ Fault("save") /\ Answer(id, 500)

Check(id) ==
    /\ upc[id] = "check"
    /\ IF Refusal(form[id]) = 0
       THEN upc' = [upc EXCEPT ![id] = "request"] /\ UNCHANGED reply
       ELSE Answer(id, Refusal(form[id]))
    /\ UNCHANGED <<form, nfile, written, sent, requests, store, status, faults>>

Stored(id, what) == store' = [store EXCEPT ![id] = @ \cup {what}]

SaveRequest(id) ==
    /\ upc[id] = "request"
    /\ requests' = requests \o <<id>>
    /\ Stored(id, "request")
    /\ Goes(id, "status")
    /\ UNCHANGED <<form, nfile, written, sent, status>>

SaveStatus(id) ==
    /\ upc[id] = "status"
    /\ status' = [status EXCEPT ![id] = "Uploaded"]
    /\ Stored(id, "status")
    /\ Goes(id, "files")
    /\ UNCHANGED <<form, nfile, written, sent, requests>>

\* Mutant of FileName: all files are stored under the id.
FileNameId(id, k) == id

\* A single file is stored under the id, several under their own names; a
\* file that is there already is written over.
FileName(id, k) ==
    IF Cardinality(Taken(form[id])) = 1 THEN id ELSE form[id].names[k]

SaveFile(id) ==
    LET k == nfile[id] + 1
        name == FileName(id, k)
        last == k = Cardinality(Taken(form[id]))
    IN  /\ upc[id] = "files"
        /\ written' = [written EXCEPT ![id] =
               {w \in @ : w[1] # name} \cup {<<name, k>>}]
        /\ nfile' = [nfile EXCEPT ![id] = k]
        /\ Stored(id, "audio")
        /\ Goes(id, IF last THEN "send" ELSE "files")
        /\ UNCHANGED <<form, sent, requests, status>>

Queue(f) == IF Cardinality(Taken(f)) > 1 THEN "DecodeMultiple" ELSE "Decode"

Send(id) ==
    /\ upc[id] = "send"
    /\ sent' = [sent EXCEPT ![id] = Queue(form[id])]
    /\ Goes(id, "reply")
    /\ UNCHANGED <<form, nfile, written, requests, store, status>>

\* A step that fails and leaves nothing.
Fail(id) ==
    /\ upc[id] \in {"request", "status", "files", "send"}
    /\ Fault("save")
    /\ Answer(id, 500)
    /\ UNCHANGED <<form, nfile, written, sent, requests, store, status>>

\* The answer reaches the client, or the connection is lost before it.
Reply(id) ==
    /\ upc[id] = "reply"
    /\ \/ Answer(id, 200) /\ UNCHANGED faults
       \/ Fault("reply") /\ Answer(id, Lost)
    /\ UNCHANGED <<form, nfile, written, sent, requests, store, status>>

\* The service dies: what its handlers saved stays.
UploadCrash ==
    /\ \E id \in Id : Busy(id)
    /\ Fault("uploadcrash")
    /\ upc' = [id \in Id |-> IF Busy(id) THEN "done" ELSE upc[id]]
    /\ reply' = [id \in Id |-> IF Busy(id) THEN Lost ELSE reply[id]]
    /\ UNCHANGED <<form, nfile, written, sent, requests, store, status>>

Handle(id) ==
    \/ Check(id)
    \/ SaveRequest(id)
    \/ SaveStatus(id)
    \/ SaveFile(id)
    \/ Send(id)
    \/ Reply(id)
    \/ Fail(id)
=============================================================================
