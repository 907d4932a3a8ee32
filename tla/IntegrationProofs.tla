-------------------------- MODULE IntegrationProofs --------------------------
\* Proofs about a transcription's life around the manager: what the Kafka
\* integration answers, commits and has cleaned, and what the cleanings leave. The
\* invariant has a part for each program: UploadInv for the handlers of the upload
\* service, LoopInv for the loop of the integration and its working files, CleanInv
\* and DataInv for the cleanings and what they find, and StartOK for the uploads
\* that were made for the message in work. Each part is kept by every step as long
\* as the parts before it hold.
EXTENDS Integration, PositionLemmas, SequenceTheorems, FiniteSetTheorems

\* Where the handler of an upload is before it has sent the message.
Unsent == {"free", "check", "request", "status", "files", "send"}

\* Types of the upload service.
UploadTypes ==
    /\ upc \in [Id -> Unsent \cup {"reply", "done"}]
    /\ sent \in [Id -> {"Decode", "DecodeMultiple", None}]
    /\ reply \in [Id -> Nat \cup {None}]

\* What the handler of an id has done.
UploadOK(id) ==
    /\ upc[id] # "done" => reply[id] = None
    /\ upc[id] \in Unsent => sent[id] = None
    /\ faults \cap Blind = {} /\ reply[id] \notin {None, 200} => sent[id] = None

\* All that is stored of a transcription.
Anything == {"request", "status", "audio", "result", "decoded"}

\* Types of what the programs share.
DataTypes ==
    /\ requests \in Seq(Id)
    /\ store \in [Id -> SUBSET Anything]
    /\ status \in [Id -> {"Uploaded", "Completed", "Failed", None}]

\* Types of the Kafka integration.
LoopTypes ==
    /\ kpc \in {"poll", "find", "audio", "upload", "posted", "create", "mark", "listen", "result",
                "save", "send", "tell", "unfile", "delete", "deleting", "commit", "exited"}
    /\ offset \in Nat
    /\ tr \in Id \cup {None}
    /\ outcome \in {"done", "failed", None}
    /\ filer \in [Msg -> Id \cup {"empty", None}]
    /\ db \in [Msg -> {"done", "failed", None}]
    /\ answers \in [DOMAIN Input -> SUBSET {"ok", "error"}]
    /\ external \in [Id -> Nat]

\* The loop works on a message.
InWork == kpc \notin {"poll", "exited"}

\* It waits for the transcription, or has not yet put its working file away.
Waiting == {"listen", "result", "save", "send", "tell", "unfile"}

\* What the loop has at each of its places: a message, a transcription that was
\* made for that message and accepted, an answer before it commits.
LoopOK ==
    /\ kpc \in {"poll", "exited", "find", "audio", "upload"} => tr = None
    /\ InWork => K!At \in DOMAIN Input
    /\ InWork /\ kpc # "commit" => K!Current \in Msg
    /\ kpc \in {"posted", "create", "mark", "listen", "result", "unfile", "delete", "deleting"} => tr # None
    /\ kpc = "save" => outcome # None
    /\ kpc \in {"send", "unfile", "delete", "deleting", "commit"} /\ K!Current \in Msg =>
          answers[K!At] # {} \/ kpc = "send"
    /\ kpc = "send" => db[K!Current] # None
    /\ kpc \in {"unfile", "delete", "deleting"} => "db" \in faults \/ db[K!Current] # None
    /\ kpc = "tell" => tr = None \/ "db" \in faults
    /\ tr # None => external[tr] \in DOMAIN Input /\ Input[external[tr]] = K!Current
    /\ kpc \in {"posted", "create", "mark"} => external[tr] = K!At
    /\ tr # None /\ kpc # "posted" => reply[tr] = 200

\* What is committed was answered, and what was answered well is saved.
AnswersOK ==
    \A k \in DOMAIN Input : Input[k] \in Msg =>
        /\ k <= offset => answers[k] # {}
        /\ "ok" \in answers[k] => db[Input[k]] # None

\* Where a working file may be, and what it has.
FileOK(m) ==
    filer[m] \in Id =>
        /\ external[filer[m]] \in DOMAIN Input /\ Input[external[filer[m]]] = m
        /\ reply[filer[m]] = 200
        /\ cleaning[filer[m]] = None /\ cleanReply[filer[m]] = None
        /\ "status" \in faults \/ external[filer[m]] = K!At

\* What the working file of the message in work has at each place of the loop.
WorkFile ==
    /\ kpc \in Waiting /\ tr # None => filer[K!Current] = tr
    /\ kpc \in {"audio", "upload", "posted", "create", "mark"} => filer[K!Current] \notin Id
    /\ kpc \in {"save", "send", "tell"} /\ tr = None =>
           "status" \in faults \/ filer[K!Current] \notin Id
    /\ kpc = "commit" /\ K!Current \in Msg => "status" \in faults \/ filer[K!Current] \notin Id
    /\ kpc \in {"delete", "deleting"} => filer[K!Current] = None

\* The working files, all of them and the one in work.
FilerOK == WorkFile /\ \A m \in Msg : FileOK(m)

\* The integration asked for the cleaning of an id.
Asked(id) == cleaning[id] # None \/ cleanReply[id] # None

\* What it asks for was accepted and is saved, unless the storage failed.
AskedFor(id) ==
    /\ Asked(id) => reply[id] = 200 /\ upc[id] = "done"
    /\ Asked(id) /\ "db" \notin faults => db[Input[external[id]]] # None
    /\ kpc \in {"posted", "create", "mark"} /\ tr = id => ~Asked(id)

\* So for every id.
AskedOK == \A id \in Id : AskedFor(id)

\* Types of the cleaning service.
CleanTypes ==
    /\ cleaning \in [C!Cleaner -> Id \cup {None}]
    /\ job \in [C!Cleaner -> Nat]
    /\ failed \in [C!Cleaner -> Nat]
    /\ skip \in Nat
    /\ list \in Seq(expired)
    /\ cleanReply \in [Id -> Nat \cup {None}]
    /\ expired \subseteq Id

\* A handler cleans its own id, the timer old ones, and what is old was uploaded.
CleanOK ==
    /\ \A id \in Id : cleaning[id] \in {id, None}
    /\ cleaning["timer"] \in expired \cup {None}
    /\ \A id \in expired : upc[id] = "done"

\* What the jobs of a cleaning up to now have removed.
Done(c) == {C!Jobs[k] : k \in 1 .. (job[c] - 1)}

\* What is stored of an id has a request record or a cleaning at work on it, and
\* without a failed job a cleaning leaves nothing of what it has gone through.
DataOK(id) ==
    /\ upc[id] \in {"free", "check", "request"} => store[id] = {} /\ id \notin Range(requests)
    /\ upc[id] \in {"status", "files", "send", "reply"} => id \in Range(requests)
    /\ faults \cap {"job", "cleancrash"} = {} /\ id \notin late =>
          /\ \/ store[id] = {}
             \/ id \in Range(requests)
             \/ \E c \in C!Cleaner : cleaning[c] = id
          /\ \A c \in C!Cleaner : cleaning[c] = id => store[id] \cap Done(c) = {}

\* The loop knows of a transcription that was started for its message.
Tracked(id) ==
    \/ kpc \in {"posted", "create", "mark"} /\ tr = id
    \/ kpc \in {"delete", "deleting", "commit"}
    \/ K!Current \in Msg /\ filer[K!Current] = id

\* Nothing was uploaded for a message that comes later; and if the integration is
\* never blind, only the upload it waits for can still send, every one sent for the
\* message in work is known, and no message has two.
StartOK ==
    /\ \A id \in Id : upc[id] # "free" => external[id] <= K!At
    /\ faults \cap Blind = {} =>
          /\ \A id \in Id : U!Busy(id) => kpc = "posted" /\ tr = id
          /\ \A id \in Id : sent[id] # None /\ external[id] = K!At => Tracked(id)
          /\ StartedOnce

\* The invariant of the upload service.
UploadInv == UploadTypes /\ \A id \in Id : UploadOK(id)

\* That of the stored data.
DataInv == DataTypes /\ \A id \in Id : DataOK(id)

\* That of the cleaning service.
CleanInv == CleanTypes /\ CleanOK

\* That of the Kafka integration.
LoopInv == LoopTypes /\ LoopOK /\ AnswersOK /\ FilerOK /\ AskedOK

\* What the assumption says of None.
LEMMA Nones ==
    /\ None \notin Id /\ None \notin Nat
    /\ None \notin {"empty", "done", "failed", "Decode", "DecodeMultiple"}
    /\ "timer" \notin Id /\ "empty" \notin Id
  BY IntegrationAssumption

\* The codes of a refusal.
LEMMA RefusalIs == ASSUME NEW f PROVE U!Refusal(f) \in {0, 400, 500}
  BY DEF U!Refusal

\* A step of one handler keeps UploadInv when it keeps it for its own id.
LEMMA UploadFrom ==
    ASSUME UploadInv, NEW id \in Id, UploadTypes', UploadOK(id)', faults \subseteq faults',
           \A b \in Id \ {id} : upc'[b] = upc[b] /\ sent'[b] = sent[b] /\ reply'[b] = reply[b]
    PROVE  UploadInv'
  BY DEF UploadInv, UploadOK

\* A step that leaves the handlers keeps it.
LEMMA UploadStays ==
    ASSUME UploadInv, UNCHANGED <<upc, sent, reply>>, faults \subseteq faults'
    PROVE  UploadInv'
  BY DEF UploadInv, UploadTypes, UploadOK

\* A fault is added to those before.
LEMMA FaultGrows == ASSUME NEW kind, U!Fault(kind) \/ C!Fault(kind) \/ K!Fault(kind)
                    PROVE  faults' = faults \cup {kind}
  BY DEF U!Fault, C!Fault, K!Fault

\* How far a step takes the handler of an id.
LEMMA HandleIs ==
    ASSUME UploadInv, DataTypes, NEW id \in Id, U!Handle(id)
    PROVE  /\ faults \subseteq faults'
           /\ UploadTypes' /\ DataTypes'
           /\ \A b \in Id \ {id} : /\ upc'[b] = upc[b] /\ sent'[b] = sent[b]
                                   /\ reply'[b] = reply[b] /\ store'[b] = store[b]
           /\ upc[id] \notin {"free", "done"} /\ upc'[id] # "free"
           /\ upc[id] = "check" => upc'[id] \in {"request", "done"} /\ UNCHANGED <<requests, store>>
           /\ upc[id] = "request" =>
                 \/ upc'[id] \in {"status", "done"} /\ requests' = requests \o <<id>>
                 \/ upc'[id] = "done" /\ UNCHANGED <<requests, store>>
           /\ upc[id] \in {"status", "files", "send", "reply"} =>
                 upc'[id] \in {"files", "send", "reply", "done"} /\ requests' = requests
           /\ sent'[id] # sent[id] => upc[id] = "send" /\ upc'[id] \in {"reply", "done"}
           /\ upc'[id] # "done" => reply'[id] = None
           /\ faults' \cap Blind = {} /\ reply'[id] \notin {None, 200} => sent'[id] = None
           /\ upc'[id] \in Unsent => sent'[id] = None
           /\ store[id] \subseteq store'[id]
<1> USE Nones DEF UploadInv, UploadTypes, UploadOK, DataTypes, Unsent
<1>1. CASE U!Check(id)
  <2>1. U!Refusal(form[id]) \in {0, 400, 500}
    BY RefusalIs
  <2>2. QED
    BY <1>1, <2>1 DEF U!Check, U!Answer
<1>2. CASE U!SaveRequest(id)
  <2>1. requests' = requests \o <<id>> /\ upc[id] = "request" /\ UNCHANGED <<sent, status>>
    BY <1>2 DEF U!SaveRequest
  <2>2. store' = [store EXCEPT ![id] = @ \cup {"request"}]
    BY <1>2 DEF U!SaveRequest, U!Stored
  <2>3. \/ upc' = [upc EXCEPT ![id] = "status"] /\ UNCHANGED <<reply, faults>>
        \/ /\ faults' = faults \cup {"save"} /\ upc' = [upc EXCEPT ![id] = "done"]
           /\ reply' = [reply EXCEPT ![id] = 500]
    BY <1>2, FaultGrows DEF U!SaveRequest, U!Goes, U!Answer
  <2>4. requests' \in Seq(Id)
    BY <2>1
  <2>5. store' \in [Id -> SUBSET Anything]
    BY <2>2 DEF Anything
  <2>6. UploadTypes'
    <3>1. upc' \in [Id -> Unsent \cup {"reply", "done"}]
      BY <2>1, <2>3
    <3>2. sent' \in [Id -> {"Decode", "DecodeMultiple", None}]
      BY <2>1, <2>3
    <3>3. reply' \in [Id -> Nat \cup {None}]
      BY <2>1, <2>3
    <3>4. QED
      BY <3>1, <3>2, <3>3
  <2>7. QED
    BY <2>1, <2>2, <2>3, <2>4, <2>5, <2>6
<1>3. CASE U!SaveStatus(id)
  <2>1. UNCHANGED <<sent, requests>> /\ upc[id] = "status" /\ status' = [status EXCEPT ![id] = "Uploaded"]
    BY <1>3 DEF U!SaveStatus
  <2>2. store' = [store EXCEPT ![id] = @ \cup {"status"}]
    BY <1>3 DEF U!SaveStatus, U!Stored
  <2>3. \/ upc' = [upc EXCEPT ![id] = "files"] /\ UNCHANGED <<reply, faults>>
        \/ /\ faults' = faults \cup {"save"} /\ upc' = [upc EXCEPT ![id] = "done"]
           /\ reply' = [reply EXCEPT ![id] = 500]
    BY <1>3, FaultGrows DEF U!SaveStatus, U!Goes, U!Answer
  <2>4. DataTypes'
    BY <2>1, <2>2 DEF Anything
  <2>5. UploadTypes'
    <3>1. upc' \in [Id -> Unsent \cup {"reply", "done"}]
      BY <2>1, <2>3
    <3>2. sent' \in [Id -> {"Decode", "DecodeMultiple", None}]
      BY <2>1, <2>3
    <3>3. reply' \in [Id -> Nat \cup {None}]
      BY <2>1, <2>3
    <3>4. QED
      BY <3>1, <3>2, <3>3
  <2>6. QED
    BY <2>1, <2>2, <2>3, <2>4, <2>5
<1>4. CASE U!SaveFile(id)
  <2>1. UNCHANGED <<sent, requests, status>> /\ upc[id] = "files"
    BY <1>4 DEF U!SaveFile
  <2>2. store' = [store EXCEPT ![id] = @ \cup {"audio"}]
    BY <1>4 DEF U!SaveFile, U!Stored
  <2>3. \/ /\ \E pc \in {"send", "files"} : upc' = [upc EXCEPT ![id] = pc]
           /\ UNCHANGED <<reply, faults>>
        \/ /\ faults' = faults \cup {"save"} /\ upc' = [upc EXCEPT ![id] = "done"]
           /\ reply' = [reply EXCEPT ![id] = 500]
    BY <1>4, FaultGrows DEF U!SaveFile, U!Goes, U!Answer
  <2>4. DataTypes'
    BY <2>1, <2>2 DEF Anything
  <2>5. UploadTypes'
    <3>1. upc' \in [Id -> Unsent \cup {"reply", "done"}]
      BY <2>1, <2>3
    <3>2. sent' \in [Id -> {"Decode", "DecodeMultiple", None}]
      BY <2>1, <2>3
    <3>3. reply' \in [Id -> Nat \cup {None}]
      BY <2>1, <2>3
    <3>4. QED
      BY <3>1, <3>2, <3>3
  <2>6. QED
    BY <2>1, <2>2, <2>3, <2>4, <2>5
<1>5. CASE U!Send(id)
  <2>1. UNCHANGED <<requests, store, status>> /\ upc[id] = "send"
    BY <1>5 DEF U!Send
  <2>2. \E q \in {"Decode", "DecodeMultiple"} : sent' = [sent EXCEPT ![id] = q]
    BY <1>5 DEF U!Send, U!Queue
  <2>3. \/ upc' = [upc EXCEPT ![id] = "reply"] /\ UNCHANGED <<reply, faults>>
        \/ /\ faults' = faults \cup {"save"} /\ upc' = [upc EXCEPT ![id] = "done"]
           /\ reply' = [reply EXCEPT ![id] = 500]
    BY <1>5, FaultGrows DEF U!Send, U!Goes, U!Answer
  <2>4. UploadTypes'
    <3>1. upc' \in [Id -> Unsent \cup {"reply", "done"}]
      BY <2>2, <2>3
    <3>2. sent' \in [Id -> {"Decode", "DecodeMultiple", None}]
      BY <2>2, <2>3
    <3>3. reply' \in [Id -> Nat \cup {None}]
      BY <2>2, <2>3
    <3>4. QED
      BY <3>1, <3>2, <3>3
  <2>5. \A b \in Id \ {id} : upc'[b] = upc[b] /\ sent'[b] = sent[b] /\ reply'[b] = reply[b]
    BY <2>2, <2>3
  <2>6. \/ upc'[id] = "reply" /\ reply'[id] = None /\ UNCHANGED faults
        \/ upc'[id] = "done" /\ "save" \in faults' /\ faults \subseteq faults'
    BY <2>1, <2>3
  <2>7. QED
    BY <2>1, <2>4, <2>5, <2>6 DEF Blind
<1>6. CASE U!Reply(id)
  <2>1. UNCHANGED <<sent, requests, store, status>> /\ upc[id] = "reply"
    BY <1>6 DEF U!Reply
  <2>2. /\ upc' = [upc EXCEPT ![id] = "done"]
        /\ \/ reply' = [reply EXCEPT ![id] = 200] /\ UNCHANGED faults
           \/ reply' = [reply EXCEPT ![id] = 0] /\ faults' = faults \cup {"reply"}
    BY <1>6, FaultGrows DEF U!Reply, U!Answer, U!Lost
  <2>3. UploadTypes'
    <3>1. upc' \in [Id -> Unsent \cup {"reply", "done"}]
      BY <2>1, <2>2
    <3>2. sent' \in [Id -> {"Decode", "DecodeMultiple", None}]
      BY <2>1, <2>2
    <3>3. reply' \in [Id -> Nat \cup {None}]
      BY <2>1, <2>2
    <3>4. QED
      BY <3>1, <3>2, <3>3
  <2>4. \A b \in Id \ {id} : upc'[b] = upc[b] /\ reply'[b] = reply[b]
    BY <2>2
  <2>5. /\ upc'[id] = "done" /\ faults \subseteq faults'
        /\ reply'[id] = 200 \/ "reply" \in faults'
    BY <2>2
  <2>6. QED
    BY <2>1, <2>3, <2>4, <2>5 DEF Blind
<1>7. CASE U!Fail(id)
  <2>1. /\ UNCHANGED <<sent, requests, store, status>> /\ upc[id] \in {"request", "status", "files", "send"}
        /\ faults' = faults \cup {"save"} /\ upc' = [upc EXCEPT ![id] = "done"]
        /\ reply' = [reply EXCEPT ![id] = 500]
    BY <1>7, FaultGrows DEF U!Fail, U!Answer
  <2>2. UploadTypes'
    <3>1. upc' \in [Id -> Unsent \cup {"reply", "done"}]
      BY <2>1
    <3>2. sent' \in [Id -> {"Decode", "DecodeMultiple", None}]
      BY <2>1
    <3>3. reply' \in [Id -> Nat \cup {None}]
      BY <2>1
    <3>4. QED
      BY <3>1, <3>2, <3>3
  <2>3. QED
    BY <2>1, <2>2 DEF Blind
<1>8. QED
  BY <1>1, <1>2, <1>3, <1>4, <1>5, <1>6, <1>7 DEF U!Handle

\* What a crash of the upload service does.
LEMMA UploadCrashIs ==
    ASSUME UploadInv, U!UploadCrash
    PROVE  /\ UploadTypes' /\ UNCHANGED <<sent, requests, store, status>>
           /\ faults' = faults \cup {"uploadcrash"}
           /\ \A id \in Id : /\ upc'[id] = IF upc[id] \in {"free", "done"} THEN upc[id] ELSE "done"
                             /\ upc[id] \in {"free", "done"} => reply'[id] = reply[id]
<1> USE DEF UploadInv, UploadTypes, UploadOK
<1>1. /\ UNCHANGED <<sent, requests, store, status>> /\ faults' = faults \cup {"uploadcrash"}
      /\ upc' = [id \in Id |-> IF U!Busy(id) THEN "done" ELSE upc[id]]
      /\ reply' = [id \in Id |-> IF U!Busy(id) THEN 0 ELSE reply[id]]
  BY FaultGrows DEF U!UploadCrash, U!Lost
<1>2. UploadTypes'
  <2>1. upc' \in [Id -> Unsent \cup {"reply", "done"}]
    BY <1>1
  <2>2. reply' \in [Id -> Nat \cup {None}]
    BY <1>1
  <2>3. QED
    BY <1>1, <2>1, <2>2
<1>3. QED
  BY <1>1, <1>2 DEF U!Busy

\* The loop takes no fault back.
LEMMA KafkaFaults ==
    ASSUME K!Loop \/ K!KafkaCrash
    PROVE  faults \subseteq faults' /\ (faults' # faults => \E kind : faults' = faults \cup {kind})
  BY FaultGrows DEF K!Loop, K!KafkaCrash, K!Poll, K!Find, K!GetAudio, K!Uploaded, K!SetWorking,
     K!GetStatus, K!GetResult, K!SaveResult, K!Send, K!DeleteFile, K!DeleteFails, K!Deleted,
     K!Commit, K!Restart

\* Nor does the cleaning service.
LEMMA CleanFaults ==
    ASSUME \/ \E c \in C!Cleaner : C!Job(c) \/ C!Cleaned(c)
           \/ C!Timer \/ C!CleanCrash \/ \E id \in Id : C!Expire(id)
    PROVE  faults \subseteq faults'
  BY FaultGrows DEF C!Job, C!Cleaned, C!Timer, C!CleanCrash, C!Expire, C!Tick, C!ReadPage,
     C!QueryFails, C!CleanNext

\* Every step keeps UploadInv.
LEMMA UploadGoesOn == UploadInv /\ DataTypes /\ [Next]_vars => UploadInv'
<1> SUFFICES ASSUME UploadInv, DataTypes, [Next]_vars PROVE UploadInv'
  OBVIOUS
<1>1. ASSUME NEW id \in Id, UploadStep(id) PROVE UploadInv'
  <2>1. U!Handle(id)
    BY <1>1 DEF UploadStep
  <2>2. UploadOK(id)'
    BY <2>1, HandleIs DEF UploadOK
  <2>3. QED
    BY <2>1, <2>2, HandleIs, UploadFrom
<1>2. CASE UploadCrash
  <2>1. U!UploadCrash
    BY <1>2 DEF UploadCrash
  <2>2. "uploadcrash" \in faults' /\ faults \subseteq faults'
    BY <2>1, UploadCrashIs
  <2>3. ASSUME NEW id \in Id PROVE UploadOK(id)'
    <3>1. upc'[id] \in Unsent => upc'[id] = upc[id]
      BY <2>1, UploadCrashIs DEF Unsent
    <3>2. upc'[id] # "done" => upc[id] = "free" /\ reply'[id] = reply[id]
      BY <2>1, UploadCrashIs
    <3>3. sent' = sent
      BY <2>1, UploadCrashIs
    <3>4. QED
      BY <2>2, <3>1, <3>2, <3>3 DEF UploadInv, UploadOK, Blind
  <2>4. QED
    BY <2>1, <2>3, UploadCrashIs DEF UploadInv
<1>3. CASE KafkaUpload
  <2>1. PICK id \in Id : id = NewId /\ upc[id] = "free"
    BY <1>3 DEF KafkaUpload, NewId
  <2>2. upc' = [upc EXCEPT ![id] = "check"] /\ UNCHANGED <<sent, reply, faults>>
    BY <1>3, <2>1 DEF KafkaUpload, U!Post, shared
  <2>3. UploadTypes'
    BY <2>1, <2>2 DEF UploadInv, UploadTypes, Unsent
  <2>4. UploadOK(id)'
    BY <2>1, <2>2 DEF UploadInv, UploadTypes, UploadOK, Unsent
  <2>5. QED
    BY <2>1, <2>2, <2>3, <2>4, UploadFrom DEF UploadInv, UploadTypes
<1>4. CASE KafkaStep \/ KafkaCrash \/ KafkaDelete
  <2>1. UNCHANGED <<upc, sent, reply>>
    BY <1>4 DEF KafkaStep, KafkaCrash, KafkaDelete, uploadVars
  <2>2. faults \subseteq faults'
    BY <1>4, KafkaFaults DEF KafkaStep, KafkaCrash, KafkaDelete, shared
  <2>3. QED
    BY <2>1, <2>2, UploadStays
<1>5. CASE (\E c \in C!Cleaner : CleanStep(c)) \/ TimerStep \/ CleanCrash \/ \E id \in Id : Expire(id)
  <2>1. UNCHANGED <<upc, sent, reply>>
    BY <1>5 DEF CleanStep, TimerStep, CleanCrash, Expire, uploadVars
  <2>2. faults \subseteq faults'
    BY <1>5, CleanFaults DEF CleanStep, TimerStep, CleanCrash, Expire
  <2>3. QED
    BY <2>1, <2>2, UploadStays
<1>6. CASE (\E id \in Id : Finish(id)) \/ UNCHANGED vars
  <2>1. UNCHANGED <<upc, sent, reply, faults>>
    BY <1>6 DEF Finish, uploadVars, vars, shared
  <2>2. QED
    BY <2>1, UploadStays
<1>7. QED
  BY <1>1, <1>2, <1>3, <1>4, <1>5, <1>6 DEF Next
-----------------------------------------------------------------------------
\* RemoveFirst takes away nothing but the element it is given.
LEMMA FirstRemoved ==
    ASSUME NEW s \in Seq(Id), NEW e
    PROVE  /\ C!RemoveFirst(s, e) \in Seq(Id)
           /\ \A x \in Range(s) \ {e} : x \in Range(C!RemoveFirst(s, e))
           /\ Range(C!RemoveFirst(s, e)) \subseteq Range(s)
<1>1. CASE ~ \E k \in 1 .. Len(s) : s[k] = e
  BY <1>1 DEF C!RemoveFirst
<1>2. CASE \E k \in 1 .. Len(s) : s[k] = e
  <2>1. PICK k : k = C!SelectInSeq(s, LAMBDA v : v = e)
    OBVIOUS
  <2>2. C!RemoveFirst(s, e) = C!RemoveAt(s, k)
    BY <1>2, <2>1 DEF C!RemoveFirst
  <2>3. k \in 1 .. Len(s) /\ s[k] = e
    <3> DEFINE I == {i \in 1 .. Len(s) : s[i] = e}
    <3>1. I # {} /\ I \subseteq Nat
      BY <1>2
    <3>2. k = C!Min(I)
      BY <2>1, <3>1 DEF C!SelectInSeq
    <3> HIDE DEF I
    <3>3. k \in I
      BY <3>1, <3>2, LeastOf DEF C!Min
    <3>4. QED
      BY <3>3 DEF I
  <2> DEFINE a == SubSeq(s, 1, k - 1)
             b == SubSeq(s, k + 1, Len(s))
  <2>4. a \in Seq(Id) /\ Len(a) = k - 1 /\ \A i \in 1 .. (k - 1) : a[i] = s[i]
    BY <2>3
  <2>5. b \in Seq(Id) /\ Len(b) = Len(s) - k /\ \A i \in 1 .. (Len(s) - k) : b[i] = s[k + i]
    BY <2>3
  <2>6. C!RemoveFirst(s, e) = a \o b
    BY <2>2 DEF C!RemoveAt
  <2> HIDE DEF a, b
  <2>7. Range(a \o b) = Range(a) \cup Range(b)
    BY <2>4, <2>5, RangeConcatenation
  <2>8. /\ Range(a) = {a[i] : i \in 1 .. Len(a)} /\ Range(b) = {b[i] : i \in 1 .. Len(b)}
        /\ Range(s) = {s[i] : i \in 1 .. Len(s)}
    BY <2>4, <2>5, RangeEquality
  <2>9. \A x \in Range(s) \ {e} : x \in Range(a) \cup Range(b)
    <3> SUFFICES ASSUME NEW i \in 1 .. Len(s), s[i] # e PROVE s[i] \in Range(a) \cup Range(b)
      BY <2>8
    <3>1. CASE i < k
      BY <2>3, <2>4, <2>8, <3>1
    <3>2. CASE i > k
      <4>1. i - k \in 1 .. Len(b) /\ b[i - k] = s[i]
        BY <2>3, <2>5, <3>2
      <4>2. QED
        BY <2>8, <4>1
    <3>3. QED
      BY <2>3, <3>1, <3>2
  <2>10. Range(a) \cup Range(b) \subseteq Range(s)
    <3>1. \A i \in 1 .. Len(a) : a[i] \in Range(s)
      BY <2>3, <2>4, <2>8
    <3>2. \A i \in 1 .. Len(b) : k + i \in 1 .. Len(s) /\ b[i] = s[k + i]
      BY <2>3, <2>5
    <3>3. QED
      BY <2>8, <3>1, <3>2
  <2>11. QED
    BY <2>4, <2>5, <2>6, <2>7, <2>9, <2>10
<1>3. QED
  BY <1>1, <1>2

\* What an erasing does to the records.
LEMMA EraseIs ==
    ASSUME DataTypes, NEW id \in Id, NEW what, C!Erase(id, what)
    PROVE  /\ requests' \in Seq(Id) /\ store' \in [Id -> SUBSET Anything]
           /\ store'[id] = store[id] \ {what}
           /\ \A b \in Id \ {id} : store'[b] = store[b]
           /\ \A x \in Range(requests) \ {id} : x \in Range(requests')
           /\ Range(requests') \subseteq Range(requests)
<1>1. store' = [store EXCEPT ![id] = @ \ {what}]
  BY DEF C!Erase
<1>2. requests' = IF what = "request" THEN C!RemoveFirst(requests, id) ELSE requests
  BY DEF C!Erase
<1>3. requests' \in Seq(Id) /\ (\A x \in Range(requests) \ {id} : x \in Range(requests'))
      /\ Range(requests') \subseteq Range(requests)
  BY <1>2, FirstRemoved DEF DataTypes
<1>4. QED
  BY <1>1, <1>3 DEF DataTypes

\* The elements of the second of two sequences in their concatenation.
LEMMA SecondPart ==
    ASSUME NEW S, NEW p \in Seq(S), NEW q \in Seq(S)
    PROVE  \A k \in 1 .. Len(q) : /\ Len(p) + k \in 1 .. Len(p \o q)
                                  /\ (p \o q)[Len(p) + k] = q[k]
<1> SUFFICES ASSUME NEW k \in 1 .. Len(q)
             PROVE  Len(p) + k \in 1 .. Len(p \o q) /\ (p \o q)[Len(p) + k] = q[k]
  OBVIOUS
<1>1. /\ Len(p \o q) = Len(p) + Len(q) /\ Len(p) \in Nat /\ Len(q) \in Nat
      /\ \A i \in 1 .. Len(p) + Len(q) : (p \o q)[i] = IF i <= Len(p) THEN p[i] ELSE q[i - Len(p)]
  BY ConcatProperties
<1>2. Len(p) + k \in 1 .. Len(p) + Len(q) /\ ~(Len(p) + k <= Len(p)) /\ (Len(p) + k) - Len(p) = k
  BY <1>1
<1>3. QED
  BY <1>1, <1>2

\* What the jobs remove.
Kind == Anything \cup {"emailLock", "work"}

\* The jobs remove all that is stored.
LEMMA JobsAre ==
    /\ C!Jobs \in Seq(Kind)
    /\ \A x \in Anything : \E k \in 1 .. Len(C!Jobs) : C!Jobs[k] = x
<1> DEFINE q == <<"status", "result", "emailLock", "request", "work">>
<1>1. Patterns \in Seq(Kind) /\ q \in Seq(Kind)
  <2>1. Patterns \in Seq({"audio", "decoded"}) /\ {"audio", "decoded"} \subseteq Kind
    BY IntegrationAssumption DEF Kind, Anything
  <2>2. Patterns \in Seq(Kind)
    BY <2>1, SeqMonotonic
  <2>3. q \in Seq(Kind)
    BY DEF Kind, Anything
  <2>4. QED
    BY <2>2, <2>3
<1>2. Len(q) = 5 /\ q[1] = "status" /\ q[2] = "result" /\ q[4] = "request"
  OBVIOUS
<1>3. C!Jobs = Patterns \o q
  BY DEF C!Jobs
<1> HIDE DEF q
<1>4. \A k \in 1 .. 5 : /\ Len(Patterns) + k \in 1 .. Len(C!Jobs)
                        /\ C!Jobs[Len(Patterns) + k] = q[k]
  <2>1. \A k \in 1 .. Len(q) : /\ Len(Patterns) + k \in 1 .. Len(Patterns \o q)
                                /\ (Patterns \o q)[Len(Patterns) + k] = q[k]
    BY <1>1, SecondPart
  <2>2. QED
    BY <1>2, <1>3, <2>1
<1>5. \A x \in {"status", "result", "request"} : \E k \in 1 .. Len(C!Jobs) : C!Jobs[k] = x
  BY <1>2, <1>4
<1>6. \A k \in 1 .. Len(Patterns) : k \in 1 .. Len(C!Jobs) /\ C!Jobs[k] = Patterns[k]
  BY <1>1, <1>2, <1>3
<1>7. \A x \in {"audio", "decoded"} : \E k \in 1 .. Len(Patterns) : Patterns[k] = x
  <2>1. Range(Patterns) = {Patterns[k] : k \in 1 .. Len(Patterns)}
    BY <1>1, RangeEquality
  <2>2. QED
    BY <2>1, IntegrationAssumption
<1>8. QED
  BY <1>1, <1>3, <1>5, <1>6, <1>7 DEF Anything

\* What a page adds to the list is old.
LEMMA OldIs == ASSUME DataTypes, CleanTypes PROVE C!Old \in Seq(expired)
<1> DEFINE n == C!Min({skip + PageSize, Len(requests)})
           p == C!Page
           I == {i \in 1 .. Len(p) : p[i] \notin expired}
<1>1. n \in Nat /\ n <= Len(requests) /\ requests \in Seq(Id) /\ skip \in Nat
  <2>1. {skip + PageSize, Len(requests)} \subseteq Nat /\ requests \in Seq(Id) /\ skip \in Nat
    BY IntegrationAssumption DEF DataTypes, CleanTypes
  <2>2. \E x \in {skip + PageSize, Len(requests)} : \A y \in {skip + PageSize, Len(requests)} : x <= y
    BY <2>1, LeastOf
  <2>3. n \in {skip + PageSize, Len(requests)} /\ n <= Len(requests)
    BY <2>2 DEF C!Min
  <2>4. QED
    BY <2>1, <2>3
<1>2. p \in Seq(Id)
  <2>1. p = SubSeq(requests, skip + 1, n)
    BY DEF C!Page
  <2> HIDE DEF n, p
  <2>2. \A i \in (skip + 1) .. n : requests[i] \in Id
    BY <1>1
  <2>3. QED
    BY <1>1, <2>1, <2>2, SubSeqProperties
<1>3. C!FirstFresh = IF I # {} THEN C!Min(I) ELSE 0
  BY DEF C!FirstFresh, C!SelectInSeq
<1>4. C!Old = IF C!FirstFresh = 0 THEN p ELSE SubSeq(p, 1, C!FirstFresh - 1)
  BY DEF C!Old
<1> HIDE DEF n, p
<1>5. CASE I = {}
  <2>1. C!Old = p
    BY <1>3, <1>4, <1>5
  <2>2. \A i \in 1 .. Len(p) : p[i] \in expired
    BY <1>5
  <2>3. QED
    BY <1>2, <2>1, <2>2
<1>6. CASE I # {}
  <2>1. I \subseteq Nat
    OBVIOUS
  <2> DEFINE f == C!Min(I)
  <2>2. f \in I /\ \A y \in I : f <= y
    <3> HIDE DEF I
    <3>1. \E x \in I : \A y \in I : x <= y
      BY <1>6, <2>1, LeastOf
    <3>2. QED
      BY <3>1 DEF C!Min
  <2>3. C!FirstFresh = f /\ f # 0
    BY <1>3, <1>6, <2>2
  <2> HIDE DEF f
  <2>4. f \in 1 .. Len(p) /\ \A i \in 1 .. (f - 1) : p[i] \in expired
    <3>1. f \in 1 .. Len(p) /\ Len(p) \in Nat
      BY <1>2, <2>2
    <3>2. ASSUME NEW i \in 1 .. (f - 1) PROVE p[i] \in expired
      <4>1. i \in 1 .. Len(p) /\ ~(f <= i)
        BY <3>1, <3>2
      <4>2. QED
        BY <2>2, <4>1
    <3>3. QED
      BY <3>1, <3>2
  <2>5. C!Old = SubSeq(p, 1, f - 1)
    BY <1>4, <2>3
  <2>6. QED
    BY <2>4, <2>5, SubSeqProperties
<1>7. QED
  BY <1>5, <1>6

\* A step that leaves the cleanings keeps CleanInv.
LEMMA CleanStays ==
    ASSUME CleanInv, UNCHANGED <<cleaning, job, failed, skip, list, cleanReply, expired>>,
           \A id \in Id : upc[id] = "done" => upc'[id] = "done"
    PROVE  CleanInv'
  BY DEF CleanInv, CleanTypes, CleanOK

\* The DELETE of the id that the loop has done with.
LEMMA KafkaDeleteIs ==
    ASSUME LoopInv, CleanInv, KafkaDelete
    PROVE  /\ tr \in Id /\ kpc = "delete" /\ kpc' = "deleting" /\ cleaning[tr] = None
           /\ UNCHANGED <<offset, tr, outcome, filer, db, answers, external, upc, form, nfile,
                          written, sent, reply, expired, requests, store, status, faults, late,
                          tpc, skip, list>>
           /\ cleaning' = [cleaning EXCEPT ![tr] = tr] /\ job' = [job EXCEPT ![tr] = 1]
           /\ failed' = [failed EXCEPT ![tr] = 0] /\ cleanReply' = [cleanReply EXCEPT ![tr] = None]
<1>1. kpc = "delete" /\ kpc' = "deleting"
      /\ UNCHANGED <<offset, tr, outcome, filer, db, answers, external>>
  BY DEF KafkaDelete, K!Delete, K!Goto
<1>2. tr \in Id
  BY <1>1 DEF LoopInv, LoopOK, LoopTypes
<1>3. QED
  BY <1>1, <1>2 DEF KafkaDelete, C!Delete, C!Begin, uploadVars, shared

\* The end of a cleaning answers the handler it ran for, and nobody else.
LEMMA CleanedReply ==
    ASSUME CleanInv, NEW c \in C!Cleaner, C!Cleaned(c)
    PROVE  /\ cleanReply' \in [Id -> Nat \cup {None}]
           /\ \A b \in Id \ {c} : cleanReply'[b] = cleanReply[b]
<1> DEFINE code == IF failed[c] = Len(C!Jobs) THEN 500 ELSE 200
<1>1. cleanReply' = IF c = "timer" THEN cleanReply ELSE [cleanReply EXCEPT ![c] = code]
  BY DEF C!Cleaned
<1>2. code \in Nat
  OBVIOUS
<1>3. cleanReply \in [Id -> Nat \cup {None}]
  BY DEF CleanInv, CleanTypes
<1> HIDE DEF code
<1>4. CASE c = "timer"
  BY <1>1, <1>3, <1>4
<1>5. CASE c # "timer"
  <2>1. cleanReply' = [cleanReply EXCEPT ![c] = code] /\ c \in Id
    BY <1>1, <1>5 DEF C!Cleaner
  <2>2. QED
    BY <2>1, <1>2, <1>3
<1>6. QED
  BY <1>4, <1>5

\* So do the steps of a cleaning.
LEMMA CleanStepKeeps ==
    ASSUME DataTypes, CleanInv, UNCHANGED upc, NEW c \in C!Cleaner, C!Job(c) \/ C!Cleaned(c)
    PROVE  CleanInv'
<1>1. CASE C!Job(c)
  <2>1. /\ UNCHANGED <<cleaning, skip, list, cleanReply, expired, upc>>
        /\ job' = [job EXCEPT ![c] = @ + 1]
        /\ \/ UNCHANGED failed
           \/ failed' = [failed EXCEPT ![c] = @ + 1]
    BY <1>1 DEF C!Job
  <2>2. failed \in [C!Cleaner -> Nat] /\ job \in [C!Cleaner -> Nat]
    BY DEF CleanInv, CleanTypes
  <2>3. failed' \in [C!Cleaner -> Nat] /\ job' \in [C!Cleaner -> Nat]
    <3>1. failed[c] + 1 \in Nat /\ job[c] + 1 \in Nat
      BY <2>2
    <3>2. job' \in [C!Cleaner -> Nat]
      BY <2>1, <2>2, <3>1
    <3>3. failed' \in [C!Cleaner -> Nat]
      BY <2>1, <2>2, <3>1
    <3>4. QED
      BY <3>2, <3>3
  <2>4. CleanTypes'
    BY <2>1, <2>3 DEF CleanInv, CleanTypes
  <2>5. QED
    BY <2>1, <2>4 DEF CleanInv, CleanOK
<1>2. CASE C!Cleaned(c)
  <2>1. /\ UNCHANGED <<skip, list, expired, upc>>
        /\ cleaning' = [cleaning EXCEPT ![c] = None]
        /\ job' = [job EXCEPT ![c] = 1] /\ failed' = [failed EXCEPT ![c] = 0]
    BY <1>2 DEF C!Cleaned
  <2>2. cleanReply' \in [Id -> Nat \cup {None}]
    BY <1>2, CleanedReply
  <2>3. CleanTypes'
    BY <2>1, <2>2 DEF CleanInv, CleanTypes, C!Cleaner
  <2>4. QED
    BY <2>1, <2>3 DEF CleanInv, CleanTypes, CleanOK, C!Cleaner
<1>3. QED
  BY <1>1, <1>2

\* So do the steps of the timer.
LEMMA TimerKeeps ==
    ASSUME DataTypes, CleanInv, UNCHANGED upc, C!Timer
    PROVE  CleanInv'
<1> USE DEF CleanInv, CleanTypes, CleanOK
<1>1. CASE C!Tick
  <2>1. UNCHANGED <<cleaning, job, failed, cleanReply, expired>> /\ skip' = 0 /\ list' = <<>>
    BY <1>1 DEF C!Tick
  <2>2. QED
    BY <2>1
<1>2. CASE C!ReadPage
  <2>1. UNCHANGED <<cleaning, job, failed, cleanReply, expired>> /\ list' = list \o C!Old
    BY <1>2 DEF C!ReadPage
  <2>2. skip' = 0 \/ skip' = skip + PageSize
    BY <1>2 DEF C!ReadPage
  <2>3. skip' \in Nat
    BY <2>2, IntegrationAssumption
  <2>4. list' \in Seq(expired)
    BY <2>1, OldIs, ConcatProperties
  <2>5. QED
    BY <2>1, <2>3, <2>4
<1>3. CASE C!QueryFails
  <2>1. UNCHANGED <<cleaning, job, failed, cleanReply, expired>> /\ skip' = 0 /\ list' = <<>>
    BY <1>3 DEF C!QueryFails
  <2>2. QED
    BY <2>1
<1>4. CASE C!CleanNext
  <2>1. UNCHANGED <<skip, cleanReply, expired>>
    BY <1>4 DEF C!CleanNext
  <2>2. CASE list = <<>>
    BY <1>4, <2>1, <2>2 DEF C!CleanNext
  <2>3. CASE list # <<>>
    <3>1. /\ cleaning' = [cleaning EXCEPT !["timer"] = Head(list)]
          /\ job' = [job EXCEPT !["timer"] = 1] /\ failed' = [failed EXCEPT !["timer"] = 0]
          /\ list' = Tail(list)
      BY <1>4, <2>3 DEF C!CleanNext, C!Begin
    <3>2. Head(list) \in expired /\ Tail(list) \in Seq(expired)
      BY <2>3, HeadTailProperties
    <3>3. CleanTypes'
      BY <2>1, <3>1, <3>2 DEF C!Cleaner
    <3>4. QED
      BY <2>1, <3>1, <3>2, <3>3, Nones DEF C!Cleaner
  <2>4. QED
    BY <2>2, <2>3
<1>5. QED
  BY <1>1, <1>2, <1>3, <1>4 DEF C!Timer

\* What a crash of the cleaning service does.
LEMMA CleanCrashIs ==
    ASSUME CleanInv, C!CleanCrash
    PROVE  /\ "cleancrash" \in faults' /\ faults \subseteq faults'
           /\ UNCHANGED <<expired, requests, store>>
           /\ \A c \in C!Cleaner : cleaning'[c] = None
           /\ \A id \in Id : cleanReply'[id] # None => cleaning[id] # None \/ cleanReply[id] # None
           /\ CleanTypes'
<1>1. /\ faults' = faults \cup {"cleancrash"} /\ UNCHANGED <<expired, requests, store>>
      /\ cleanReply' = [id \in Id |-> IF cleaning[id] # None THEN 0 ELSE cleanReply[id]]
      /\ cleaning' = [c \in C!Cleaner |-> None]
      /\ job' = [c \in C!Cleaner |-> 1] /\ failed' = [c \in C!Cleaner |-> 0]
      /\ list' = <<>> /\ skip' = 0
  BY FaultGrows DEF C!CleanCrash, C!Lost
<1>2. CleanTypes'
  BY <1>1 DEF CleanInv, CleanTypes
<1>3. QED
  BY <1>1, <1>2

\* Only what was uploaded grows old.
LEMMA ExpireIs ==
    ASSUME CleanInv, DataInv, NEW id \in Id, Expire(id)
    PROVE  /\ UNCHANGED <<cleanVars, uploadVars, kafkaVars, requests, store, status, faults, late>>
           /\ expired' = expired \cup {id} /\ upc[id] = "done"
<1>1. PICK k \in DOMAIN requests : requests[k] = id
  BY DEF Expire, C!Expire
<1>2. id \in Range(requests)
  BY <1>1 DEF Range
<1>3. upc[id] \in {"free", "done"}
  BY DEF Expire, U!Busy
<1>4. upc[id] = "done"
  BY <1>2, <1>3 DEF DataInv, DataOK
<1>5. QED
  BY <1>4 DEF Expire, C!Expire, cleanVars, C!cleanVars

\* The id that the loop uploads with.
LEMMA KafkaUploadIs ==
    ASSUME KafkaUpload
    PROVE  /\ NewId \in Id /\ upc[NewId] = "free" /\ kpc = "upload" /\ kpc' = "posted"
           /\ tr' = NewId /\ external' = [external EXCEPT ![NewId] = K!At]
           /\ UNCHANGED <<offset, outcome, filer, db, answers, nfile, written, sent, reply,
                          cleanVars, expired, shared, late>>
           /\ upc' = [upc EXCEPT ![NewId] = "check"]
<1>1. NewId \in Id /\ upc[NewId] = "free"
  BY DEF KafkaUpload, NewId
<1>2. QED
  BY <1>1 DEF KafkaUpload, K!Upload, U!Post

\* Every step keeps CleanInv.
LEMMA CleanGoesOn == UploadInv /\ DataInv /\ CleanInv /\ LoopInv /\ [Next]_vars => CleanInv'
<1> SUFFICES ASSUME UploadInv, DataInv, CleanInv, LoopInv, [Next]_vars PROVE CleanInv'
  OBVIOUS
<1>1. CASE KafkaStep \/ KafkaCrash \/ UNCHANGED vars \/ \E id \in Id : Finish(id)
  <2>1. UNCHANGED <<cleaning, job, failed, skip, list, cleanReply, expired, upc>>
    BY <1>1 DEF KafkaStep, KafkaCrash, vars, Finish, cleanVars, uploadVars
  <2>2. QED
    BY <2>1, CleanStays
<1>2. CASE KafkaUpload
  <2>1. PICK id \in Id : id = NewId /\ upc[id] = "free" /\ upc' = [upc EXCEPT ![id] = "check"]
    BY <1>2, KafkaUploadIs
  <2>2. UNCHANGED <<cleaning, job, failed, skip, list, cleanReply, expired>>
    BY <1>2, KafkaUploadIs DEF cleanVars
  <2>3. \A b \in Id : upc[b] = "done" => upc'[b] = "done"
    BY <2>1 DEF UploadInv, UploadTypes
  <2>4. QED
    BY <2>2, <2>3, CleanStays
<1>3. CASE KafkaDelete
  <2>1. PICK id \in Id : id = tr
    BY <1>3, KafkaDeleteIs
  <2>2. /\ UNCHANGED <<skip, list, expired, upc>>
        /\ cleaning' = [cleaning EXCEPT ![id] = id] /\ job' = [job EXCEPT ![id] = 1]
        /\ failed' = [failed EXCEPT ![id] = 0] /\ cleanReply' = [cleanReply EXCEPT ![id] = None]
    BY <1>3, <2>1, KafkaDeleteIs
  <2>3. CleanTypes'
    BY <2>2 DEF CleanInv, CleanTypes, C!Cleaner
  <2>4. QED
    BY <2>2, <2>3, Nones DEF CleanInv, CleanOK, CleanTypes, C!Cleaner
<1>4. ASSUME NEW id \in Id, UploadStep(id) PROVE CleanInv'
  <2>1. UNCHANGED <<cleaning, job, failed, skip, list, cleanReply, expired>>
    BY <1>4 DEF UploadStep, cleanVars
  <2>2. \A b \in Id \ {id} : upc'[b] = upc[b]
    BY <1>4, HandleIs DEF UploadStep, DataInv
  <2>3. upc[id] # "done"
    BY <1>4, HandleIs DEF UploadStep, DataInv
  <2>4. QED
    BY <2>1, <2>2, <2>3, CleanStays
<1>5. CASE UploadCrash
  <2>1. UNCHANGED <<cleaning, job, failed, skip, list, cleanReply, expired>>
    BY <1>5 DEF UploadCrash, cleanVars
  <2>2. \A b \in Id : upc[b] = "done" => upc'[b] = "done"
    BY <1>5, UploadCrashIs DEF UploadCrash
  <2>3. QED
    BY <2>1, <2>2, CleanStays
<1>6. ASSUME NEW c \in C!Cleaner, CleanStep(c) PROVE CleanInv'
  BY <1>6, CleanStepKeeps DEF CleanStep, uploadVars, DataInv
<1>7. CASE TimerStep
  BY <1>7, TimerKeeps DEF TimerStep, uploadVars, DataInv
<1>8. CASE CleanCrash
  <2>1. UNCHANGED upc /\ C!CleanCrash
    BY <1>8 DEF CleanCrash, uploadVars
  <2>2. QED
    BY <2>1, CleanCrashIs DEF CleanInv, CleanOK, C!Cleaner
<1>9. ASSUME NEW id \in Id, Expire(id) PROVE CleanInv'
  <2>1. UNCHANGED <<cleaning, job, failed, skip, list, cleanReply, upc>>
        /\ expired' = expired \cup {id} /\ upc[id] = "done"
    BY <1>9, ExpireIs DEF cleanVars, uploadVars
  <2>2. list \in Seq(expired')
    BY <2>1, SeqMonotonic DEF CleanInv, CleanTypes
  <2>3. QED
    BY <2>1, <2>2 DEF CleanInv, CleanTypes, CleanOK
<1>10. QED
  BY <1>1, <1>2, <1>3, <1>4, <1>5, <1>6, <1>7, <1>8, <1>9 DEF Next
\* Records that stay as they are.
LEMMA DataFrom ==
    ASSUME DataInv, DataTypes', NEW b \in Id,
           faults \subseteq faults', late \subseteq late',
           store'[b] = store[b], b \in Range(requests) => b \in Range(requests'),
           b \in Range(requests') => b \in Range(requests),
           upc'[b] = upc[b] \/ (upc'[b] = "done" /\ upc[b] # "free"),
           \A c \in C!Cleaner : cleaning[c] = b => cleaning'[c] = b,
           \A c \in C!Cleaner : cleaning'[c] = b => \/ cleaning[c] = b /\ job'[c] = job[c]
                                                   \/ job'[c] = 1
    PROVE  DataOK(b)'
<1>1. \A c \in C!Cleaner : cleaning'[c] = b =>
          \/ cleaning[c] = b /\ Done(c)' = Done(c)
          \/ Done(c)' = {}
  BY DEF Done
<1>2. store[b] = {} \/ b \in Range(requests) \/ (\E c \in C!Cleaner : cleaning[c] = b)
      \/ faults \cap {"job", "cleancrash"} # {} \/ b \in late
  BY DEF DataInv, DataOK
<1>3. upc[b] \in {"free", "check", "request"} => store[b] = {} /\ b \notin Range(requests)
  BY DEF DataInv, DataOK
<1>4. upc[b] \in {"status", "files", "send", "reply"} => b \in Range(requests)
  BY DEF DataInv, DataOK
<1>5. faults \cap {"job", "cleancrash"} = {} /\ b \notin late =>
          \A c \in C!Cleaner : cleaning[c] = b => store[b] \cap Done(c) = {}
  BY DEF DataInv, DataOK
<1>6. faults' \cap {"job", "cleancrash"} = {} /\ b \notin late' =>
          faults \cap {"job", "cleancrash"} = {} /\ b \notin late
  OBVIOUS
<1>7. faults' \cap {"job", "cleancrash"} = {} /\ b \notin late' =>
          \A c \in C!Cleaner : cleaning'[c] = b => store'[b] \cap Done(c)' = {}
  BY <1>1, <1>5, <1>6
<1>8. QED
  BY <1>2, <1>3, <1>4, <1>6, <1>7 DEF DataOK

\* A step that leaves the stored data and the cleanings keeps DataInv.
LEMMA DataStays ==
    ASSUME DataInv, UNCHANGED <<requests, store, status, upc, cleaning, job>>,
           faults \subseteq faults', late \subseteq late'
    PROVE  DataInv'
<1>1. DataTypes'
  BY DEF DataInv, DataTypes
<1>2. \A b \in Id : DataOK(b)'
  BY <1>1, DataFrom
<1>3. QED
  BY <1>1, <1>2 DEF DataInv

\* The elements of a sequence after one was appended.
LEMMA RangeAppended ==
    ASSUME NEW s \in Seq(Id), NEW e \in Id
    PROVE  Range(s \o <<e>>) = Range(s) \cup {e}
<1> DEFINE t == <<e>>
<1>1. t \in Seq(Id)
  OBVIOUS
<1>2. Range(t) = {e}
  BY DEF Range
<1> HIDE DEF t
<1>3. Range(s \o t) = Range(s) \cup Range(t)
  BY <1>1, RangeConcatenation
<1>4. QED
  BY <1>2, <1>3 DEF t

\* What is cleaned was uploaded.
LEMMA CleanedBy ==
    ASSUME CleanInv, LoopInv, NEW c \in C!Cleaner, NEW x \in Id, cleaning[c] = x
    PROVE  upc[x] = "done"
<1>1. CASE c \in Id
  <2>1. c = x
    BY <1>1, Nones DEF CleanInv, CleanOK
  <2>2. Asked(x)
    BY <2>1, Nones DEF Asked
  <2>3. QED
    BY <2>2 DEF LoopInv, AskedOK, AskedFor
<1>2. CASE c = "timer"
  BY <1>2, Nones DEF CleanInv, CleanOK
<1>3. QED
  BY <1>1, <1>2 DEF C!Cleaner

\* A handler stores after its request record is there.
LEMMA UploadData ==
    ASSUME UploadInv, DataInv, CleanInv, LoopInv, NEW id \in Id, UploadStep(id)
    PROVE  DataInv'
<1>1. U!Handle(id) /\ UNCHANGED <<cleaning, job, late>>
  BY DEF UploadStep, cleanVars
<1>2. DataTypes' /\ faults \subseteq faults'
  BY <1>1, HandleIs DEF DataInv
<1>3. requests' = requests \/ requests' = requests \o <<id>>
  BY <1>1, HandleIs DEF DataInv, UploadInv, UploadTypes, Unsent
<1>4. \A x \in Id : x # id => (x \in Range(requests') <=> x \in Range(requests))
  <2>1. CASE requests' = requests \o <<id>>
    BY <2>1, RangeAppended DEF DataInv, DataTypes
  <2>2. QED
    BY <1>3, <2>1
<1>5. requests' = requests \o <<id>> => id \in Range(requests')
  BY RangeAppended DEF DataInv, DataTypes
<1>6. ASSUME NEW b \in Id, b # id PROVE DataOK(b)'
  <2>1. upc'[b] = upc[b] /\ store'[b] = store[b]
    BY <1>1, <1>6, HandleIs DEF DataInv
  <2>2. QED
    BY <1>1, <1>2, <1>4, <1>6, <2>1, DataFrom
<1>7. DataOK(id)'
  <2>1. \A c \in C!Cleaner : cleaning[c] # id
    <3>1. upc[id] # "done"
      BY <1>1, HandleIs DEF DataInv
    <3>2. QED
      BY <3>1, CleanedBy
  <2>2. upc[id] \in {"check", "request", "status", "files", "send", "reply"}
    BY <1>1, HandleIs DEF DataInv, UploadInv, UploadTypes, Unsent
  <2>3. DataOK(id)
    BY DEF DataInv
  <2>4. CASE upc[id] = "check"
    <3>1. upc'[id] \in {"request", "done"} /\ UNCHANGED <<requests, store>>
      BY <1>1, <2>4, HandleIs DEF DataInv
    <3>2. QED
      BY <1>1, <2>1, <2>3, <2>4, <3>1 DEF DataOK
  <2>5. CASE upc[id] = "request"
    <3>1. \/ upc'[id] \in {"status", "done"} /\ requests' = requests \o <<id>>
          \/ upc'[id] = "done" /\ UNCHANGED <<requests, store>>
      BY <1>1, <2>5, HandleIs DEF DataInv
    <3>2. QED
      BY <1>1, <1>5, <2>1, <2>3, <2>5, <3>1 DEF DataOK
  <2>6. CASE upc[id] \in {"status", "files", "send", "reply"}
    <3>1. upc'[id] \in {"files", "send", "reply", "done"} /\ requests' = requests
      BY <1>1, <2>6, HandleIs DEF DataInv
    <3>2. QED
      BY <1>1, <2>1, <2>3, <2>6, <3>1 DEF DataOK
  <2>7. QED
    BY <2>2, <2>4, <2>5, <2>6
<1>8. QED
  BY <1>2, <1>6, <1>7 DEF DataInv

\* A job takes its part; the cleaning is still there for the others.
LEMMA JobData ==
    ASSUME DataInv, CleanInv, LoopInv, NEW c \in C!Cleaner, C!Job(c), UNCHANGED <<upc, status, late>>
    PROVE  DataInv'
<1>1. PICK x \in Id : x = cleaning[c]
  BY DEF C!Job, CleanInv, CleanTypes
<1>2. /\ UNCHANGED cleaning /\ job' = [job EXCEPT ![c] = @ + 1] /\ job[c] <= Len(C!Jobs)
      /\ \/ C!Erase(x, C!Jobs[job[c]]) /\ UNCHANGED faults
         \/ faults' = faults \cup {"job"} /\ UNCHANGED <<store, requests>>
  BY <1>1, FaultGrows DEF C!Job
<1>3. job \in [C!Cleaner -> Nat] /\ DataTypes
  BY DEF CleanInv, CleanTypes, DataInv
<1>4. CASE faults' = faults \cup {"job"} /\ UNCHANGED <<store, requests>>
  <2>1. "job" \in faults'
    BY <1>4
  <2>2. DataTypes'
    BY <1>3, <1>4 DEF DataTypes
  <2>3. QED
    BY <1>4, <2>1, <2>2 DEF DataInv, DataOK
<1>5. CASE C!Erase(x, C!Jobs[job[c]]) /\ UNCHANGED faults
  <2>1. /\ requests' \in Seq(Id) /\ store' \in [Id -> SUBSET Anything]
        /\ store'[x] = store[x] \ {C!Jobs[job[c]]}
        /\ \A b \in Id \ {x} : store'[b] = store[b]
        /\ \A y \in Range(requests) \ {x} : y \in Range(requests')
        /\ Range(requests') \subseteq Range(requests)
    BY <1>3, <1>5, EraseIs
  <2>2. DataTypes'
    BY <1>3, <2>1 DEF DataTypes
  <2>3. \A d \in C!Cleaner : d # c => job'[d] = job[d]
    BY <1>2, <1>3
  <2>4. ASSUME NEW b \in Id, b # x PROVE DataOK(b)'
    <3>1. \A d \in C!Cleaner : cleaning[d] = b => d # c
      BY <1>1, <2>4
    <3>2. store'[b] = store[b] /\ (b \in Range(requests) <=> b \in Range(requests'))
      BY <2>1, <2>4
    <3>3. \A d \in C!Cleaner : cleaning'[d] = b => cleaning[d] = b /\ job'[d] = job[d]
      BY <1>2, <2>3, <3>1
    <3>4. QED
      BY <1>2, <1>5, <2>2, <3>2, <3>3, DataFrom
  <2>5. DataOK(x)'
    <3>1. upc[x] = "done"
      BY <1>1, CleanedBy
    <3>2. job'[c] = job[c] + 1 /\ job[c] \in Nat
      BY <1>2, <1>3
    <3>3. Done(c)' \subseteq Done(c) \cup {C!Jobs[job[c]]}
      <4>1. PICK jobs : jobs = C!Jobs
        OBVIOUS
      <4>2. C!Jobs' = C!Jobs
        BY DEF C!Jobs
      <4>3. Done(c)' = {jobs[k] : k \in 1 .. (job'[c] - 1)} /\ Done(c) = {jobs[k] : k \in 1 .. (job[c] - 1)}
        BY <4>1, <4>2 DEF Done
      <4>4. \A k \in 1 .. (job'[c] - 1) : k = job[c] \/ k \in 1 .. (job[c] - 1)
        BY <3>2
      <4>5. QED
        BY <4>1, <4>3, <4>4
    <3>4. \A d \in C!Cleaner \ {c} : Done(d)' = Done(d)
      BY <2>3 DEF Done, C!Jobs
    <3>5. faults \cap {"job", "cleancrash"} = {} /\ x \notin late =>
              \A d \in C!Cleaner : cleaning[d] = x => store[x] \cap Done(d) = {}
      BY DEF DataInv, DataOK
    <3>6. faults \cap {"job", "cleancrash"} = {} /\ x \notin late =>
              \A d \in C!Cleaner : cleaning'[d] = x => store'[x] \cap Done(d)' = {}
      BY <1>2, <2>1, <3>3, <3>4, <3>5
    <3>7. QED
      BY <1>1, <1>2, <1>5, <3>1, <3>6 DEF DataOK
  <2>6. QED
    BY <2>2, <2>4, <2>5 DEF DataInv
<1>6. QED
  BY <1>2, <1>4, <1>5

\* A cleaning whose jobs are done leaves nothing.
LEMMA CleanedData ==
    ASSUME DataInv, CleanInv, LoopInv, NEW c \in C!Cleaner, C!Cleaned(c), UNCHANGED <<upc, status, late>>
    PROVE  DataInv'
<1>1. PICK x \in Id : x = cleaning[c]
  BY DEF C!Cleaned, CleanInv, CleanTypes
<1>2. /\ UNCHANGED <<requests, store, faults>> /\ job[c] > Len(C!Jobs)
      /\ cleaning' = [cleaning EXCEPT ![c] = None] /\ job' = [job EXCEPT ![c] = 1]
  BY DEF C!Cleaned
<1>3. job \in [C!Cleaner -> Nat] /\ cleaning \in [C!Cleaner -> Id \cup {None}] /\ DataTypes
  BY DEF CleanInv, CleanTypes, DataInv
<1>4. DataTypes'
  BY <1>2, <1>3 DEF DataTypes
<1>5. \A d \in C!Cleaner : d # c => job'[d] = job[d] /\ cleaning'[d] = cleaning[d]
  BY <1>2, <1>3
<1>6. cleaning'[c] = None
  BY <1>2, <1>3
<1>7. ASSUME NEW b \in Id, b # x PROVE DataOK(b)'
  BY <1>1, <1>2, <1>4, <1>5, <1>6, <1>7, Nones, DataFrom
<1>8. DataOK(x)'
  <2>1. upc[x] = "done"
    BY <1>1, CleanedBy
  <2>2. Anything \subseteq Done(c)
    <3> SUFFICES ASSUME NEW a \in Anything PROVE a \in Done(c)
      OBVIOUS
    <3>1. PICK k \in 1 .. Len(C!Jobs) : C!Jobs[k] = a
      BY JobsAre
    <3>2. k \in 1 .. (job[c] - 1)
      <4>1. Len(C!Jobs) \in Nat /\ job[c] \in Nat
        BY <1>3, JobsAre
      <4>2. QED
        BY <1>2, <3>1, <4>1
    <3>3. QED
      BY <3>1, <3>2 DEF Done
  <2>3. faults \cap {"job", "cleancrash"} = {} /\ x \notin late => store[x] = {}
    <3>1. faults \cap {"job", "cleancrash"} = {} /\ x \notin late => store[x] \cap Done(c) = {}
      BY <1>1 DEF DataInv, DataOK
    <3>2. store[x] \subseteq Anything
      BY <1>3 DEF DataTypes
    <3>3. QED
      BY <2>2, <3>1, <3>2
  <2>4. QED
    BY <1>2, <2>1, <2>3 DEF DataOK
<1>9. QED
  BY <1>4, <1>7, <1>8 DEF DataInv

\* A cleaning of the timer begins with no job done.
LEMMA TimerData ==
    ASSUME DataInv, CleanInv, TimerStep PROVE DataInv'
<1>1. UNCHANGED <<requests, store, status, upc, late>> /\ C!Timer
  BY DEF TimerStep, uploadVars, C!Timer, C!Tick, C!ReadPage, C!QueryFails, C!CleanNext
<1>2. faults \subseteq faults'
  BY <1>1, CleanFaults
<1>3. DataTypes'
  BY <1>1 DEF DataInv, DataTypes
<1>4. \/ UNCHANGED <<cleaning, job>>
      \/ /\ cleaning["timer"] = None
         /\ \E x : cleaning' = [cleaning EXCEPT !["timer"] = x]
         /\ job' = [job EXCEPT !["timer"] = 1]
  BY <1>1 DEF C!Timer, C!Tick, C!ReadPage, C!QueryFails, C!CleanNext, C!Begin
<1>5. CASE UNCHANGED <<cleaning, job>>
  BY <1>1, <1>2, <1>5, DataStays
<1>6. CASE ~UNCHANGED <<cleaning, job>>
  <2>1. \A c \in C!Cleaner : \/ cleaning'[c] = cleaning[c] /\ job'[c] = job[c]
                             \/ cleaning[c] = None /\ job'[c] = 1
    BY <1>4, <1>6 DEF CleanInv, CleanTypes
  <2>2. ASSUME NEW b \in Id PROVE DataOK(b)'
    BY <1>1, <1>2, <1>3, <2>1, Nones, DataFrom
  <2>3. QED
    BY <1>3, <2>2 DEF DataInv
<1>7. QED
  BY <1>5, <1>6

\* A transcription that ends adds to its data, or comes too late for its cleaning.
LEMMA FinishData ==
    ASSUME UploadInv, DataInv, CleanInv, NEW id \in Id, Finish(id) PROVE DataInv'
<1>1. UNCHANGED <<upc, cleaning, job, requests, faults>>
  BY DEF Finish, uploadVars, cleanVars
<1>2. PICK more \in SUBSET Anything : store' = [store EXCEPT ![id] = @ \cup more]
  BY DEF Finish, Anything
<1>3. DataTypes'
  <2>1. store' \in [Id -> SUBSET Anything]
    BY <1>2 DEF DataInv, DataTypes
  <2>2. status' \in [Id -> {"Uploaded", "Completed", "Failed", None}]
    BY DEF DataInv, DataTypes, Finish
  <2>3. QED
    BY <1>1, <2>1, <2>2 DEF DataInv, DataTypes
<1>4. late \subseteq late' /\ (id \in late' \/ (id \in Range(requests) /\ \A c \in C!Cleaner : cleaning[c] # id))
  BY DEF Finish
<1>5. ASSUME NEW b \in Id, b # id PROVE DataOK(b)'
  <2>1. store'[b] = store[b]
    BY <1>2, <1>5 DEF DataInv, DataTypes
  <2>2. QED
    BY <1>1, <1>3, <1>4, <2>1, DataFrom
<1>6. DataOK(id)'
  <2>1. upc[id] \in {"reply", "done"}
    BY DEF Finish, UploadInv, UploadTypes, UploadOK
  <2>2. upc[id] = "reply" => id \in Range(requests)
    BY DEF DataInv, DataOK
  <2>3. QED
    BY <1>1, <1>4, <2>1, <2>2 DEF DataOK
<1>7. QED
  BY <1>3, <1>5, <1>6 DEF DataInv

\* Every step keeps DataInv.
LEMMA DataGoesOn == UploadInv /\ DataInv /\ CleanInv /\ LoopInv /\ [Next]_vars => DataInv'
<1> SUFFICES ASSUME UploadInv, DataInv, CleanInv, LoopInv, [Next]_vars PROVE DataInv'
  OBVIOUS
<1>1. CASE KafkaStep \/ KafkaCrash \/ UNCHANGED vars
  <2>1. UNCHANGED <<requests, store, status, upc, cleaning, job, late>>
    BY <1>1 DEF KafkaStep, KafkaCrash, vars, shared, cleanVars, uploadVars
  <2>2. faults \subseteq faults'
    BY <1>1, KafkaFaults DEF KafkaStep, KafkaCrash, vars, shared
  <2>3. QED
    BY <2>1, <2>2, DataStays
<1>2. CASE KafkaUpload
  <2>1. PICK id \in Id : id = NewId /\ upc[id] = "free" /\ upc' = [upc EXCEPT ![id] = "check"]
    BY <1>2, KafkaUploadIs
  <2>2. UNCHANGED <<requests, store, status, cleaning, job, faults, late>>
    BY <1>2, KafkaUploadIs DEF cleanVars, shared
  <2>3. DataTypes'
    BY <2>2 DEF DataInv, DataTypes
  <2>4. \A b \in Id \ {id} : upc'[b] = upc[b]
    BY <2>1 DEF UploadInv, UploadTypes
  <2>5. ASSUME NEW b \in Id, b # id PROVE DataOK(b)'
    BY <2>2, <2>3, <2>4, <2>5, DataFrom
  <2>6. DataOK(id)'
    <3>1. upc'[id] = "check"
      BY <2>1 DEF UploadInv, UploadTypes
    <3>2. store[id] = {} /\ id \notin Range(requests)
      BY <2>1 DEF DataInv, DataOK
    <3>3. QED
      BY <2>2, <3>1, <3>2 DEF DataOK
  <2>7. QED
    BY <2>3, <2>5, <2>6 DEF DataInv
<1>3. CASE KafkaDelete
  <2>1. PICK id \in Id : id = tr
    BY <1>3, KafkaDeleteIs
  <2>2. /\ UNCHANGED <<requests, store, status, upc, faults, late>> /\ cleaning[id] = None
        /\ cleaning' = [cleaning EXCEPT ![id] = id] /\ job' = [job EXCEPT ![id] = 1]
    BY <1>3, <2>1, KafkaDeleteIs
  <2>3. DataTypes'
    BY <2>2 DEF DataInv, DataTypes
  <2>4. \A c \in C!Cleaner : \/ cleaning'[c] = cleaning[c] /\ job'[c] = job[c]
                             \/ cleaning[c] = None /\ job'[c] = 1
    BY <2>2 DEF CleanInv, CleanTypes
  <2>5. ASSUME NEW b \in Id PROVE DataOK(b)'
    BY <2>2, <2>3, <2>4, Nones, DataFrom
  <2>6. QED
    BY <2>3, <2>5 DEF DataInv
<1>4. ASSUME NEW id \in Id, UploadStep(id) PROVE DataInv'
  BY <1>4, UploadData
<1>5. CASE UploadCrash
  <2>1. UNCHANGED <<requests, store, status, cleaning, job, late>> /\ faults \subseteq faults'
    BY <1>5, UploadCrashIs DEF UploadCrash, cleanVars
  <2>2. \A b \in Id : upc'[b] = upc[b] \/ (upc'[b] = "done" /\ upc[b] # "free")
    BY <1>5, UploadCrashIs DEF UploadCrash
  <2>3. DataTypes'
    BY <2>1 DEF DataInv, DataTypes
  <2>4. ASSUME NEW b \in Id PROVE DataOK(b)'
    BY <2>1, <2>2, <2>3, DataFrom
  <2>5. QED
    BY <2>3, <2>4 DEF DataInv
<1>6. ASSUME NEW c \in C!Cleaner, CleanStep(c) PROVE DataInv'
  BY <1>6, JobData, CleanedData DEF CleanStep, uploadVars
<1>7. CASE TimerStep
  BY <1>7, TimerData
<1>8. CASE CleanCrash
  <2>1. UNCHANGED <<upc, status, late>> /\ C!CleanCrash
    BY <1>8 DEF CleanCrash, uploadVars
  <2>2. "cleancrash" \in faults' /\ UNCHANGED <<requests, store>>
    BY <2>1, CleanCrashIs
  <2>3. QED
    BY <2>1, <2>2 DEF DataInv, DataTypes, DataOK
<1>9. ASSUME NEW id \in Id, Expire(id) PROVE DataInv'
  <2>1. UNCHANGED <<requests, store, status, upc, cleaning, job, faults, late>>
    BY <1>9, ExpireIs DEF cleanVars, uploadVars
  <2>2. QED
    BY <2>1, DataStays
<1>10. ASSUME NEW id \in Id, Finish(id) PROVE DataInv'
  BY <1>10, FinishData
<1>11. QED
  BY <1>1, <1>2, <1>3, <1>4, <1>5, <1>6, <1>7, <1>8, <1>9, <1>10 DEF Next
-----------------------------------------------------------------------------
\* A step of another program keeps LoopInv: an accepted upload stays accepted, and
\* no cleaning is begun of an id that nobody asked for.
LEMMA LoopStays ==
    ASSUME LoopInv, UNCHANGED <<kpc, offset, tr, outcome, filer, db, answers, external>>,
           faults \subseteq faults',
           \A id \in Id : /\ reply[id] = 200 => reply'[id] = 200
                          /\ upc[id] = "done" => upc'[id] = "done"
                          /\ cleaning'[id] # None \/ cleanReply'[id] # None
                                => cleaning[id] # None \/ cleanReply[id] # None
    PROVE  LoopInv'
<1>1. LoopTypes' /\ AnswersOK'
  BY DEF LoopInv, LoopTypes, AnswersOK
<1>2. K!At' = K!At /\ K!Current' = K!Current
  BY DEF K!Current, K!At
<1>3. LoopOK'
  BY <1>2 DEF LoopInv, LoopOK, InWork, LoopTypes
<1>4. FilerOK'
  BY <1>2 DEF LoopInv, FilerOK, WorkFile, FileOK, Waiting
<1>5. AskedOK'
  BY <1>2 DEF LoopInv, AskedOK, AskedFor, Asked
<1>6. QED
  BY <1>1, <1>3, <1>4, <1>5 DEF LoopInv

\* So does a step of the loop that leaves the files, the storage and the answers.
LEMMA LoopMoves ==
    ASSUME LoopInv, UNCHANGED <<offset, filer, db, answers, external, reply, upc, cleaning, cleanReply>>,
           faults \subseteq faults', LoopOK', WorkFile',
           kpc' \in {"poll", "find", "audio", "create", "upload", "mark", "listen", "result", "save",
                     "tell", "deleting", "commit", "exited"},
           kpc' \in {"create", "mark"} => kpc \in {"posted", "create", "mark"} /\ tr' = tr,
           tr' \in Id \cup {None}, outcome' \in {"done", "failed", None}
    PROVE  LoopInv'
<1>1. LoopTypes' /\ AnswersOK'
  BY DEF LoopInv, LoopTypes, AnswersOK
<1>2. K!At' = K!At
  BY DEF K!At
<1>3. FilerOK'
  BY <1>2 DEF LoopInv, FilerOK, FileOK
<1>4. AskedOK'
  BY DEF LoopInv, AskedOK, AskedFor, Asked
<1>5. QED
  BY <1>1, <1>3, <1>4 DEF LoopInv

\* So does the end of the process.
LEMMA LoopExits ==
    ASSUME LoopInv, UNCHANGED <<offset, filer, db, answers, external, reply, upc, cleaning, cleanReply>>,
           faults \subseteq faults', kpc' = "exited", tr' = None, outcome' = None
    PROVE  LoopInv'
<1>1. LoopOK' /\ WorkFile'
  BY Nones DEF LoopOK, WorkFile, InWork, Waiting
<1>2. QED
  BY <1>1, LoopMoves

\* The loop moves, and the other programs do not.
Alone == UNCHANGED <<reply, upc, cleaning, cleanReply>>

\* The loop takes a message.
LEMMA PollKeeps == ASSUME LoopInv, Alone, K!Poll PROVE LoopInv'
<1>1. /\ UNCHANGED <<offset, tr, outcome, filer, db, answers, external, faults>> /\ kpc = "poll"
      /\ K!At \in DOMAIN Input
      /\ \/ kpc' = "exited"
         \/ kpc' = "commit" /\ K!Current \notin Msg
         \/ kpc' = "find" /\ K!Current \in Msg
  <2>1. Input[K!At] \in Msg \cup {NoId, Unreadable} /\ NoId \notin Msg
    BY IntegrationAssumption DEF K!Poll
  <2>2. K!Current \in Msg \cup {NoId, Unreadable}
    BY <2>1 DEF K!Current
  <2>3. QED
    BY <2>1, <2>2 DEF K!Poll, K!Goto
<1>2. tr = None
  BY <1>1 DEF LoopInv, LoopOK
<1>3. K!Current' = K!Current /\ K!At' = K!At
  BY <1>1 DEF K!Current, K!At
<1>4. LoopOK'
  BY <1>1, <1>2, <1>3 DEF LoopOK, InWork
<1>5. WorkFile'
  BY <1>1, <1>2, <1>3 DEF WorkFile, Waiting
<1>6. QED
  BY <1>1, <1>4, <1>5, LoopMoves DEF LoopInv, LoopTypes, Alone

\* It finds the working file, or none.
LEMMA FindKeeps == ASSUME LoopInv, Alone, K!Find PROVE LoopInv'
<1>1. /\ UNCHANGED <<offset, outcome, filer, db, answers, external, faults>> /\ kpc = "find"
      /\ \/ kpc' = "exited" /\ tr' = tr
         \/ /\ filer[K!Current] # "empty" /\ tr' = filer[K!Current]
            /\ kpc' = IF tr' = None THEN "audio" ELSE "listen"
  BY DEF K!Find, K!Goto, K!Empty
<1>2. tr = None /\ K!Current \in Msg /\ K!At \in DOMAIN Input /\ InWork
  BY <1>1 DEF LoopInv, LoopOK, InWork
<1>3. K!Current' = K!Current /\ K!At' = K!At
  BY <1>1 DEF K!Current, K!At
<1>4. filer[K!Current] \in Id \cup {"empty", None} /\ FileOK(K!Current)
  BY <1>2 DEF LoopInv, LoopTypes, FilerOK
<1>5. LoopOK'
  BY <1>1, <1>2, <1>3, <1>4, Nones DEF LoopOK, InWork, FileOK, Alone
<1>6. WorkFile'
  BY <1>1, <1>2, <1>3, <1>4, Nones DEF WorkFile, Waiting
<1>7. QED
  BY <1>1, <1>2, <1>4, <1>5, <1>6, LoopMoves DEF LoopInv, LoopTypes, Alone

\* It gets the audio.
LEMMA AudioKeeps == ASSUME LoopInv, Alone, K!GetAudio PROVE LoopInv'
<1>1. /\ UNCHANGED <<offset, tr, outcome, filer, db, answers, external>> /\ kpc = "audio"
      /\ kpc' \in {"upload", "tell"} /\ faults \subseteq faults'
  BY FaultGrows DEF K!GetAudio, K!Goto
<1>2. tr = None /\ K!Current \in Msg /\ K!At \in DOMAIN Input /\ filer[K!Current] \notin Id
  BY <1>1 DEF LoopInv, LoopOK, InWork, FilerOK, WorkFile
<1>3. K!Current' = K!Current /\ K!At' = K!At
  BY <1>1 DEF K!Current, K!At
<1>4. LoopOK'
  BY <1>1, <1>2, <1>3 DEF LoopOK, InWork
<1>5. WorkFile'
  BY <1>1, <1>2, <1>3 DEF WorkFile, Waiting
<1>6. QED
  BY <1>1, <1>4, <1>5, LoopMoves DEF LoopInv, LoopTypes, Alone

\* It has the answer of its upload.
LEMMA UploadedKeeps == ASSUME LoopInv, Alone, K!Uploaded PROVE LoopInv'
<1>1. /\ UNCHANGED <<offset, filer, db, answers, external, faults>> /\ kpc = "posted"
      /\ \/ kpc' = "create" /\ UNCHANGED <<tr, outcome>> /\ reply[tr] = 200
         \/ kpc' = "upload" /\ tr' = None /\ UNCHANGED outcome
         \/ kpc' = "save" /\ tr' = None /\ outcome' = "failed"
  BY DEF K!Uploaded, K!CannotStart
<1>2. /\ tr # None /\ K!Current \in Msg /\ K!At \in DOMAIN Input /\ filer[K!Current] \notin Id
      /\ external[tr] = K!At /\ Input[external[tr]] = K!Current
  BY <1>1 DEF LoopInv, LoopOK, InWork, FilerOK, WorkFile
<1>3. K!Current' = K!Current /\ K!At' = K!At
  BY <1>1 DEF K!Current, K!At
<1>4. LoopOK'
  BY <1>1, <1>2, <1>3, Nones DEF LoopOK, InWork, Alone
<1>5. WorkFile'
  BY <1>1, <1>2, <1>3, Nones DEF WorkFile, Waiting
<1>6. QED
  BY <1>1, <1>4, <1>5, LoopMoves DEF LoopInv, LoopTypes, Alone

\* The working file of the message changes, to nothing or to the id in work.
LEMMA FileChanges ==
    ASSUME LoopInv, Alone, UNCHANGED <<offset, tr, outcome, db, answers, external>>,
           faults \subseteq faults', LoopOK', WorkFile', NEW m \in Msg, FileOK(m)',
           filer' \in [Msg -> Id \cup {"empty", None}],
           \A n \in Msg \ {m} : filer'[n] = filer[n],
           kpc' \in {"mark", "listen", "commit", "delete"},
           kpc' = "mark" => kpc \in {"create", "mark"}
    PROVE  LoopInv'
<1>1. LoopTypes' /\ AnswersOK'
  BY DEF LoopInv, LoopTypes, AnswersOK
<1>2. K!At' = K!At
  BY DEF K!At
<1>3. ASSUME NEW n \in Msg, n # m PROVE FileOK(n)'
  BY <1>2, <1>3 DEF LoopInv, FilerOK, FileOK, Alone
<1>4. AskedOK'
  BY DEF LoopInv, AskedOK, AskedFor, Asked, Alone
<1>5. QED
  BY <1>1, <1>3, <1>4 DEF LoopInv, FilerOK

\* It makes the working file and writes the id.
LEMMA WorkingKeeps == ASSUME LoopInv, Alone, K!SetWorking PROVE LoopInv'
<1>1. UNCHANGED <<offset, db, answers, external>> /\ kpc \in {"create", "mark"}
  BY DEF K!SetWorking
<1>2. /\ tr \in Id /\ K!Current \in Msg /\ K!At \in DOMAIN Input /\ filer[K!Current] \notin Id
      /\ external[tr] = K!At /\ Input[external[tr]] = K!Current /\ reply[tr] = 200
  BY <1>1 DEF LoopInv, LoopOK, LoopTypes, InWork, FilerOK, WorkFile
<1>3. PICK m \in Msg : m = K!Current
  BY <1>2
<1>4. K!Current' = m /\ K!At' = K!At
  BY <1>1, <1>3 DEF K!Current, K!At
<1>5. CASE kpc = "create" /\ kpc' = "mark" /\ UNCHANGED <<tr, outcome, faults>>
           /\ filer' = [filer EXCEPT ![m] = "empty"]
  <2>1. filer'[m] = "empty"
    BY <1>5 DEF LoopInv, LoopTypes
  <2>2. LoopOK'
    <3>1. kpc = "create" /\ kpc' = "mark" /\ UNCHANGED <<tr, outcome, faults>>
      BY <1>5
    <3>2. K!Current' = K!Current
      BY <1>3, <1>4
    <3>3. QED
      BY <1>1, <1>2, <1>4, <3>1, <3>2, Nones DEF LoopOK, InWork, Alone
  <2>3. WorkFile'
    BY <1>4, <1>5, <2>1, Nones DEF WorkFile, Waiting
  <2>4. FileOK(m)'
    BY <2>1, Nones DEF FileOK
  <2>5. filer' \in [Msg -> Id \cup {"empty", None}] /\ \A n \in Msg \ {m} : filer'[n] = filer[n]
    BY <1>5 DEF LoopInv, LoopTypes
  <2>6. QED
    BY <1>1, <1>5, <2>2, <2>3, <2>4, <2>5, FileChanges
<1>6. CASE kpc = "mark" /\ kpc' = "listen" /\ UNCHANGED <<tr, outcome, faults>>
           /\ filer' = [filer EXCEPT ![m] = tr]
  <2>1. filer'[m] = tr
    BY <1>6 DEF LoopInv, LoopTypes
  <2>2. LoopOK'
    <3>1. kpc = "mark" /\ kpc' = "listen" /\ UNCHANGED <<tr, outcome, faults>>
      BY <1>6
    <3>2. K!Current' = K!Current
      BY <1>3, <1>4
    <3>3. QED
      BY <1>1, <1>2, <1>4, <3>1, <3>2, Nones DEF LoopOK, InWork, Alone
  <2>3. WorkFile'
    BY <1>4, <1>6, <2>1, Nones DEF WorkFile, Waiting
  <2>4. ~Asked(tr)
    BY <1>2, <1>6 DEF LoopInv, AskedOK, AskedFor
  <2>5. FileOK(m)'
    BY <1>1, <1>2, <1>3, <1>4, <1>6, <2>1, <2>4 DEF FileOK, Asked, Alone
  <2>6. filer' \in [Msg -> Id \cup {"empty", None}] /\ \A n \in Msg \ {m} : filer'[n] = filer[n]
    BY <1>2, <1>6 DEF LoopInv, LoopTypes
  <2>7. QED
    BY <1>1, <1>6, <2>2, <2>3, <2>5, <2>6, FileChanges
<1>7. CASE K!Exit /\ UNCHANGED filer /\ faults \subseteq faults'
  BY <1>1, <1>7, LoopExits DEF K!Exit, Alone
<1>8. QED
  <2>1. \/ kpc = "create" /\ kpc' = "mark" /\ UNCHANGED <<tr, outcome, faults>>
           /\ filer' = [filer EXCEPT ![K!Current] = "empty"]
        \/ kpc = "mark" /\ kpc' = "listen" /\ UNCHANGED <<tr, outcome, faults>>
           /\ filer' = [filer EXCEPT ![K!Current] = tr]
        \/ K!Exit /\ UNCHANGED filer /\ faults \subseteq faults'
    BY FaultGrows DEF K!SetWorking, K!Empty
  <2>2. QED
    BY <1>3, <1>5, <1>6, <1>7, <2>1

\* It learns that the transcription has ended.
LEMMA StatusKeeps == ASSUME LoopInv, Alone, K!GetStatus PROVE LoopInv'
<1>1. /\ UNCHANGED <<offset, filer, db, answers, external>> /\ kpc = "listen" /\ faults \subseteq faults'
      /\ \/ kpc' = "result" /\ UNCHANGED <<tr, outcome, faults>>
         \/ kpc' = "save" /\ UNCHANGED <<tr, faults>> /\ outcome' = "failed"
         \/ kpc' = "save" /\ tr' = None /\ outcome' = "failed" /\ "status" \in faults'
  BY FaultGrows DEF K!GetStatus, K!CannotStart
<1>2. /\ tr \in Id /\ K!Current \in Msg /\ K!At \in DOMAIN Input /\ filer[K!Current] = tr
      /\ external[tr] \in DOMAIN Input /\ Input[external[tr]] = K!Current /\ reply[tr] = 200
  BY <1>1 DEF LoopInv, LoopOK, LoopTypes, InWork, FilerOK, WorkFile, Waiting
<1>3. K!Current' = K!Current /\ K!At' = K!At
  BY <1>1 DEF K!Current, K!At
<1>4. LoopOK'
  BY <1>1, <1>2, <1>3, Nones DEF LoopOK, InWork, Alone
<1>5. WorkFile'
  BY <1>1, <1>2, <1>3, Nones DEF WorkFile, Waiting
<1>6. QED
  BY <1>1, <1>4, <1>5, LoopMoves DEF LoopInv, LoopTypes, Alone

\* It gets the result.
LEMMA ResultKeeps == ASSUME LoopInv, Alone, K!GetResult PROVE LoopInv'
<1>1. /\ UNCHANGED <<offset, tr, filer, db, answers, external>> /\ kpc = "result" /\ faults \subseteq faults'
      /\ kpc' = "save" /\ outcome' \in {"done", "failed"}
  BY FaultGrows DEF K!GetResult
<1>2. /\ tr \in Id /\ K!Current \in Msg /\ K!At \in DOMAIN Input /\ filer[K!Current] = tr
      /\ external[tr] \in DOMAIN Input /\ Input[external[tr]] = K!Current /\ reply[tr] = 200
  BY <1>1 DEF LoopInv, LoopOK, LoopTypes, InWork, FilerOK, WorkFile, Waiting
<1>3. K!Current' = K!Current /\ K!At' = K!At
  BY <1>1 DEF K!Current, K!At
<1>4. LoopOK'
  BY <1>1, <1>2, <1>3, Nones DEF LoopOK, InWork, Alone
<1>5. WorkFile'
  BY <1>1, <1>2, <1>3, Nones DEF WorkFile, Waiting
<1>6. QED
  BY <1>1, <1>4, <1>5, LoopMoves DEF LoopInv, LoopTypes, Alone
\* The result of the message is stored, or the storage fails.
LEMMA SaveKeeps == ASSUME LoopInv, Alone, K!SaveResult PROVE LoopInv'
<1>1. /\ UNCHANGED <<offset, tr, outcome, filer, answers, external>> /\ kpc = "save"
      /\ \/ kpc' = "send" /\ UNCHANGED faults /\ db' = [db EXCEPT ![K!Current] = outcome]
         \/ /\ kpc' = "tell" /\ faults' = faults \cup {"db"}
            /\ db' \in {db, [db EXCEPT ![K!Current] = outcome]}
  BY FaultGrows DEF K!SaveResult
<1>2. /\ K!Current \in Msg /\ K!At \in DOMAIN Input /\ outcome \in {"done", "failed"}
      /\ tr # None => /\ external[tr] \in DOMAIN Input /\ Input[external[tr]] = K!Current
                      /\ reply[tr] = 200 /\ filer[K!Current] = tr
      /\ tr = None => "status" \in faults \/ filer[K!Current] \notin Id
  BY <1>1 DEF LoopInv, LoopOK, LoopTypes, InWork, FilerOK, WorkFile, Waiting
<1>3. K!Current' = K!Current /\ K!At' = K!At
  BY <1>1 DEF K!Current, K!At
<1>4. PICK m \in Msg : m = K!Current
  BY <1>2
<1>5. /\ db' \in [Msg -> {"done", "failed", None}] /\ \A n \in Msg : db[n] # None => db'[n] # None
      /\ kpc' = "send" => db'[m] # None
  <2>1. db \in [Msg -> {"done", "failed", None}] /\ outcome # None
    BY <1>2, Nones DEF LoopInv, LoopTypes
  <2>2. db' = db \/ db' = [db EXCEPT ![m] = outcome]
    BY <1>1, <1>4
  <2>3. kpc' = "send" => db' = [db EXCEPT ![m] = outcome]
    BY <1>1, <1>4
  <2>4. QED
    BY <1>2, <2>1, <2>2, <2>3
<1>6. LoopTypes'
  BY <1>1, <1>5 DEF LoopInv, LoopTypes
<1>7. LoopOK'
  BY <1>1, <1>2, <1>3, <1>4, <1>5 DEF LoopOK, InWork, Alone
<1>8. WorkFile'
  BY <1>1, <1>2, <1>3 DEF WorkFile, Waiting
<1>9. AnswersOK'
  BY <1>1, <1>5 DEF LoopInv, AnswersOK
<1>10. ASSUME NEW n \in Msg PROVE FileOK(n)'
  BY <1>1, <1>3 DEF LoopInv, FilerOK, FileOK, Alone
<1>11. ASSUME NEW id \in Id PROVE AskedFor(id)'
  <2>1. CASE Asked(id) /\ "db" \notin faults'
    <3>1. db[Input[external[id]]] # None
      BY <1>1, <2>1 DEF LoopInv, AskedOK, AskedFor
    <3>2. kpc' = "send" /\ db' = [db EXCEPT ![m] = outcome] /\ db \in [Msg -> {"done", "failed", None}]
      BY <1>1, <1>4, <2>1 DEF LoopInv, LoopTypes
    <3>3. Input[external'[id]] = Input[external[id]]
      BY <1>1
    <3>4. db'[Input[external[id]]] # None
      BY <1>2, <3>1, <3>2, Nones
    <3>5. QED
      BY <1>1, <3>3, <3>4 DEF LoopInv, AskedOK, AskedFor, Asked, Alone
  <2>2. CASE ~(Asked(id) /\ "db" \notin faults')
    BY <1>1, <2>2 DEF LoopInv, AskedOK, AskedFor, Asked, Alone
  <2>3. QED
    BY <2>1, <2>2
<1>12. QED
  BY <1>6, <1>7, <1>8, <1>9, <1>10, <1>11 DEF LoopInv, FilerOK, AskedOK

\* It answers, well only after the result was saved.
LEMMA SendKeeps == ASSUME LoopInv, Alone, K!Send PROVE LoopInv'
<1>1. /\ UNCHANGED <<offset, filer, db, external>> /\ kpc \in {"send", "tell"} /\ faults \subseteq faults'
      /\ \/ /\ answers' = [answers EXCEPT ![K!At] = @ \cup {K!Said}]
            /\ kpc' = IF tr = None THEN "commit" ELSE "unfile"
            /\ UNCHANGED <<tr, outcome, faults>>
         \/ /\ answers' \in {answers, [answers EXCEPT ![K!At] = @ \cup {K!Said}]}
            /\ kpc' = "exited" /\ tr' = None /\ outcome' = None
  BY FaultGrows DEF K!Send, K!Exit
<1>2. /\ K!Current \in Msg /\ K!At \in DOMAIN Input
      /\ tr # None => /\ external[tr] \in DOMAIN Input /\ Input[external[tr]] = K!Current
                      /\ reply[tr] = 200 /\ filer[K!Current] = tr
      /\ tr = None => "status" \in faults \/ filer[K!Current] \notin Id
      /\ kpc = "send" => db[K!Current] # None
      /\ kpc = "tell" => tr = None \/ "db" \in faults
  BY <1>1 DEF LoopInv, LoopOK, LoopTypes, InWork, FilerOK, WorkFile, Waiting
<1>3. K!Current' = K!Current /\ K!At' = K!At
  BY <1>1 DEF K!Current, K!At
<1>4. PICK k \in DOMAIN Input : k = K!At
  BY <1>2
<1>5. Input[k] = K!Current
  BY <1>4 DEF K!Current
<1>6. /\ answers' \in [DOMAIN Input -> SUBSET {"ok", "error"}]
      /\ \A j \in DOMAIN Input : answers[j] \subseteq answers'[j]
      /\ \A j \in DOMAIN Input : "ok" \in answers'[j] => "ok" \in answers[j] \/ (j = k /\ kpc = "send")
      /\ kpc' # "exited" => answers'[k] # {}
  <2>1. answers \in [DOMAIN Input -> SUBSET {"ok", "error"}]
    BY DEF LoopInv, LoopTypes
  <2>2. PICK w \in {"ok", "error"} : w = K!Said /\ (w = "ok" => kpc = "send")
    BY DEF K!Said
  <2>3. answers' = answers \/ answers' = [answers EXCEPT ![k] = @ \cup {w}]
    BY <1>1, <1>4, <2>2
  <2>4. kpc' # "exited" => answers' = [answers EXCEPT ![k] = @ \cup {w}]
    BY <1>1, <1>4, <2>2
  <2>5. QED
    BY <2>1, <2>2, <2>3, <2>4
<1>7. LoopTypes'
  BY <1>1, <1>6 DEF LoopInv, LoopTypes
<1>8. LoopOK'
  BY <1>1, <1>2, <1>3, <1>4, <1>6, Nones DEF LoopOK, InWork, Alone
<1>9. WorkFile'
  BY <1>1, <1>2, <1>3, Nones DEF WorkFile, Waiting
<1>10. AnswersOK'
  <2> SUFFICES ASSUME NEW j \in DOMAIN Input, Input[j] \in Msg
               PROVE  /\ j <= offset' => answers'[j] # {}
                      /\ "ok" \in answers'[j] => db'[Input[j]] # None
    BY DEF AnswersOK
  <2>1. j <= offset => answers[j] # {}
    BY DEF LoopInv, AnswersOK
  <2>2. "ok" \in answers[j] => db[Input[j]] # None
    BY DEF LoopInv, AnswersOK
  <2>3. QED
    BY <1>1, <1>2, <1>5, <1>6, <2>1, <2>2
<1>11. ASSUME NEW n \in Msg PROVE FileOK(n)'
  BY <1>1, <1>3 DEF LoopInv, FilerOK, FileOK, Alone
<1>12. ASSUME NEW id \in Id PROVE AskedFor(id)'
  BY <1>1 DEF LoopInv, AskedOK, AskedFor, Asked, Alone
<1>13. QED
  BY <1>7, <1>8, <1>9, <1>10, <1>11, <1>12 DEF LoopInv, FilerOK, AskedOK

\* It removes the working file after the answer.
LEMMA FileIsDeleted == ASSUME LoopInv, Alone, K!DeleteFile PROVE LoopInv'
<1>1. UNCHANGED <<offset, db, answers, external>> /\ kpc = "unfile"
  BY DEF K!DeleteFile
<1>2. /\ tr \in Id /\ K!Current \in Msg /\ K!At \in DOMAIN Input
      /\ external[tr] \in DOMAIN Input /\ Input[external[tr]] = K!Current /\ reply[tr] = 200
      /\ answers[K!At] # {} /\ ("db" \in faults \/ db[K!Current] # None)
  BY <1>1 DEF LoopInv, LoopOK, LoopTypes, InWork
<1>3. PICK m \in Msg : m = K!Current
  BY <1>2
<1>4. K!Current' = m /\ K!At' = K!At
  BY <1>1, <1>3 DEF K!Current, K!At
<1>5. CASE kpc' \in {"commit", "delete"} /\ UNCHANGED <<tr, outcome, faults>>
           /\ filer' = [filer EXCEPT ![m] = None]
  <2>1. filer'[m] = None
    BY <1>5 DEF LoopInv, LoopTypes
  <2>2. LoopOK'
    <3>1. kpc' \in {"commit", "delete"} /\ UNCHANGED <<tr, outcome, faults>>
      BY <1>5
    <3>2. K!Current' = K!Current
      BY <1>3, <1>4
    <3>3. QED
      BY <1>1, <1>2, <1>4, <3>1, <3>2, Nones DEF LoopOK, InWork, Alone
  <2>3. WorkFile'
    BY <1>4, <1>5, <2>1, Nones DEF WorkFile, Waiting
  <2>4. FileOK(m)'
    BY <2>1, Nones DEF FileOK
  <2>5. filer' \in [Msg -> Id \cup {"empty", None}] /\ \A n \in Msg \ {m} : filer'[n] = filer[n]
    BY <1>5 DEF LoopInv, LoopTypes
  <2>6. QED
    BY <1>1, <1>5, <2>2, <2>3, <2>4, <2>5, FileChanges
<1>6. CASE K!Exit /\ UNCHANGED filer /\ faults \subseteq faults'
  BY <1>1, <1>6, LoopExits DEF K!Exit, Alone
<1>7. QED
  <2>1. \/ kpc' \in {"commit", "delete"} /\ UNCHANGED <<tr, outcome, faults>>
           /\ filer' = [filer EXCEPT ![K!Current] = None]
        \/ K!Exit /\ UNCHANGED filer /\ faults \subseteq faults'
    BY FaultGrows DEF K!DeleteFile
  <2>2. QED
    BY <1>3, <1>5, <1>6, <2>1

\* The cleaning it asked for has an answer.
LEMMA DeletedKeeps == ASSUME LoopInv, Alone, K!DeleteFails \/ K!Deleted PROVE LoopInv'
<1>1. /\ UNCHANGED <<offset, tr, outcome, filer, db, answers, external>>
      /\ kpc \in {"delete", "deleting"} /\ kpc' = "commit" /\ faults \subseteq faults'
  BY FaultGrows DEF K!DeleteFails, K!Deleted, K!Goto
<1>2. /\ K!Current \in Msg /\ K!At \in DOMAIN Input /\ tr \in Id
      /\ external[tr] \in DOMAIN Input /\ Input[external[tr]] = K!Current
      /\ reply[tr] = 200 /\ filer[K!Current] = None /\ answers[K!At] # {}
  BY <1>1 DEF LoopInv, LoopOK, LoopTypes, InWork, FilerOK, WorkFile, Waiting
<1>3. K!Current' = K!Current /\ K!At' = K!At
  BY <1>1 DEF K!Current, K!At
<1>4. LoopOK'
  BY <1>1, <1>2, <1>3 DEF LoopOK, InWork, Alone
<1>5. WorkFile'
  BY <1>1, <1>2, <1>3, Nones DEF WorkFile, Waiting
<1>6. QED
  BY <1>1, <1>4, <1>5, LoopMoves DEF LoopInv, LoopTypes, Alone

\* It commits a message that was answered and has no working file left.
LEMMA CommitKeeps == ASSUME LoopInv, Alone, K!Commit PROVE LoopInv'
<1>1. /\ UNCHANGED <<filer, db, answers, external>> /\ kpc = "commit" /\ tr' = None /\ outcome' = None
      /\ \/ offset' = offset + 1 /\ kpc' = "poll" /\ UNCHANGED faults
         \/ kpc' = "exited" /\ UNCHANGED offset /\ faults \subseteq faults'
  BY FaultGrows DEF K!Commit
<1>2. CASE UNCHANGED offset /\ kpc' = "exited" /\ faults \subseteq faults'
  BY <1>1, <1>2, LoopExits DEF Alone
<1>3. CASE offset' = offset + 1 /\ kpc' = "poll" /\ UNCHANGED faults
  <2>1. LoopTypes'
    BY <1>1, <1>3 DEF LoopInv, LoopTypes
  <2>2. LoopOK' /\ WorkFile'
    BY <1>1, <1>3, Nones DEF LoopOK, WorkFile, InWork, Waiting
  <2>3. K!Current \in Msg => answers[K!At] # {} /\ ("status" \in faults \/ filer[K!Current] \notin Id)
    BY <1>1 DEF LoopInv, LoopOK, FilerOK, WorkFile
  <2>4. AnswersOK'
    <3> SUFFICES ASSUME NEW j \in DOMAIN Input, Input[j] \in Msg
                 PROVE  /\ j <= offset' => answers'[j] # {}
                        /\ "ok" \in answers'[j] => db'[Input[j]] # None
      BY DEF AnswersOK
    <3>1. j <= offset + 1 => j <= offset \/ j = offset + 1
      BY IntegrationAssumption DEF LoopInv, LoopTypes
    <3>2. QED
      BY <1>1, <1>3, <2>3, <3>1 DEF LoopInv, AnswersOK, K!Current, K!At
  <2>5. ASSUME NEW n \in Msg PROVE FileOK(n)'
    <3>1. CASE "status" \in faults
      BY <1>1, <1>3, <3>1 DEF LoopInv, FilerOK, FileOK, Alone
    <3>2. CASE "status" \notin faults
      <4>1. ~(filer[n] \in Id)
        BY <2>3, <3>2 DEF LoopInv, FilerOK, FileOK, K!Current, K!At
      <4>2. QED
        BY <1>1, <4>1 DEF FileOK
    <3>3. QED
      BY <3>1, <3>2
  <2>6. ASSUME NEW id \in Id PROVE AskedFor(id)'
    BY <1>1, <1>3 DEF LoopInv, AskedOK, AskedFor, Asked, Alone
  <2>7. QED
    BY <2>1, <2>2, <2>4, <2>5, <2>6 DEF LoopInv, FilerOK, AskedOK
<1>4. QED
  BY <1>1, <1>2, <1>3

\* It is started again.
LEMMA RestartKeeps == ASSUME LoopInv, Alone, K!Restart PROVE LoopInv'
<1>1. /\ UNCHANGED <<offset, tr, outcome, filer, db, answers, external, faults>>
      /\ kpc = "exited" /\ kpc' = "poll"
  BY DEF K!Restart, K!Goto
<1>2. tr = None
  BY <1>1 DEF LoopInv, LoopOK
<1>3. LoopOK' /\ WorkFile'
  BY <1>1, <1>2, Nones DEF LoopOK, WorkFile, InWork, Waiting
<1>4. QED
  BY <1>1, <1>3, LoopMoves DEF LoopInv, LoopTypes, Alone

\* It dies.
LEMMA CrashKeeps == ASSUME LoopInv, Alone, K!KafkaCrash PROVE LoopInv'
<1>1. /\ UNCHANGED <<offset, filer, db, answers, external>> /\ faults \subseteq faults'
      /\ kpc' = "exited" /\ tr' = None /\ outcome' = None
  BY FaultGrows DEF K!KafkaCrash, K!Exit
<1>2. QED
  BY <1>1, LoopExits DEF Alone

\* So every step of the loop keeps LoopInv.
LEMMA LoopKeeps == ASSUME LoopInv, Alone, K!Loop PROVE LoopInv'
  BY PollKeeps, FindKeeps, AudioKeeps, UploadedKeeps, WorkingKeeps, StatusKeeps, ResultKeeps,
     SaveKeeps, SendKeeps, FileIsDeleted, DeletedKeeps, CommitKeeps, RestartKeeps DEF K!Loop

\* A new upload: its id was never used.
LEMMA PostKeeps == ASSUME UploadInv, CleanInv, LoopInv, KafkaUpload PROVE LoopInv'
<1>1. PICK id \in Id : id = NewId
  BY KafkaUploadIs
<1>2. /\ upc[id] = "free" /\ kpc = "upload" /\ kpc' = "posted" /\ tr' = id
      /\ external' = [external EXCEPT ![id] = K!At] /\ upc' = [upc EXCEPT ![id] = "check"]
      /\ UNCHANGED <<offset, outcome, filer, db, answers, reply, cleaning, cleanReply, faults>>
  BY <1>1, KafkaUploadIs DEF cleanVars, shared
<1>3. /\ K!Current \in Msg /\ K!At \in DOMAIN Input /\ filer[K!Current] \notin Id /\ K!At \in Nat
      /\ external \in [Id -> Nat]
  BY <1>2 DEF LoopInv, LoopOK, LoopTypes, InWork, FilerOK, WorkFile, K!At
<1>4. K!Current' = K!Current /\ K!At' = K!At /\ K!Current = Input[K!At]
  BY <1>2 DEF K!Current, K!At
<1>5. external' \in [Id -> Nat] /\ external'[id] = K!At /\ \A b \in Id \ {id} : external'[b] = external[b]
  BY <1>2, <1>3
<1>6. reply[id] = None /\ ~Asked(id)
  <2>1. reply[id] = None
    BY <1>2 DEF UploadInv, UploadOK
  <2>2. Asked(id) => upc[id] = "done"
    BY DEF LoopInv, AskedOK, AskedFor
  <2>3. QED
    BY <1>2, <2>1, <2>2
<1>7. LoopTypes'
  BY <1>2, <1>5 DEF LoopInv, LoopTypes
<1>8. LoopOK'
  BY <1>2, <1>3, <1>4, <1>5, <1>6, Nones DEF LoopOK, InWork
<1>9. WorkFile'
  BY <1>2, <1>3, <1>4, Nones DEF WorkFile, Waiting
<1>10. AnswersOK'
  BY <1>2 DEF LoopInv, AnswersOK
<1>11. ASSUME NEW m \in Msg PROVE FileOK(m)'
  <2>1. filer[m] \in Id => filer[m] # id
    BY <1>6, Nones DEF LoopInv, FilerOK, FileOK
  <2>2. filer[m] \in Id => external'[filer[m]] = external[filer[m]]
    BY <1>5, <2>1
  <2>3. QED
    BY <1>2, <1>4, <2>2 DEF LoopInv, FilerOK, FileOK
<1>12. ASSUME NEW b \in Id PROVE AskedFor(b)'
  <2>1. CASE b = id
    BY <1>2, <1>6, <2>1 DEF AskedFor, Asked
  <2>2. CASE b # id
    <3>1. upc'[b] = upc[b] /\ external'[b] = external[b] /\ tr' # b
      BY <1>2, <1>5, <2>2 DEF UploadInv, UploadTypes
    <3>2. QED
      BY <1>2, <3>1 DEF LoopInv, AskedOK, AskedFor, Asked
  <2>3. QED
    BY <2>1, <2>2
<1>13. QED
  BY <1>7, <1>8, <1>9, <1>10, <1>11, <1>12 DEF LoopInv, FilerOK, AskedOK

\* The cleaning is asked for of an id that no working file has.
LEMMA AskKeeps == ASSUME UploadInv, CleanInv, LoopInv, KafkaDelete PROVE LoopInv'
<1>1. PICK id \in Id : id = tr
  BY KafkaDeleteIs
<1>2. /\ kpc = "delete" /\ kpc' = "deleting"
      /\ UNCHANGED <<offset, tr, outcome, filer, db, answers, external, reply, upc, faults>>
      /\ cleaning' = [cleaning EXCEPT ![id] = id] /\ cleanReply' = [cleanReply EXCEPT ![id] = None]
  BY <1>1, KafkaDeleteIs
<1>3. /\ K!Current \in Msg /\ K!At \in DOMAIN Input /\ filer[K!Current] = None
      /\ external[id] \in DOMAIN Input /\ Input[external[id]] = K!Current /\ reply[id] = 200
      /\ answers[K!At] # {} /\ ("db" \in faults \/ db[K!Current] # None)
  BY <1>1, <1>2, Nones DEF LoopInv, LoopOK, LoopTypes, InWork, FilerOK, WorkFile
<1>4. K!Current' = K!Current /\ K!At' = K!At
  BY <1>2 DEF K!Current, K!At
<1>5. LoopTypes' /\ AnswersOK'
  BY <1>2 DEF LoopInv, LoopTypes, AnswersOK
<1>6. LoopOK'
  BY <1>1, <1>2, <1>3, <1>4, Nones DEF LoopOK, InWork
<1>7. WorkFile'
  BY <1>1, <1>2, <1>3, <1>4, Nones DEF WorkFile, Waiting
<1>8. \A b \in Id \ {id} : cleaning'[b] = cleaning[b] /\ cleanReply'[b] = cleanReply[b]
  BY <1>2 DEF CleanInv, CleanTypes, C!Cleaner
<1>9. ASSUME NEW m \in Msg PROVE FileOK(m)'
  <2>1. filer[m] # id
    <3>1. CASE m = K!Current
      BY <1>3, <3>1, Nones
    <3>2. CASE m # K!Current
      BY <1>3, <3>2 DEF LoopInv, FilerOK, FileOK
    <3>3. QED
      BY <3>1, <3>2
  <2>2. filer[m] \in Id => cleaning'[filer[m]] = cleaning[filer[m]] /\ cleanReply'[filer[m]] = cleanReply[filer[m]]
    BY <1>8, <2>1
  <2>3. QED
    BY <1>2, <1>4, <2>2 DEF LoopInv, FilerOK, FileOK
<1>10. ASSUME NEW b \in Id PROVE AskedFor(b)'
  <2>1. CASE b = id
    <3>1. upc[id] = "done"
      BY <1>3, Nones DEF UploadInv, UploadOK
    <3>2. QED
      BY <1>2, <1>3, <2>1, <3>1 DEF AskedFor, Asked
  <2>2. CASE b # id
    BY <1>2, <1>8, <2>2 DEF LoopInv, AskedOK, AskedFor, Asked
  <2>3. QED
    BY <2>1, <2>2
<1>11. QED
  BY <1>5, <1>6, <1>7, <1>9, <1>10 DEF LoopInv, FilerOK, AskedOK

\* Every step of the system keeps LoopInv.
LEMMA LoopGoesOn == UploadInv /\ DataInv /\ CleanInv /\ LoopInv /\ [Next]_vars => LoopInv'
<1> SUFFICES ASSUME UploadInv, DataInv, CleanInv, LoopInv, [Next]_vars PROVE LoopInv'
  OBVIOUS
<1>1. CASE KafkaStep
  BY <1>1, LoopKeeps DEF KafkaStep, Alone, uploadVars, cleanVars
<1>2. CASE KafkaCrash
  BY <1>2, CrashKeeps DEF KafkaCrash, Alone, uploadVars, cleanVars
<1>3. CASE KafkaUpload
  BY <1>3, PostKeeps
<1>4. CASE KafkaDelete
  BY <1>4, AskKeeps
<1>5. ASSUME NEW id \in Id, UploadStep(id) PROVE LoopInv'
  <2>1. U!Handle(id) /\ UNCHANGED <<kpc, offset, tr, outcome, filer, db, answers, external>>
        /\ UNCHANGED <<cleaning, cleanReply>>
    BY <1>5 DEF UploadStep, kafkaVars, cleanVars
  <2>2. reply[id] = None /\ upc[id] # "done" /\ faults \subseteq faults'
    <3>1. upc[id] # "done" /\ faults \subseteq faults'
      BY <2>1, HandleIs DEF DataInv
    <3>2. QED
      BY <3>1 DEF UploadInv, UploadOK
  <2>3. \A b \in Id \ {id} : upc'[b] = upc[b] /\ reply'[b] = reply[b]
    BY <2>1, HandleIs DEF DataInv
  <2>4. QED
    BY <2>1, <2>2, <2>3, LoopStays, Nones
<1>6. CASE UploadCrash
  <2>1. U!UploadCrash /\ UNCHANGED <<kpc, offset, tr, outcome, filer, db, answers, external>>
        /\ UNCHANGED <<cleaning, cleanReply>>
    BY <1>6 DEF UploadCrash, kafkaVars, cleanVars
  <2>2. faults \subseteq faults' /\ \A b \in Id : upc[b] = "done" => upc'[b] = "done" /\ reply'[b] = reply[b]
    BY <2>1, UploadCrashIs
  <2>3. \A b \in Id : reply[b] = 200 => upc[b] = "done"
    BY Nones DEF UploadInv, UploadOK
  <2>4. QED
    BY <2>1, <2>2, <2>3, LoopStays
<1>7. ASSUME NEW c \in C!Cleaner, CleanStep(c) PROVE LoopInv'
  <2>1. UNCHANGED <<kpc, offset, tr, outcome, filer, db, answers, external, reply, upc>>
        /\ (C!Job(c) \/ C!Cleaned(c))
    BY <1>7 DEF CleanStep, kafkaVars, uploadVars
  <2>2. faults \subseteq faults'
    BY <2>1, CleanFaults
  <2>3. ASSUME NEW b \in Id, cleaning'[b] # None \/ cleanReply'[b] # None
        PROVE  cleaning[b] # None \/ cleanReply[b] # None
    <3>1. CASE C!Job(c)
      BY <2>3, <3>1 DEF C!Job
    <3>2. CASE C!Cleaned(c)
      <4>1. cleaning[c] # None /\ cleaning' = [cleaning EXCEPT ![c] = None]
        BY <3>2 DEF C!Cleaned
      <4>2. CASE b = c
        BY <4>1, <4>2
      <4>3. CASE b # c
        <5>1. cleaning'[b] = cleaning[b]
          BY <4>1, <4>3 DEF CleanInv, CleanTypes, C!Cleaner
        <5>2. cleanReply'[b] = cleanReply[b]
          BY <3>2, <4>3, CleanedReply
        <5>3. QED
          BY <2>3, <5>1, <5>2
      <4>4. QED
        BY <4>2, <4>3
    <3>3. QED
      BY <2>1, <3>1, <3>2
  <2>4. QED
    BY <2>1, <2>2, <2>3, LoopStays
<1>8. CASE TimerStep
  <2>1. UNCHANGED <<kpc, offset, tr, outcome, filer, db, answers, external, reply, upc>> /\ C!Timer
    BY <1>8 DEF TimerStep, kafkaVars, uploadVars
  <2>2. faults \subseteq faults'
    BY <2>1, CleanFaults
  <2>3. cleanReply' = cleanReply /\ \A b \in Id : cleaning'[b] = cleaning[b]
    <3>1. cleanReply' = cleanReply /\ (cleaning' = cleaning \/ \E x : cleaning' = [cleaning EXCEPT !["timer"] = x])
      BY <2>1 DEF C!Timer, C!Tick, C!ReadPage, C!QueryFails, C!CleanNext, C!Begin
    <3>2. QED
      BY <3>1, Nones DEF CleanInv, CleanTypes, C!Cleaner
  <2>4. QED
    BY <2>1, <2>2, <2>3, LoopStays
<1>9. CASE CleanCrash
  <2>1. UNCHANGED <<kpc, offset, tr, outcome, filer, db, answers, external, reply, upc>> /\ C!CleanCrash
    BY <1>9 DEF CleanCrash, kafkaVars, uploadVars
  <2>2. /\ faults \subseteq faults' /\ \A b \in Id : cleaning'[b] = None
        /\ \A b \in Id : cleanReply'[b] # None => cleaning[b] # None \/ cleanReply[b] # None
    BY <2>1, CleanCrashIs DEF C!Cleaner
  <2>3. QED
    BY <2>1, <2>2, LoopStays
<1>10. ASSUME NEW id \in Id, Expire(id) PROVE LoopInv'
  BY <1>10, ExpireIs, LoopStays DEF kafkaVars, uploadVars, cleanVars
<1>11. CASE (\E id \in Id : Finish(id)) \/ UNCHANGED vars
  <2>1. UNCHANGED <<kpc, offset, tr, outcome, filer, db, answers, external, faults, reply, upc,
                    cleaning, cleanReply>>
    BY <1>11 DEF Finish, vars, kafkaVars, uploadVars, cleanVars, shared
  <2>2. QED
    BY <2>1, LoopStays
<1>12. QED
  BY <1>1, <1>2, <1>3, <1>4, <1>5, <1>6, <1>7, <1>8, <1>9, <1>10, <1>11 DEF Next
-----------------------------------------------------------------------------
\* What was sent was posted.
LEMMA SentIsPosted == ASSUME UploadInv, NEW id \in Id, sent[id] # None PROVE upc[id] # "free"
  BY DEF UploadInv, UploadOK, Unsent

\* A step that leaves the uploads and the places of the loop keeps StartOK.
LEMMA StartStays ==
    ASSUME StartOK, UNCHANGED <<offset, external, sent, upc, filer>>, faults \subseteq faults',
           kpc \in {"posted", "create", "mark"} => kpc' \in {"posted", "create", "mark"} /\ tr' = tr,
           kpc = "posted" => kpc' = "posted" \/ \A id \in Id : ~U!Busy(id),
           kpc \in {"delete", "deleting", "commit"} => kpc' \in {"delete", "deleting", "commit"}
    PROVE  StartOK'
<1>1. K!At' = K!At /\ K!Current' = K!Current
  BY DEF K!Current, K!At
<1>2. (\A id \in Id : upc[id] # "free" => external[id] <= K!At)'
  BY <1>1 DEF StartOK
<1>3. ASSUME faults' \cap Blind = {}
      PROVE  (/\ \A id \in Id : U!Busy(id) => kpc = "posted" /\ tr = id
              /\ \A id \in Id : sent[id] # None /\ external[id] = K!At => Tracked(id)
              /\ StartedOnce)'
  <2>1. faults \cap Blind = {}
    BY <1>3
  <2>2. \A id \in Id : U!Busy(id)' = U!Busy(id)
    BY DEF U!Busy
  <2>3. (\A id \in Id : U!Busy(id) => kpc = "posted" /\ tr = id)'
    BY <2>1, <2>2 DEF StartOK
  <2>4. (\A id \in Id : sent[id] # None /\ external[id] = K!At => Tracked(id))'
    BY <1>1, <2>1 DEF StartOK, Tracked
  <2>5. StartedOnce'
    BY <2>1 DEF StartOK, StartedOnce
  <2>6. QED
    BY <2>3, <2>4, <2>5
<1>4. QED
  BY <1>2, <1>3 DEF StartOK

\* A blind fault ends what the service knows of its uploads.
LEMMA StartBlind ==
    ASSUME StartOK, UNCHANGED <<offset, external>>, faults' \cap Blind # {},
           \A id \in Id : upc'[id] # "free" => upc[id] # "free"
    PROVE  StartOK'
<1>1. K!At' = K!At
  BY DEF K!At
<1>2. QED
  BY <1>1 DEF StartOK

\* An upload that is not accepted, with no blind fault, has sent nothing.
LEMMA StartUploaded == ASSUME UploadInv, LoopInv, StartOK, Alone, UNCHANGED sent, K!Uploaded PROVE StartOK'
<1>1. /\ UNCHANGED <<offset, filer, db, answers, external, faults>> /\ kpc = "posted" /\ reply[tr] # None
      /\ \/ kpc' = "create" /\ UNCHANGED <<tr, outcome>> /\ reply[tr] = 200
         \/ reply[tr] # 200
  BY DEF K!Uploaded, K!CannotStart
<1>2. PICK id \in Id : id = tr
  BY <1>1 DEF LoopInv, LoopOK, LoopTypes
<1>3. upc[id] = "done"
  BY <1>1, <1>2 DEF UploadInv, UploadOK
<1>4. faults \cap Blind = {} => \A b \in Id : ~U!Busy(b)
  BY <1>1, <1>2, <1>3 DEF StartOK, U!Busy
<1>5. K!At' = K!At /\ K!Current' = K!Current
  BY <1>1 DEF K!Current, K!At
<1>6. faults \cap Blind = {} /\ reply[tr] # 200 => sent[id] = None
  BY <1>1, <1>2 DEF UploadInv, UploadOK
<1>7. (\A b \in Id : upc[b] # "free" => external[b] <= K!At)'
  BY <1>1, <1>5 DEF StartOK, Alone
<1>8. ASSUME faults' \cap Blind = {}
      PROVE  (/\ \A b \in Id : U!Busy(b) => kpc = "posted" /\ tr = b
              /\ \A b \in Id : sent[b] # None /\ external[b] = K!At => Tracked(b)
              /\ StartedOnce)'
  <2>1. faults \cap Blind = {}
    BY <1>1, <1>8
  <2>2. \A b \in Id : U!Busy(b)' = U!Busy(b)
    BY DEF U!Busy, Alone
  <2>3. (\A b \in Id : U!Busy(b) => kpc = "posted" /\ tr = b)'
    BY <1>4, <2>1, <2>2
  <2>4. ASSUME NEW b \in Id, sent'[b] # None, external'[b] = K!At' PROVE Tracked(b)'
    <3>1. Tracked(b)
      BY <1>1, <1>5, <2>1, <2>4 DEF StartOK
    <3>2. CASE b = id
      BY <1>1, <1>2, <1>6, <2>1, <2>4, <3>2 DEF Tracked
    <3>3. CASE b # id
      BY <1>1, <1>2, <1>5, <3>1, <3>3 DEF Tracked
    <3>4. QED
      BY <3>2, <3>3
  <2>5. StartedOnce'
    BY <1>1, <2>1 DEF StartOK, StartedOnce
  <2>6. QED
    BY <2>3, <2>4, <2>5
<1>9. QED
  BY <1>7, <1>8 DEF StartOK

\* The id in work goes to the working file.
LEMMA StartWorking == ASSUME UploadInv, LoopInv, StartOK, Alone, UNCHANGED sent, K!SetWorking PROVE StartOK'
<1>1. UNCHANGED <<offset, db, answers, external>> /\ kpc \in {"create", "mark"}
  BY DEF K!SetWorking
<1>2. tr \in Id /\ K!Current \in Msg /\ filer[K!Current] \notin Id
  BY <1>1 DEF LoopInv, LoopOK, LoopTypes, InWork, FilerOK, WorkFile
<1>3. PICK m \in Msg : m = K!Current
  BY <1>2
<1>4. K!Current' = m /\ K!At' = K!At
  BY <1>1, <1>3 DEF K!Current, K!At
<1>5. \/ kpc' = "mark" /\ UNCHANGED <<tr, faults>>
      \/ kpc' = "listen" /\ UNCHANGED <<tr, faults>> /\ filer' = [filer EXCEPT ![m] = tr]
      \/ "mark" \in faults'
  BY <1>3, FaultGrows DEF K!SetWorking
<1>6. CASE "mark" \in faults'
  <2>1. faults' \cap Blind # {}
    BY <1>6 DEF Blind
  <2>2. QED
    BY <1>1, <2>1, StartBlind DEF Alone
<1>7. CASE (kpc' = "mark" \/ (kpc' = "listen" /\ filer'[m] = tr)) /\ UNCHANGED <<tr, faults>>
  <2>1. (\A b \in Id : upc[b] # "free" => external[b] <= K!At)'
    BY <1>1, <1>4 DEF StartOK, Alone
  <2>2. ASSUME faults' \cap Blind = {}
        PROVE  (/\ \A b \in Id : U!Busy(b) => kpc = "posted" /\ tr = b
                /\ \A b \in Id : sent[b] # None /\ external[b] = K!At => Tracked(b)
                /\ StartedOnce)'
    <3>1. faults \cap Blind = {}
      BY <1>7, <2>2
    <3>2. \A b \in Id : U!Busy(b)' = U!Busy(b)
      BY DEF U!Busy, Alone
    <3>3. (\A b \in Id : U!Busy(b) => kpc = "posted" /\ tr = b)'
      BY <1>1, <3>1, <3>2 DEF StartOK
    <3>4. ASSUME NEW b \in Id, sent'[b] # None, external'[b] = K!At' PROVE Tracked(b)'
      <4>1. Tracked(b)
        BY <1>1, <1>4, <3>1, <3>4 DEF StartOK
      <4>2. b = tr
        BY <1>1, <1>2, <4>1 DEF Tracked
      <4>3. QED
        BY <1>3, <1>4, <1>7, <4>2 DEF Tracked
    <3>5. StartedOnce'
      BY <1>1, <3>1 DEF StartOK, StartedOnce
    <3>6. QED
      BY <3>3, <3>4, <3>5
  <2>3. QED
    BY <2>1, <2>2 DEF StartOK
<1>8. QED
  <2>1. filer' = [filer EXCEPT ![m] = tr] => filer'[m] = tr
    BY DEF LoopInv, LoopTypes
  <2>2. QED
    BY <1>5, <1>6, <1>7, <2>1

\* The file goes when the loop does not upload for this message any more.
LEMMA StartDeleteFile == ASSUME LoopInv, StartOK, Alone, UNCHANGED sent, K!DeleteFile PROVE StartOK'
<1>1. UNCHANGED <<offset, external>> /\ kpc = "unfile" /\ faults \subseteq faults'
  BY FaultGrows DEF K!DeleteFile
<1>2. K!Current' = K!Current /\ K!At' = K!At
  BY <1>1 DEF K!Current, K!At
<1>3. kpc' \in {"commit", "delete"} \/ UNCHANGED filer
  BY DEF K!DeleteFile
<1>4. (\A b \in Id : upc[b] # "free" => external[b] <= K!At)'
  BY <1>1, <1>2 DEF StartOK, Alone
<1>5. ASSUME faults' \cap Blind = {}
      PROVE  (/\ \A b \in Id : U!Busy(b) => kpc = "posted" /\ tr = b
              /\ \A b \in Id : sent[b] # None /\ external[b] = K!At => Tracked(b)
              /\ StartedOnce)'
  <2>1. faults \cap Blind = {}
    BY <1>1, <1>5
  <2>2. \A b \in Id : U!Busy(b)' = U!Busy(b)
    BY DEF U!Busy, Alone
  <2>3. (\A b \in Id : U!Busy(b) => kpc = "posted" /\ tr = b)'
    BY <1>1, <2>1, <2>2 DEF StartOK
  <2>4. ASSUME NEW b \in Id, sent'[b] # None, external'[b] = K!At' PROVE Tracked(b)'
    <3>1. Tracked(b)
      BY <1>1, <1>2, <2>1, <2>4 DEF StartOK
    <3>2. QED
      BY <1>1, <1>2, <1>3, <3>1 DEF Tracked
  <2>5. StartedOnce'
    BY <1>1, <2>1 DEF StartOK, StartedOnce
  <2>6. QED
    BY <2>3, <2>4, <2>5
<1>6. QED
  BY <1>4, <1>5 DEF StartOK

\* After the commit nothing was uploaded for the next message yet.
LEMMA StartCommit == ASSUME UploadInv, LoopInv, StartOK, Alone, UNCHANGED sent, K!Commit PROVE StartOK'
<1>1. /\ UNCHANGED <<filer, external>> /\ kpc = "commit"
      /\ \/ offset' = offset + 1 /\ UNCHANGED faults
         \/ UNCHANGED offset /\ "commit" \in faults'
  BY FaultGrows DEF K!Commit
<1>2. CASE UNCHANGED offset /\ "commit" \in faults'
  <2>1. faults' \cap Blind # {}
    BY <1>2 DEF Blind
  <2>2. QED
    BY <1>1, <1>2, <2>1, StartBlind DEF Alone
<1>3. CASE offset' = offset + 1 /\ UNCHANGED faults
  <2>1. /\ offset \in Nat /\ external \in [Id -> Nat] /\ K!At = offset + 1 /\ K!At' = offset + 2
    BY <1>3 DEF LoopInv, LoopTypes, K!At
  <2>2. ASSUME NEW b \in Id, upc[b] # "free" PROVE external[b] <= offset + 1
    BY <2>1, <2>2 DEF StartOK
  <2>3. (\A b \in Id : upc[b] # "free" => external[b] <= K!At)'
    <3> SUFFICES ASSUME NEW b \in Id, upc'[b] # "free" PROVE external'[b] <= K!At'
      OBVIOUS
    <3>1. external[b] \in Nat /\ external[b] <= offset + 1
      BY <2>1, <2>2 DEF Alone
    <3>2. QED
      BY <1>1, <2>1, <3>1
  <2>4. ASSUME NEW b \in Id, sent'[b] # None, external'[b] = K!At' PROVE FALSE
    <3>1. upc[b] # "free"
      BY <2>4, SentIsPosted
    <3>2. external[b] \in Nat /\ external[b] <= offset + 1 /\ external[b] = offset + 2
      BY <1>1, <2>1, <2>2, <2>4, <3>1
    <3>3. QED
      BY <2>1, <3>2
  <2>5. ASSUME faults' \cap Blind = {}
        PROVE  (/\ \A b \in Id : U!Busy(b) => kpc = "posted" /\ tr = b
                /\ StartedOnce)'
    <3>1. faults \cap Blind = {}
      BY <1>3, <2>5
    <3>2. \A b \in Id : ~U!Busy(b)
      BY <1>1, <3>1 DEF StartOK
    <3>3. \A b \in Id : ~U!Busy(b)'
      BY <3>2 DEF U!Busy, Alone
    <3>4. StartedOnce'
      BY <1>1, <3>1 DEF StartOK, StartedOnce
    <3>5. QED
      BY <3>3, <3>4
  <2>6. QED
    BY <2>3, <2>4, <2>5 DEF StartOK
<1>4. QED
  BY <1>1, <1>2, <1>3

\* So every step of the loop keeps StartOK.
LEMMA StartLoop == ASSUME UploadInv, LoopInv, StartOK, Alone, UNCHANGED sent, K!Loop PROVE StartOK'
<1>1. faults \subseteq faults'
  BY KafkaFaults
<1>2. CASE K!Poll \/ K!Find \/ K!GetAudio \/ K!GetStatus \/ K!GetResult \/ K!SaveResult \/ K!Send
           \/ K!Restart
  <2>1. /\ UNCHANGED <<offset, external, filer>>
        /\ kpc \in {"poll", "find", "audio", "listen", "result", "save", "send", "tell", "exited"}
    BY <1>2 DEF K!Poll, K!Find, K!GetAudio, K!GetStatus, K!GetResult, K!SaveResult, K!Send, K!Restart, K!Goto
  <2>2. QED
    BY <1>1, <2>1, StartStays DEF Alone
<1>3. CASE K!DeleteFails \/ K!Deleted
  <2>1. UNCHANGED <<offset, external, filer>> /\ kpc \in {"delete", "deleting"} /\ kpc' = "commit"
    BY <1>3 DEF K!DeleteFails, K!Deleted, K!Goto
  <2>2. QED
    BY <1>1, <2>1, StartStays DEF Alone
<1>4. QED
  BY <1>2, <1>3, StartUploaded, StartWorking, StartDeleteFile, StartCommit DEF K!Loop

\* The loop uploads when it knows of no transcription of the message.
LEMMA StartPost == ASSUME UploadInv, LoopInv, StartOK, KafkaUpload PROVE StartOK'
<1>1. PICK id \in Id : id = NewId
  BY KafkaUploadIs
<1>2. /\ upc[id] = "free" /\ kpc = "upload" /\ kpc' = "posted" /\ tr' = id
      /\ external' = [external EXCEPT ![id] = K!At] /\ upc' = [upc EXCEPT ![id] = "check"]
      /\ UNCHANGED <<offset, filer, sent, faults>>
  BY <1>1, KafkaUploadIs DEF shared
<1>3. K!At \in Nat /\ external \in [Id -> Nat] /\ sent[id] = None
  BY <1>2, SentIsPosted DEF LoopInv, LoopTypes, K!At
<1>4. K!At' = K!At /\ K!Current' = K!Current
  BY <1>2 DEF K!Current, K!At
<1>5. external'[id] = K!At /\ \A b \in Id \ {id} : external'[b] = external[b] /\ upc'[b] = upc[b]
  BY <1>2, <1>3 DEF UploadInv, UploadTypes
<1>6. (\A b \in Id : upc[b] # "free" => external[b] <= K!At)'
  BY <1>3, <1>4, <1>5 DEF StartOK
<1>7. ASSUME faults' \cap Blind = {}
      PROVE  (/\ \A b \in Id : U!Busy(b) => kpc = "posted" /\ tr = b
              /\ \A b \in Id : sent[b] # None /\ external[b] = K!At => Tracked(b)
              /\ StartedOnce)'
  <2>1. faults \cap Blind = {}
    BY <1>2, <1>7
  <2>2. ASSUME NEW b \in Id, b # id PROVE ~U!Busy(b)'
    <3>1. ~U!Busy(b)
      BY <1>2, <2>1 DEF StartOK
    <3>2. QED
      BY <1>5, <2>2, <3>1 DEF U!Busy
  <2>3. ASSUME NEW b \in Id, sent'[b] # None, external'[b] = K!At' PROVE Tracked(b)'
    <3>1. b # id /\ sent[b] # None /\ external[b] = K!At
      BY <1>2, <1>3, <1>4, <1>5, <2>3
    <3>2. Tracked(b)
      BY <2>1, <3>1 DEF StartOK
    <3>3. QED
      BY <1>2, <1>4, <3>2 DEF Tracked
  <2>4. StartedOnce'
    <3> SUFFICES ASSUME NEW a \in Id, NEW b \in Id, sent'[a] # None, sent'[b] # None,
                        external'[a] = external'[b]
                 PROVE  a = b
      BY DEF StartedOnce
    <3>1. a # id /\ b # id
      BY <1>2, <1>3
    <3>2. QED
      BY <1>2, <1>5, <2>1, <3>1 DEF StartOK, StartedOnce
  <2>5. QED
    BY <1>2, <2>2, <2>3, <2>4
<1>8. QED
  BY <1>6, <1>7 DEF StartOK

\* The upload in work is the only one that can still send.
LEMMA StartUpload ==
    ASSUME UploadInv, DataInv, LoopInv, StartOK, NEW id \in Id, UploadStep(id) PROVE StartOK'
<1>1. U!Handle(id) /\ UNCHANGED <<kpc, offset, tr, filer, external>>
  BY DEF UploadStep, kafkaVars
<1>2. /\ faults \subseteq faults' /\ upc[id] \notin {"free", "done"}
      /\ \A b \in Id \ {id} : upc'[b] = upc[b] /\ sent'[b] = sent[b]
  BY <1>1, HandleIs DEF DataInv
<1>3. K!At' = K!At /\ K!Current' = K!Current
  BY <1>1 DEF K!Current, K!At
<1>4. (\A b \in Id : upc[b] # "free" => external[b] <= K!At)'
  BY <1>1, <1>2, <1>3 DEF StartOK
<1>5. ASSUME faults' \cap Blind = {}
      PROVE  (/\ \A b \in Id : U!Busy(b) => kpc = "posted" /\ tr = b
              /\ \A b \in Id : sent[b] # None /\ external[b] = K!At => Tracked(b)
              /\ StartedOnce)'
  <2>1. faults \cap Blind = {}
    BY <1>2, <1>5
  <2>2. kpc = "posted" /\ tr = id
    BY <1>2, <2>1 DEF StartOK, U!Busy
  <2>3. external[id] = K!At /\ K!Current \in Msg /\ filer[K!Current] \notin Id
    BY <2>2, Nones DEF LoopInv, LoopOK, InWork, FilerOK, WorkFile
  <2>4. ASSUME NEW b \in Id, b # id PROVE ~U!Busy(b)'
    <3>1. ~U!Busy(b)
      BY <2>1, <2>2, <2>4 DEF StartOK
    <3>2. QED
      BY <1>2, <2>4, <3>1 DEF U!Busy
  <2>5. ASSUME NEW b \in Id, sent[b] # None, external[b] = K!At PROVE b = id
    <3>1. Tracked(b)
      BY <2>1, <2>5 DEF StartOK
    <3>2. QED
      BY <2>2, <2>3, <3>1 DEF Tracked
  <2>6. ASSUME NEW b \in Id, sent'[b] # None, external'[b] = K!At' PROVE Tracked(b)'
    <3>1. b = id
      BY <1>1, <1>2, <1>3, <2>5, <2>6
    <3>2. QED
      BY <1>1, <2>2, <3>1 DEF Tracked
  <2>7. StartedOnce'
    <3> SUFFICES ASSUME NEW a \in Id, NEW b \in Id, sent'[a] # None, sent'[b] # None,
                        external'[a] = external'[b]
                 PROVE  a = b
      BY DEF StartedOnce
    <3>1. CASE a # id /\ b # id
      BY <1>1, <1>2, <2>1, <3>1 DEF StartOK, StartedOnce
    <3>2. CASE a # id /\ b = id
      BY <1>1, <1>2, <2>3, <2>5, <3>2
    <3>3. CASE a = id /\ b # id
      BY <1>1, <1>2, <2>3, <2>5, <3>3
    <3>4. QED
      BY <3>1, <3>2, <3>3
  <2>8. QED
    BY <1>1, <2>2, <2>4, <2>6, <2>7
<1>6. QED
  BY <1>4, <1>5 DEF StartOK

\* Every step of the system keeps StartOK.
LEMMA StartGoesOn ==
    UploadInv /\ DataInv /\ CleanInv /\ LoopInv /\ StartOK /\ [Next]_vars => StartOK'
<1> SUFFICES ASSUME UploadInv, DataInv, CleanInv, LoopInv, StartOK, [Next]_vars PROVE StartOK'
  OBVIOUS
<1>1. CASE KafkaStep
  BY <1>1, StartLoop DEF KafkaStep, Alone, uploadVars, cleanVars
<1>2. CASE KafkaCrash \/ UploadCrash
  <2>1. UNCHANGED <<offset, external>>
    BY <1>2 DEF KafkaCrash, K!KafkaCrash, UploadCrash, kafkaVars
  <2>2. faults' \cap Blind # {}
    <3>1. "crash" \in faults' \/ "uploadcrash" \in faults'
      BY <1>2, FaultGrows DEF KafkaCrash, K!KafkaCrash, UploadCrash, U!UploadCrash
    <3>2. QED
      BY <3>1 DEF Blind
  <2>3. \A b \in Id : upc'[b] # "free" => upc[b] # "free"
    <3>1. CASE KafkaCrash
      BY <3>1 DEF KafkaCrash, uploadVars
    <3>2. CASE UploadCrash
      BY <3>2, UploadCrashIs DEF UploadCrash
    <3>3. QED
      BY <1>2, <3>1, <3>2
  <2>4. QED
    BY <2>1, <2>2, <2>3, StartBlind
<1>3. CASE KafkaUpload
  BY <1>3, StartPost
<1>4. CASE KafkaDelete
  BY <1>4, KafkaDeleteIs, StartStays
<1>5. ASSUME NEW id \in Id, UploadStep(id) PROVE StartOK'
  BY <1>5, StartUpload
<1>6. CASE \/ \E c \in C!Cleaner : CleanStep(c)
           \/ TimerStep \/ CleanCrash \/ \E id \in Id : Expire(id)
           \/ (\E id \in Id : Finish(id)) \/ UNCHANGED vars
  <2>1. UNCHANGED <<offset, external, sent, upc, filer, kpc, tr>>
    BY <1>6 DEF CleanStep, TimerStep, CleanCrash, Expire, Finish, vars, kafkaVars, uploadVars
  <2>2. faults \subseteq faults'
    BY <1>6, CleanFaults DEF CleanStep, TimerStep, CleanCrash, Expire, Finish, vars, shared
  <2>3. QED
    BY <2>1, <2>2, StartStays
<1>7. QED
  BY <1>1, <1>2, <1>3, <1>4, <1>5, <1>6 DEF Next

\* The loop waits for a transcription of the message in work: it posted that one
\* itself, or read it from a working file that no failed status call left.
LEMMA OwnGoesOn == LoopInv /\ CleanInv /\ AnswersItsOwn /\ [Next]_vars => AnswersItsOwn'
<1> SUFFICES ASSUME LoopInv, CleanInv, AnswersItsOwn, [Next]_vars PROVE AnswersItsOwn'
  OBVIOUS
<1>1. CASE KafkaUpload
  <2>1. PICK id \in Id : id = NewId
    BY <1>1, KafkaUploadIs
  <2>2. tr' = id /\ external' = [external EXCEPT ![id] = K!At] /\ K!At' = K!At
    BY <1>1, <2>1, KafkaUploadIs DEF K!At
  <2>3. external'[id] = K!At
    BY <2>2 DEF LoopInv, LoopTypes
  <2>4. QED
    BY <2>2, <2>3 DEF AnswersItsOwn
<1>2. CASE KafkaStep
  <2>1. CASE K!Find
    <3>1. /\ kpc = "find" /\ UNCHANGED <<offset, external, faults>>
          /\ tr' = tr \/ tr' = filer[K!Current]
      BY <2>1 DEF K!Find, K!Goto
    <3>2. K!Current \in Msg /\ FileOK(K!Current) /\ filer[K!Current] \in Id \cup {"empty", None}
      BY <3>1 DEF LoopInv, LoopOK, LoopTypes, InWork, FilerOK
    <3>3. tr' = tr \/ tr' \in Id \cup {None}
      <4>1. (kpc' = "exited" /\ tr' = tr) \/ (tr' = filer[K!Current] /\ filer[K!Current] # "empty")
        BY <2>1 DEF K!Find, K!Goto, K!Empty
      <4>2. QED
        BY <3>2, <4>1
    <3>4. K!At' = K!At
      BY <3>1 DEF K!At
    <3>5. QED
      BY <3>1, <3>2, <3>3, <3>4, Nones DEF AnswersItsOwn, FileOK
  <2>2. CASE K!Commit
    BY <2>2 DEF K!Commit, AnswersItsOwn
  <2>3. CASE K!Loop /\ ~K!Find /\ ~K!Commit
    <3>1. UNCHANGED <<offset, external>> /\ (tr' = tr \/ tr' = None)
      BY <2>3 DEF K!Loop, K!Poll, K!GetAudio, K!Uploaded, K!SetWorking, K!GetStatus, K!GetResult,
         K!SaveResult, K!Send, K!DeleteFile, K!DeleteFails, K!Deleted, K!Restart, K!Goto, K!Exit,
         K!CannotStart
    <3>2. faults \subseteq faults'
      BY <2>3, KafkaFaults
    <3>3. K!At' = K!At
      BY <3>1 DEF K!At
    <3>4. QED
      BY <3>1, <3>2, <3>3 DEF AnswersItsOwn
  <2>4. QED
    BY <1>2, <2>1, <2>2, <2>3 DEF KafkaStep
<1>3. CASE KafkaCrash
  BY <1>3 DEF KafkaCrash, K!KafkaCrash, K!Exit, AnswersItsOwn
<1>4. CASE KafkaDelete
  <2>1. UNCHANGED <<offset, external, tr, faults>>
    BY <1>4, KafkaDeleteIs
  <2>2. QED
    BY <2>1 DEF AnswersItsOwn, K!At
<1>5. CASE ~(KafkaUpload \/ KafkaStep \/ KafkaCrash \/ KafkaDelete)
  <2>1. UNCHANGED <<offset, external, tr>>
    BY <1>5 DEF Next, UploadStep, UploadCrash, CleanStep, TimerStep, CleanCrash, Expire, Finish, vars, kafkaVars
  <2>2. faults \subseteq faults'
    <3>1. U!UploadCrash => faults \subseteq faults'
      BY FaultGrows DEF U!UploadCrash
    <3>2. \A id \in Id : U!Handle(id) => faults \subseteq faults'
      BY FaultGrows DEF U!Handle, U!Check, U!SaveRequest, U!SaveStatus, U!SaveFile, U!Send, U!Reply, U!Fail, U!Goes
    <3>3. QED
      BY <1>5, <3>1, <3>2, CleanFaults DEF Next, UploadStep, UploadCrash, CleanStep, TimerStep, CleanCrash,
         Expire, Finish, vars, shared
  <2>3. QED
    BY <2>1, <2>2 DEF AnswersItsOwn, K!At
<1>6. QED
  BY <1>1, <1>2, <1>3, <1>4, <1>5

-----------------------------------------------------------------------------
\* All of it holds at first.
LEMMA InitIs == Init => UploadInv /\ DataInv /\ CleanInv /\ LoopInv /\ StartOK /\ AnswersItsOwn
<1> SUFFICES ASSUME Init PROVE UploadInv /\ DataInv /\ CleanInv /\ LoopInv /\ StartOK /\ AnswersItsOwn
  OBVIOUS
<1> USE DEF Init, U!Init, C!Init, K!Init
<1>1. UploadInv
  BY Nones DEF UploadInv, UploadTypes, UploadOK, Unsent
<1>2. Range(requests) = {}
  BY DEF Range
<1>3. DataInv
  BY <1>2 DEF DataInv, DataTypes, DataOK
<1>4. CleanInv
  <2>1. list \in Seq(expired)
    OBVIOUS
  <2>2. CleanTypes
    BY <2>1 DEF CleanTypes
  <2>3. CleanOK
    BY Nones DEF CleanOK, C!Cleaner
  <2>4. QED
    BY <2>2, <2>3 DEF CleanInv
<1>5. LoopTypes
  BY DEF LoopTypes
<1>6. DOMAIN Input \subseteq Nat \ {0}
  BY IntegrationAssumption
<1>7. LoopOK /\ WorkFile
  BY Nones DEF LoopOK, WorkFile, InWork, Waiting
<1>8. AnswersOK
  BY <1>6 DEF AnswersOK
<1>9. (\A m \in Msg : FileOK(m)) /\ AskedOK
  BY Nones DEF FileOK, AskedOK, AskedFor, Asked, C!Cleaner
<1>10. LoopInv
  BY <1>5, <1>7, <1>8, <1>9 DEF LoopInv, FilerOK
<1>11. StartOK /\ AnswersItsOwn
  BY <1>1 DEF StartOK, StartedOnce, AnswersItsOwn, U!Busy, UploadInv, UploadOK
<1>12. QED
  BY <1>1, <1>3, <1>4, <1>10, <1>11

\* Every reachable state has the invariant: the upload handlers, the stored data, the
\* cleanings, the loop with its working files, and the uploads of the message in work.
THEOREM Integrated ==
    Spec => [](UploadInv /\ DataInv /\ CleanInv /\ LoopInv /\ StartOK /\ AnswersItsOwn)
<1>1. /\ UploadInv /\ DataInv /\ CleanInv /\ LoopInv /\ StartOK /\ AnswersItsOwn
      /\ [Next]_vars
      => (UploadInv /\ DataInv /\ CleanInv /\ LoopInv /\ StartOK /\ AnswersItsOwn)'
  BY UploadGoesOn, DataGoesOn, CleanGoesOn, LoopGoesOn, StartGoesOn, OwnGoesOn DEF DataInv
<1>2. QED
  BY <1>1, InitIs, PTL DEF Spec

\* Whatever fails and whenever the integration dies, a committed message was
\* answered, and a message answered without an error has its result in the file
\* storage (processMsg, saveSendResults).
THEOREM CommittedWasAnswered == Spec => []CommittedIsAnswered
<1>1. LoopInv => CommittedIsAnswered
  BY DEF LoopInv, AnswersOK, CommittedIsAnswered
<1>2. QED
  BY <1>1, Integrated, PTL

\* Of a message at most one transcription is started, except where the code cannot
\* know of the first, and the loop waits for one made for the message in work and
\* not for an earlier message of the same audio (upload, filer.Find).
THEOREM EachHasItsOwn == Spec => []OneForEach
<1>1. StartOK => StartedOnce
  BY DEF StartOK, StartedOnce
<1>2. StartOK /\ AnswersItsOwn => OneForEach
  BY <1>1 DEF OneForEach
<1>3. QED
  BY <1>2, Integrated, PTL

\* The integration has nothing cleaned that a working file points to, and nothing
\* completed whose result is not saved (listenTranscription, tr.Delete).
THEOREM CleanedWasDone == Spec => []CleanedIsDone
<1>1. LoopInv => WorkingIsNotCleaned
  BY DEF LoopInv, FilerOK, FileOK, WorkingIsNotCleaned
<1>2. LoopInv => CleanedIsSaved
  BY DEF LoopInv, AskedOK, AskedFor, Asked, CleanedIsSaved
<1>3. QED
  BY <1>1, <1>2, Integrated, PTL DEF CleanedIsDone

\* Whatever is stored of a transcription has a request record that the timer can
\* find, or a cleaning at work on it, unless a job failed, a cleaning died or the
\* transcription ended after its cleaning began (clean jobs, timer).
THEOREM NothingIsLeft == Spec => []NothingIsOrphaned
<1>1. DataInv => NothingIsOrphaned
  BY DEF DataInv, DataOK, NothingIsOrphaned
<1>2. QED
  BY <1>1, Integrated, PTL

\* A step takes data only of an id that is old or has a cleaning.
LEMMA OnlyOldIsErased ==
    UploadInv /\ DataInv /\ CleanInv /\ LoopInv /\ [Next]_vars =>
        \A id \in Id : store[id] \subseteq store'[id] \/ id \in expired \/ cleaning[id] # None
<1> SUFFICES ASSUME UploadInv, DataInv, CleanInv, LoopInv, [Next]_vars, NEW id \in Id
             PROVE  store[id] \subseteq store'[id] \/ id \in expired \/ cleaning[id] # None
  OBVIOUS
<1>1. ASSUME NEW c \in C!Cleaner, CleanStep(c)
      PROVE  store[id] \subseteq store'[id] \/ id \in expired \/ cleaning[id] # None
  <2>1. CASE C!Cleaned(c)
    BY <2>1 DEF C!Cleaned
  <2>2. CASE C!Job(c)
    <3>1. PICK x \in Id : x = cleaning[c]
      BY <2>2 DEF C!Job, CleanInv, CleanTypes
    <3>2. C!Erase(x, C!Jobs[job[c]]) \/ UNCHANGED store
      BY <2>2, <3>1 DEF C!Job
    <3>3. id # x => store'[id] = store[id]
      BY <3>2, EraseIs DEF DataInv
    <3>4. x \in expired \/ cleaning[x] # None
      BY <3>1, Nones DEF CleanInv, CleanOK, C!Cleaner
    <3>5. QED
      BY <3>3, <3>4
  <2>3. QED
    BY <1>1, <2>1, <2>2 DEF CleanStep
<1>2. ASSUME NEW b \in Id, UploadStep(b) PROVE store[id] \subseteq store'[id]
  <2>1. U!Handle(b)
    BY <1>2 DEF UploadStep
  <2>2. store[b] \subseteq store'[b] /\ \A a \in Id \ {b} : store'[a] = store[a]
    BY <2>1, HandleIs DEF DataInv
  <2>3. QED
    BY <2>2
<1>3. ASSUME NEW b \in Id, Finish(b) PROVE store[id] \subseteq store'[id]
  <2>1. \E more : store' = [store EXCEPT ![b] = @ \cup more]
    BY <1>3 DEF Finish
  <2>2. QED
    BY <2>1 DEF DataInv, DataTypes
<1>4. CASE \/ KafkaStep \/ KafkaCrash \/ KafkaUpload \/ KafkaDelete \/ UploadCrash \/ TimerStep
           \/ CleanCrash \/ (\E b \in Id : Expire(b)) \/ UNCHANGED vars
  <2>1. UNCHANGED store
    BY <1>4 DEF KafkaStep, KafkaCrash, KafkaUpload, KafkaDelete, UploadCrash, U!UploadCrash, TimerStep,
       C!Timer, C!Tick, C!ReadPage, C!QueryFails, C!CleanNext, CleanCrash, C!CleanCrash, Expire, C!Expire,
       shared, vars
  <2>2. QED
    BY <2>1
<1>5. QED
  BY <1>1, <1>2, <1>3, <1>4 DEF Next

\* Data is never taken of an id that is not old and has no cleaning of its own
\* (cleanRecord, cleanFile, the timer's query).
THEOREM FreshStays == Spec => FreshIsKept
<1>1. UploadInv /\ DataInv /\ CleanInv /\ LoopInv /\ [Next]_vars =>
          [\A id \in Id :
              \/ store[id] \subseteq store'[id]
              \/ id \in expired
              \/ cleaning[id] # None]_vars
  BY OnlyOldIsErased
<1>2. QED
  BY <1>1, Integrated, PTL DEF Spec, FreshIsKept
=============================================================================
