------------------------------- MODULE Clean --------------------------------
(***************************************************************************)
(* The cleaning service.  A cleaning of an id runs a list of jobs, one per *)
(* file pattern and one per collection, and goes on when one of them       *)
(* fails.  Cleanings are started by DELETE requests and by the timer,      *)
(* which reads the expired ids page by page from the request collection    *)
(* while the others delete from it.                                        *)
(***************************************************************************)
EXTENDS Naturals, Sequences, FiniteSets, SequencesExt

CONSTANTS
    Id,
    Patterns,       \* what the configured file patterns stand for, in order
    PageSize,       \* records in a page: 10 in the code
    Expiring,       \* the ids that may grow old within a behaviour
    Faults, MaxFaults, None

VARIABLES
    cleaning,       \* the id a cleaner works on: the handler of an id, "timer"
    job,            \* its next job
    failed,         \* its jobs that failed
    tpc,            \* where the timer's loop is
    skip,           \* the records it has read
    list,           \* the ids it has found and not cleaned yet
    cleanReply,     \* the answer to the DELETE of an id
    expired,        \* the ids whose _id is older than the expire duration
    requests, store, faults

\* In place of a code: the connection was lost before the answer.
Lost == 0

cleanVars == <<cleaning, job, failed, tpc, skip, list, cleanReply>>

Fault(kind) ==
    /\ kind \in Faults \ faults
    /\ Cardinality(faults) < MaxFaults
    /\ faults' = faults \cup {kind}

Cleaner == Id \cup {"timer"}

\* Mutant of Jobs: a collection is forgotten.
JobsButStatus == Patterns \o <<"result", "emailLock", "request", "work">>

\* newCleanerImpl: the files first, then NewCleanRecords.
Jobs == Patterns \o <<"status", "result", "emailLock", "request", "work">>

-----------------------------------------------------------------------------
Init ==
    /\ cleaning = [c \in Cleaner |-> None]
    /\ job = [c \in Cleaner |-> 1]
    /\ failed = [c \in Cleaner |-> 0]
    /\ tpc = "wait"
    /\ skip = 0
    /\ list = <<>>
    /\ cleanReply = [id \in Id |-> None]
    /\ expired = {}

Begin(c, id) ==
    /\ cleaning' = [cleaning EXCEPT ![c] = id]
    /\ job' = [job EXCEPT ![c] = 1]
    /\ failed' = [failed EXCEPT ![c] = 0]

\* A client sends DELETE for an id and waits for the answer.
Delete(id) ==
    /\ cleaning[id] = None
    /\ Begin(id, id)
    /\ cleanReply' = [cleanReply EXCEPT ![id] = None]
    /\ UNCHANGED <<tpc, skip, list>>

(***************************************************************************)
(* One job of a cleaning.  A job that fails leaves its data and is counted;*)
(* the cleaning goes on.  An id has one request record, as it is upserted. *)
(***************************************************************************)
Erase(id, what) ==
    /\ store' = [store EXCEPT ![id] = @ \ {what}]
    /\ requests' = IF what = "request" THEN RemoveFirst(requests, id) ELSE requests

Job(c) ==
    /\ cleaning[c] # None
    /\ job[c] <= Len(Jobs)
    /\ \/ /\ Erase(cleaning[c], Jobs[job[c]])
          /\ UNCHANGED <<failed, faults>>
       \/ /\ Fault("job")
          /\ failed' = [failed EXCEPT ![c] = @ + 1]
          /\ UNCHANGED <<store, requests>>
    /\ job' = [job EXCEPT ![c] = @ + 1]
    /\ UNCHANGED <<cleaning, tpc, skip, list, cleanReply, expired>>

\* The cleaning is an error only when every job failed.
Cleaned(c) ==
    /\ cleaning[c] # None
    /\ job[c] > Len(Jobs)
    /\ cleaning' = [cleaning EXCEPT ![c] = None]
    /\ cleanReply' =
           IF c = "timer" THEN cleanReply
           ELSE [cleanReply EXCEPT ![c] = IF failed[c] = Len(Jobs) THEN 500 ELSE 200]
    /\ job' = [job EXCEPT ![c] = 1]
    /\ failed' = [failed EXCEPT ![c] = 0]
    /\ UNCHANGED <<tpc, skip, list, expired, requests, store, faults>>

-----------------------------------------------------------------------------
\* The first run is at start, then one every hour; those that would find
\* nothing are left out.
Tick ==
    /\ tpc = "wait"
    /\ requests # <<>>
    /\ Head(requests) \in expired
    /\ tpc' = "read"
    /\ skip' = 0
    /\ list' = <<>>
    /\ UNCHANGED <<cleaning, job, failed, cleanReply, expired, requests, store, faults>>

(***************************************************************************)
(* A page of the request collection, sorted by _id: the expired ids at its *)
(* front are found; the first that is not expired ends the reading, and so *)
(* does a page that goes past what was found.                              *)
(***************************************************************************)
Page == SubSeq(requests, skip + 1, Min({skip + PageSize, Len(requests)}))

\* Mutant of FirstFresh: the age of the records is not looked at.
NoneFresh == 0

FirstFresh == SelectInSeq(Page, LAMBDA r : r \notin expired)

Old == IF FirstFresh = 0 THEN Page ELSE SubSeq(Page, 1, FirstFresh - 1)

ReadPage ==
    /\ tpc = "read"
    /\ list' = list \o Old
    /\ IF FirstFresh # 0 \/ skip + PageSize > Len(list')
       THEN tpc' = "clean" /\ skip' = 0
       ELSE tpc' = "read" /\ skip' = skip + PageSize
    /\ UNCHANGED <<cleaning, job, failed, cleanReply, expired, requests, store, faults>>

\* The query fails: the error is logged and nothing is cleaned.
QueryFails ==
    /\ tpc = "read"
    /\ Fault("query")
    /\ tpc' = "wait"
    /\ list' = <<>>
    /\ skip' = 0
    /\ UNCHANGED <<cleaning, job, failed, cleanReply, expired, requests, store>>

CleanNext ==
    /\ tpc = "clean"
    /\ cleaning["timer"] = None
    /\ IF list = <<>>
       THEN tpc' = "wait" /\ UNCHANGED <<cleaning, job, failed, list>>
       ELSE /\ Begin("timer", Head(list))
            /\ list' = Tail(list)
            /\ UNCHANGED tpc
    /\ UNCHANGED <<skip, cleanReply, expired, requests, store, faults>>

\* The service dies: its cleanings stop where they are.
CleanCrash ==
    /\ \E c \in Cleaner : cleaning[c] # None
    /\ Fault("cleancrash")
    /\ cleanReply' = [id \in Id |-> IF cleaning[id] # None THEN Lost
                                                           ELSE cleanReply[id]]
    /\ cleaning' = [c \in Cleaner |-> None]
    /\ job' = [c \in Cleaner |-> 1]
    /\ failed' = [c \in Cleaner |-> 0]
    /\ tpc' = "wait"
    /\ list' = <<>>
    /\ skip' = 0
    /\ UNCHANGED <<expired, requests, store>>

\* Time passes: records grow old in the order they were made.
Expire(id) ==
    /\ \E k \in DOMAIN requests :
          /\ requests[k] = id
          /\ id \in Expiring \ expired
          /\ \A j \in 1..(k - 1) : requests[j] \in expired
    /\ expired' = expired \cup {id}
    /\ UNCHANGED <<cleanVars, requests, store, faults>>

Timer == Tick \/ ReadPage \/ QueryFails \/ CleanNext
=============================================================================
