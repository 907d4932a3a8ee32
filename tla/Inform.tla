------------------------------- MODULE Inform -------------------------------
(***************************************************************************)
(* The inform service: replicas that take inform messages one at a time,   *)
(* prepare the mail, lock it in the emailLock collection, send it and      *)
(* unlock it, and settle the delivery.  The collection has no unique index *)
(* on its key, so that two upserts at once may insert two records.         *)
(***************************************************************************)
EXTENDS Naturals, Sequences, FiniteSets

CONSTANTS
    Delivery,       \* the messages of the Inform queue
    MailOf,         \* the mail a message is about, None when it is malformed
    Replica,
    Faults, MaxFaults, None

VARIABLES
    dstate, redelivered,   \* the broker's view of a delivery
    ipc,            \* where a replica is
    cur,            \* the delivery it works on
    held,           \* the broker still waits for it to settle cur
    value,          \* unlockValue
    locks,          \* the status fields of the lock records of a mail
    mails,          \* how many times a mail was sent
    faults

informVars == <<dstate, redelivered, ipc, cur, held, value, locks, mails>>

Fault(kind) ==
    /\ kind \in Faults \ faults
    /\ Cardinality(faults) < MaxFaults
    /\ faults' = faults \cup {kind}

\* A replica has a connection of its own, which holds cur until it is settled.
Holders(d) == {r \in Replica : held[r] /\ cur[r] = d}

HolderOf(d) == IF Holders(d) = {} THEN None ELSE CHOOSE r \in Holders(d) : TRUE

Consumer == INSTANCE Consumer WITH
    Connection <- Replica, Nobody <- None,
    holder <- [d \in Delivery |-> HolderOf(d)], losses <- faults

Mail == {MailOf[d] : d \in Delivery} \ {None}

-----------------------------------------------------------------------------
Init ==
    /\ dstate = [d \in Delivery |-> "queued"]
    /\ redelivered = [d \in Delivery |-> FALSE]
    /\ ipc = [r \in Replica |-> "idle"]
    /\ cur = [r \in Replica |-> None]
    /\ held = [r \in Replica |-> FALSE]
    /\ value = [r \in Replica |-> 0]
    /\ locks = [m \in Mail |-> <<>>]
    /\ mails = [m \in Mail |-> 0]

Goto(r, pc) == ipc' = [ipc EXCEPT ![r] = pc]

MailAt(r) == MailOf[cur[r]]

\* Qos(1): a replica that works on a message gets no other.
Deliver(r, d) ==
    /\ ipc[r] = "idle"
    /\ dstate[d] = "queued"
    /\ dstate' = [dstate EXCEPT ![d] = "unacked"]
    /\ cur' = [cur EXCEPT ![r] = d]
    /\ held' = [held EXCEPT ![r] = TRUE]
    /\ Goto(r, IF MailOf[d] = None THEN "discard" ELSE "prepare")
    /\ UNCHANGED <<redelivered, value, locks, mails, faults>>

\* emailRetriever.Get and emailMaker.Make.
Prepare(r) ==
    /\ ipc[r] = "prepare"
    /\ \/ Goto(r, "look") /\ UNCHANGED faults
       \/ Fault("prepare") /\ Goto(r, "nack")
    /\ UNCHANGED <<dstate, redelivered, cur, held, value, locks, mails>>

(***************************************************************************)
(* Locker.Lock: make sure that there is a record, by an upsert that looks  *)
(* and then inserts, and take a record that is free; having none is an     *)
(* error.  A call that gives an error may have been done all the same, and *)
(* nobody unlocks after an error.                                          *)
(***************************************************************************)
LockFault(r, after) ==
    /\ Fault("lock")
    /\ locks' \in {locks, after}
    /\ Goto(r, "nack")

Look(r) ==
    /\ ipc[r] = "look"
    /\ \/ /\ Goto(r, IF locks[MailAt(r)] = <<>> THEN "insert" ELSE "lock")
          /\ UNCHANGED <<locks, faults>>
       \/ LockFault(r, locks)
    /\ UNCHANGED <<dstate, redelivered, cur, held, value, mails>>

Inserted(r) == [locks EXCEPT ![MailAt(r)] = Append(@, 0)]

Insert(r) ==
    /\ ipc[r] = "insert"
    /\ \/ /\ locks' = Inserted(r)
          /\ Goto(r, "lock")
          /\ UNCHANGED faults
       \/ LockFault(r, Inserted(r))
    /\ UNCHANGED <<dstate, redelivered, cur, held, value, mails>>

\* The first record of the mail that has the status.
Records(m, st) == {k \in DOMAIN locks[m] : locks[m][k] = st}

FirstWith(m, st) == CHOOSE k \in Records(m, st) : \A j \in Records(m, st) : k <= j

Taken(r) ==
    IF Records(MailAt(r), 0) = {} THEN locks
    ELSE [locks EXCEPT ![MailAt(r)][FirstWith(MailAt(r), 0)] = 1]

\* Mutant of Lock: the status of the record is not in the filter.
LockAny(r) ==
    /\ ipc[r] = "lock"
    /\ locks' = [locks EXCEPT ![MailAt(r)][1] = 1]
    /\ Goto(r, "send")
    /\ UNCHANGED <<dstate, redelivered, cur, held, value, mails, faults>>

Lock(r) ==
    /\ ipc[r] = "lock"
    /\ \/ /\ locks' = Taken(r)
          /\ Goto(r, IF Records(MailAt(r), 0) # {} THEN "send" ELSE "nack")
          /\ UNCHANGED faults
       \/ LockFault(r, Taken(r))
    /\ UNCHANGED <<dstate, redelivered, cur, held, value, mails>>

\* The mail is sent, or the server gives an error, when it may have taken
\* the mail all the same.
Send(r) ==
    /\ ipc[r] = "send"
    /\ Goto(r, "unlock")
    /\ \/ /\ mails' = [mails EXCEPT ![MailAt(r)] = @ + 1]
          /\ value' = [value EXCEPT ![r] = 2]
          /\ UNCHANGED faults
       \/ /\ Fault("send")
          /\ mails' \in {mails, [mails EXCEPT ![MailAt(r)] = @ + 1]}
          /\ value' = [value EXCEPT ![r] = 0]
    /\ UNCHANGED <<dstate, redelivered, cur, held, locks>>

\* The deferred UnLock, whose error nobody looks at.
UnLock(r) ==
    /\ ipc[r] = "unlock"
    /\ \/ /\ locks' = IF Records(MailAt(r), 1) = {} THEN locks
                      ELSE [locks EXCEPT ![MailAt(r)][FirstWith(MailAt(r), 1)] = value[r]]
          /\ UNCHANGED faults
       \/ Fault("unlock") /\ UNCHANGED locks
    /\ Goto(r, IF value[r] = 2 THEN "ack" ELSE "nack")
    /\ value' = [value EXCEPT ![r] = 0]
    /\ UNCHANGED <<dstate, redelivered, cur, held, mails>>

\* Mutant of Settled: a message is put back again and again.
SettledAgain(r) ==
    CASE ipc[r] = "ack" -> "acked"
      [] ipc[r] = "nack" -> "queued"
      [] OTHER -> "discarded"

\* try redeliver for the first time
Settled(r) ==
    CASE ipc[r] = "ack" -> "acked"
      [] ipc[r] = "nack" /\ ~redelivered[cur[r]] -> "queued"
      [] OTHER -> "discarded"

\* Ack or Nack; a replica whose connection is lost settles nothing.
Settle(r) ==
    /\ ipc[r] \in {"ack", "nack", "discard"}
    /\ IF held[r]
       THEN /\ dstate' = [dstate EXCEPT ![cur[r]] = Settled(r)]
            /\ redelivered' = [redelivered EXCEPT ![cur[r]] = @ \/ dstate'[cur[r]] = "queued"]
       ELSE UNCHANGED <<dstate, redelivered>>
    /\ Goto(r, "idle")
    /\ cur' = [cur EXCEPT ![r] = None]
    /\ held' = [held EXCEPT ![r] = FALSE]
    /\ UNCHANGED <<value, locks, mails, faults>>

Requeue(r) ==
    /\ dstate' = [dstate EXCEPT ![cur[r]] = "queued"]
    /\ redelivered' = [redelivered EXCEPT ![cur[r]] = TRUE]

\* The connection of a replica is lost: the message goes back to the queue
\* and the replica goes on with it, then stops and is started again.
Disconnect(r) ==
    /\ held[r]
    /\ Fault("connection")
    /\ Requeue(r)
    /\ held' = [held EXCEPT ![r] = FALSE]
    /\ UNCHANGED <<ipc, cur, value, locks, mails>>

InformCrash(r) ==
    /\ cur[r] # None
    /\ Fault("crash")
    /\ IF held[r] THEN Requeue(r) ELSE UNCHANGED <<dstate, redelivered>>
    /\ Goto(r, "idle")
    /\ cur' = [cur EXCEPT ![r] = None]
    /\ held' = [held EXCEPT ![r] = FALSE]
    /\ value' = [value EXCEPT ![r] = 0]
    /\ UNCHANGED <<locks, mails>>

Work(r) ==
    \/ \E d \in Delivery : Deliver(r, d)
    \/ Prepare(r) \/ Look(r) \/ Insert(r) \/ Lock(r) \/ Send(r) \/ UnLock(r)
    \/ Settle(r)

Next == \E r \in Replica : Work(r) \/ Disconnect(r) \/ InformCrash(r)

-----------------------------------------------------------------------------
\* No mail is sent twice ("It is used to quarantee not to send the emails
\* twice", service.go), unless the server took a mail it gave an error for.
SentOnce == \A m \in Mail : "send" \notin faults => mails[m] <= 1

\* With one lock record for it a mail is sent once, whatever is delivered twice,
\* put back, lost or crashes, and whichever call of the locker fails.
MailedOnce ==
    \A m \in Mail :
        "send" \notin faults /\ Len(locks[m]) <= 1 => mails[m] <= 1

\* What may leave a lock taken with nobody to open it.
Leaving == faults \cap {"lock", "unlock", "crash"}

\* A mail is never lost while its lock is free: when all messages about it
\* are settled, it was sent, or its lock stays taken by a sending that an
\* error or a crash left open, or an attempt failed and another fault had
\* used up its redelivery.
SilentIsLocked ==
    \A m \in Mail :
        \/ mails[m] > 0
        \/ \E d \in Delivery : MailOf[d] = m /\ dstate[d] \notin {"acked", "discarded"}
        \/ \E r \in Replica : cur[r] # None /\ MailAt(r) = m
        \/ Records(m, 1) # {} /\ Leaving # {}
        \/ faults \cap {"prepare", "send", "lock"} # {} /\ Cardinality(faults) > 1

\* A lock that is taken belongs to a replica that sends, but for one that each
\* error of Lock or UnLock and each crash may have left.
TakenLockHasOwner ==
    \A m \in Mail :
        LET owners == Cardinality({r \in Replica :
                          ipc[r] \in {"send", "unlock"} /\ MailAt(r) = m})
        IN  Cardinality(Records(m, 1)) \in owners .. owners + Cardinality(Leaving)

\* The locks do what they are for: no mail twice, none lost, none locked by
\* nobody.
LocksWork == MailedOnce /\ SilentIsLocked /\ TakenLockHasOwner
=============================================================================
