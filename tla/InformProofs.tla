---------------------------- MODULE InformProofs ----------------------------
\* Proofs about the inform service: LocksDoTheirWork. Its invariant has three
\* layers. BaseInv says what a replica that works on a message has, and that no two
\* replicas hold the same message. MailInv counts, per mail, the records of its
\* lock against the replicas that took them, and follows a mail that was sent.
\* HopeInv is about the faults one at a time: with no fault, or only a failed
\* preparation, a failed sending or a failed call of Lock, a mail that is not sent
\* can still be sent by somebody, or the failed call left its lock taken. When the system runs another of its parts, this one rests.
EXTENDS ServicesProofs

\* The instance of Inform counts as FiniteSets does.
LEMMA MailsCardinality == ASSUME NEW S PROVE Mails!Cardinality(S) = Cardinality(S)
  BY DEF Mails!Cardinality, Cardinality

\* Where a replica is while it works on a message about a mail.
OnMail == {"prepare", "look", "insert", "lock", "send", "unlock", "ack", "nack"}

\* Types.
InformTypes ==
    /\ dstate \in [Delivery -> {"queued", "unacked", "acked", "discarded"}]
    /\ redelivered \in [Delivery -> BOOLEAN]
    /\ ipc \in [Replica -> OnMail \cup {"idle", "discard"}]
    /\ cur \in [Replica -> Delivery \cup {None}]
    /\ held \in [Replica -> BOOLEAN]
    /\ value \in [Replica -> {0, 2}]
    /\ locks \in [Mails!Mail -> Seq({0, 1, 2})]
    /\ mails \in [Mails!Mail -> Nat]
    /\ IsFiniteSet(faults)

\* No step to send the mail failed.
Unfailed == "prepare" \notin faults /\ "send" \notin faults /\ "lock" \notin faults

\* What a replica has when it is at work: its message, which is not queued while
\* the replica holds it, the lock it found or made, and what it knows of the
\* sending.
Turn(r) ==
    /\ ipc[r] = "idle" <=> cur[r] = None
    /\ ipc[r] \in OnMail => MailOf[cur[r]] # None
    /\ ipc[r] = "discard" => MailOf[cur[r]] = None
    /\ held[r] => cur[r] # None /\ dstate[cur[r]] = "unacked"
    /\ ipc[r] # "idle" /\ "connection" \notin faults => held[r]
    /\ ipc[r] = "lock" => locks[MailOf[cur[r]]] # <<>>
    /\ value[r] = 2 => ipc[r] = "unlock"
    /\ ipc[r] = "unlock" /\ value[r] = 0 => "send" \in faults
    /\ value[r] = 2 \/ ipc[r] = "ack" => mails[MailOf[cur[r]]] > 0
    /\ ipc[r] = "nack" /\ mails[MailOf[cur[r]]] = 0 /\ Unfailed =>
          Mails!Records(MailOf[cur[r]], 1) # {}

\* No two replicas hold the same message.
HeldOnce == \A r, s \in Replica : held[r] /\ held[s] /\ cur[r] = cur[s] => r = s

\* The replicas that took the lock of a mail and have not let it go.
Owners(m) == {r \in Replica : ipc[r] \in {"send", "unlock"} /\ MailOf[cur[r]] = m}

\* Records R that are taken have owners O, but for one for each fault of L at most.
Balanced(R, O, L) ==
    /\ IsFiniteSet(R) /\ IsFiniteSet(O) /\ IsFiniteSet(L)
    /\ Cardinality(O) <= Cardinality(R)
    /\ Cardinality(R) <= Cardinality(O) + Cardinality(L)

\* The records of the lock of a mail: one that says it was sent is true, and as
\* many are taken as there are replicas that took them, but for those that a
\* failed call of the locker or a crash left.
Record(m) ==
    /\ Mails!Records(m, 2) # {} => mails[m] > 0
    /\ Balanced(Mails!Records(m, 1), Owners(m), Mails!Leaving)

\* A message that will still be worked on or is being.
Live(d) == dstate[d] \in {"queued", "unacked"}

\* A mail is sent, or a message about it is left, or a record of its lock is
\* taken, unless a step to send it failed.
NotSilent(m) ==
    \/ mails[m] > 0
    \/ \E d \in Delivery : MailOf[d] = m /\ Live(d)
    \/ Mails!Records(m, 1) # {}
    \/ ~Unfailed

\* With one record at most and no failed sending: who has the lock has the record,
\* has it alone, and sends only what was not sent before.
Once(m) ==
    "send" \notin faults /\ Len(locks[m]) <= 1 =>
        /\ \A r \in Owners(m) : Len(locks[m]) = 1 /\ locks[m][1] = 1 /\ (ipc[r] = "send" => mails[m] = 0)
        /\ \A r, s \in Owners(m) : r = s
        /\ mails[m] <= 1
        /\ locks[m] = <<>> \/ locks[m][1] = 0 => mails[m] = 0

\* The mail was sent, or is about to be by a replica that works on another message.
Sends(m, d) ==
    \/ mails[m] > 0
    \/ \E t \in Replica : ipc[t] = "send" /\ MailOf[cur[t]] = m /\ cur[t] # d

\* A message that is queued, or whose replica is not about to drop it.
Hope(d) ==
    \/ dstate[d] = "queued"
    \/ \E r \in Replica : cur[r] = d /\ ~(ipc[r] = "nack" /\ redelivered[d])

\* With at most one fault of each of these kinds: a message that comes a second
\* time, or is about to be put back without a failure of its own, has somebody else
\* to send its mail.
Second ==
    /\ faults = {} => \A d \in Delivery : MailOf[d] # None /\ redelivered[d] => Sends(MailOf[d], d)
    /\ faults = {} => \A r \in Replica : ipc[r] = "nack" => Sends(MailOf[cur[r]], cur[r])
    /\ faults = {"prepare"} => \A r \in Replica :
          ipc[r] = "nack" /\ redelivered[cur[r]] => Sends(MailOf[cur[r]], cur[r])
    /\ faults = {"send"} => \A r \in Replica :
          ipc[r] = "unlock" /\ value[r] = 0 /\ redelivered[cur[r]] =>
              Sends(MailOf[cur[r]], cur[r])

\* No fault, or only a failed preparation, a failed sending or a failed Lock.
Calm == faults \in {{}, {"prepare"}, {"send"}, {"lock"}}

\* With at most one such fault a mail is sent, is about to be, has a message that
\* can still have it sent, or is left locked by the call of Lock that failed.
Hopeful(m) ==
    Calm =>
        \/ mails[m] > 0
        \/ \E t \in Replica : ipc[t] = "send" /\ MailOf[cur[t]] = m
        \/ \E d \in Delivery : MailOf[d] = m /\ Hope(d)
        \/ faults = {"lock"} /\ Mails!Records(m, 1) # {}

\* What the inform service has while the system runs another of its parts.
AtRest ==
    /\ dstate = [d \in Delivery |-> "queued"]
    /\ ipc = [r \in Replica |-> "idle"]
    /\ cur = [r \in Replica |-> None]
    /\ locks = [m \in Mails!Mail |-> <<>>]
    /\ mails = [m \in Mails!Mail |-> 0]

\* What holds of the replicas.
BaseInv == InformTypes /\ HeldOnce /\ \A r \in Replica : Turn(r)

\* What holds of the mails.
MailInv == \A m \in Mails!Mail : Record(m) /\ NotSilent(m) /\ Once(m)

\* The invariant of the inform service.
InformInv ==
    IF part = "inform"
    THEN BaseInv /\ MailInv /\ Second /\ \A m \in Mails!Mail : Hopeful(m)
    ELSE AtRest

\* A step of the services is one of the inform service, when it runs, or leaves
\* its variables.
LEMMA InformSteps ==
    ASSUME [Next]_vars
    PROVE  /\ part' = part
           /\ part = "inform" => Mails!Next \/ UNCHANGED <<informVars, faults>>
           /\ part # "inform" => UNCHANGED informVars
  BY DEF Next, vars, Running, UploadStep, CleanStep, InformStep, EventStep, CostStep, PunctStep,
         MapStep, MeterStep

\* What a step of replica r leaves alone in another one.
Apart(r) == \A s \in Replica \ {r} : /\ ipc'[s] = ipc[s] /\ cur'[s] = cur[s]
                                     /\ held'[s] = held[s] /\ value'[s] = value[s]

\* Faults stay, mails stay sent, records stay, and a taken lock stays taken but for
\* a mail that is sent or whose sending failed.
Grows ==
    /\ faults \subseteq faults'
    /\ \A m \in Mails!Mail :
          /\ mails[m] <= mails'[m]
          /\ locks[m] # <<>> => locks'[m] # <<>>
          /\ mails'[m] = 0 /\ "send" \notin faults' /\ Mails!Records(m, 1) # {} =>
                Mails!Records(m, 1)' # {}

\* A replica that works on a mail has a message about it.
LEMMA MailIs ==
    ASSUME BaseInv, NEW r \in Replica, ipc[r] \in OnMail
    PROVE  /\ cur[r] \in Delivery /\ MailOf[cur[r]] \in Mails!Mail /\ MailOf[cur[r]] # None
           /\ Mails!MailAt(r) = MailOf[cur[r]]
<1>1. cur[r] \in Delivery \cup {None} /\ Turn(r)
  BY DEF BaseInv, InformTypes
<1>2. cur[r] \in Delivery /\ MailOf[cur[r]] # None
  BY <1>1 DEF Turn, OnMail
<1>3. QED
  BY <1>2 DEF Mails!Mail, Mails!MailAt

\* Another replica still has what it had.
LEMMA OtherTurn ==
    ASSUME BaseInv, InformTypes', Grows, NEW r \in Replica, Apart(r), NEW s \in Replica \ {r},
           held[s] => dstate'[cur[s]] = "unacked"
    PROVE  Turn(s)'
<1>1. /\ Turn(s) /\ ipc'[s] = ipc[s] /\ cur'[s] = cur[s] /\ held'[s] = held[s]
      /\ value'[s] = value[s]
  BY DEF Apart, BaseInv
<1>2. ipc[s] \in OnMail => MailOf[cur[s]] \in Mails!Mail
  BY MailIs
<1> DEFINE m == MailOf[cur[s]]
<1>3. ipc[s] \in OnMail => /\ mails[m] <= mails'[m] /\ (locks[m] # <<>> => locks'[m] # <<>>)
                           /\ mails[m] \in Nat /\ mails'[m] \in Nat
  BY <1>2 DEF Grows, BaseInv, InformTypes
<1>4. ipc[s] = "lock" => locks'[m] # <<>>
  BY <1>1, <1>3 DEF Turn, OnMail
<1>5. value[s] = 2 \/ ipc[s] = "ack" => mails'[m] > 0
  BY <1>1, <1>3 DEF Turn, OnMail
<1>6. ipc[s] = "nack" /\ mails'[m] = 0 /\ Unfailed' => Mails!Records(m, 1)' # {}
  <2> SUFFICES ASSUME ipc[s] = "nack", mails'[m] = 0, Unfailed' PROVE Mails!Records(m, 1)' # {}
    OBVIOUS
  <2>1. mails[m] = 0 /\ Unfailed
    BY <1>3 DEF Grows, Unfailed, OnMail
  <2>2. QED
    BY <1>1, <1>2, <2>1 DEF Turn, Grows, OnMail, Unfailed
<1>7. faults \subseteq faults'
  BY DEF Grows
<1>8. /\ ipc'[s] = "idle" <=> cur'[s] = None
      /\ ipc'[s] \in OnMail => MailOf[cur'[s]] # None
      /\ ipc'[s] = "discard" => MailOf[cur'[s]] = None
      /\ held'[s] => cur'[s] # None /\ dstate'[cur'[s]] = "unacked"
      /\ ipc'[s] # "idle" /\ "connection" \notin faults' => held'[s]
      /\ value'[s] = 2 => ipc'[s] = "unlock"
      /\ ipc'[s] = "unlock" /\ value'[s] = 0 => "send" \in faults'
  BY <1>1, <1>7 DEF Turn
<1>9. /\ ipc'[s] = "lock" => locks'[MailOf[cur'[s]]] # <<>>
      /\ value'[s] = 2 \/ ipc'[s] = "ack" => mails'[MailOf[cur'[s]]] > 0
      /\ ipc'[s] = "nack" /\ mails'[MailOf[cur'[s]]] = 0 /\ Unfailed' =>
            Mails!Records(MailOf[cur[s]], 1)' # {}
  BY <1>1, <1>4, <1>5, <1>6 DEF Mails!Records
<1>10. QED
  BY <1>8, <1>9 DEF Turn, Mails!Records
\* The first record with a status is one, when there is one.
LEMMA FirstIs ==
    ASSUME InformTypes, NEW m \in Mails!Mail, NEW st, Mails!Records(m, st) # {}
    PROVE  Mails!FirstWith(m, st) \in Mails!Records(m, st)
<1>1. locks[m] \in Seq({0, 1, 2})
  BY DEF InformTypes
<1>2. Mails!Records(m, st) \subseteq Nat
  BY <1>1 DEF Mails!Records
<1>3. \E k \in Mails!Records(m, st) : \A j \in Mails!Records(m, st) : k <= j
  BY <1>2, LeastOf
<1>4. QED
  BY <1>3 DEF Mails!FirstWith

\* A record of the lock of a mail is set.
SetsRecord(m, k, x) == locks' = [locks EXCEPT ![m][k] = x]

\* What the setting of a record does to the locks.
LEMMA RecordSet ==
    ASSUME InformTypes, NEW m \in Mails!Mail, NEW k \in DOMAIN locks[m], NEW x \in {0, 1, 2},
           SetsRecord(m, k, x)
    PROVE  /\ locks' \in [Mails!Mail -> Seq({0, 1, 2})]
           /\ \A n \in Mails!Mail \ {m} : locks'[n] = locks[n]
           /\ DOMAIN locks'[m] = DOMAIN locks[m] /\ locks'[m][k] = x
           /\ \A j \in DOMAIN locks[m] \ {k} : locks'[m][j] = locks[m][j]
           /\ Len(locks'[m]) = Len(locks[m]) /\ locks[m] # <<>>
           /\ \A n \in Mails!Mail : locks[n] # <<>> => locks'[n] # <<>>
<1> DEFINE new == [locks[m] EXCEPT ![k] = x]
<1>1. locks \in [Mails!Mail -> Seq({0, 1, 2})] /\ locks[m] \in Seq({0, 1, 2})
  BY DEF InformTypes
<1>2. locks' = [locks EXCEPT ![m] = new]
  BY <1>1 DEF SetsRecord
<1>3. k \in 1 .. Len(locks[m])
  BY <1>1
<1>4. new \in Seq({0, 1, 2}) /\ Len(new) = Len(locks[m])
  BY <1>1, <1>3, ExceptSeq
<1>5. /\ DOMAIN new = DOMAIN locks[m] /\ new[k] = x
      /\ \A j \in DOMAIN locks[m] \ {k} : new[j] = locks[m][j]
  BY <1>1
<1> HIDE DEF new
<1>6. locks'[m] = new /\ \A n \in Mails!Mail \ {m} : locks'[n] = locks[n]
  BY <1>1, <1>2
<1>7. locks' \in [Mails!Mail -> Seq({0, 1, 2})]
  BY <1>1, <1>2, <1>4
<1>8. Len(locks[m]) # 0 /\ locks[m] # <<>>
  BY <1>1, <1>3
<1>9. locks'[m] # <<>>
  BY <1>4, <1>6, <1>8
<1>10. QED
  BY <1>4, <1>5, <1>6, <1>7, <1>8, <1>9

\* A record is inserted.
Inserts(m) == locks' = [locks EXCEPT ![m] = Append(@, 0)]

\* What the insertion of a record does to the locks.
LEMMA Insertion ==
    ASSUME InformTypes, NEW m \in Mails!Mail, Inserts(m)
    PROVE  /\ locks' \in [Mails!Mail -> Seq({0, 1, 2})]
           /\ \A n \in Mails!Mail \ {m} : locks'[n] = locks[n]
           /\ locks'[m] = Append(locks[m], 0) /\ Len(locks'[m]) = Len(locks[m]) + 1
           /\ Len(locks[m]) \in Nat
           /\ \A k \in DOMAIN locks[m] : k \in DOMAIN locks'[m] /\ locks'[m][k] = locks[m][k]
           /\ \A n \in Mails!Mail : \A k \in DOMAIN locks'[n] :
                 locks'[n][k] # 0 => k \in DOMAIN locks[n] /\ locks'[n][k] = locks[n][k]
           /\ locks'[m] # <<>>
<1>1. locks \in [Mails!Mail -> Seq({0, 1, 2})] /\ locks[m] \in Seq({0, 1, 2})
  BY DEF InformTypes
<1>2. /\ \A n \in Mails!Mail \ {m} : locks'[n] = locks[n]
      /\ locks'[m] = Append(locks[m], 0)
  BY <1>1 DEF Inserts
<1>3. /\ locks'[m] \in Seq({0, 1, 2}) /\ Len(locks'[m]) = Len(locks[m]) + 1
      /\ Len(locks[m]) \in Nat
  BY <1>1, <1>2
<1>4. \A k \in 1 .. Len(locks[m]) : locks'[m][k] = locks[m][k]
  BY <1>1, <1>2
<1>5. locks'[m][Len(locks[m]) + 1] = 0
  BY <1>1, <1>2
<1>6. locks' \in [Mails!Mail -> Seq({0, 1, 2})]
  BY <1>1, <1>2, <1>3 DEF Inserts
<1>7. \A k \in DOMAIN locks'[m] :
          locks'[m][k] # 0 => k \in DOMAIN locks[m] /\ locks'[m][k] = locks[m][k]
  BY <1>1, <1>3, <1>4, <1>5
<1>8. \A k \in DOMAIN locks[m] : k \in DOMAIN locks'[m] /\ locks'[m][k] = locks[m][k]
  BY <1>1, <1>3, <1>4
<1>9. locks'[m] # <<>>
  BY <1>3
<1>10. QED
  BY <1>2, <1>3, <1>6, <1>7, <1>8, <1>9

\* What holds of the replicas after a step of one of them, when it takes no message
\* that another one holds.
LEMMA BaseFrom ==
    ASSUME BaseInv, InformTypes', Grows, NEW r \in Replica, Apart(r), Turn(r)',
           \A s \in Replica \ {r} : held[s] => dstate'[cur[s]] = "unacked",
           held'[r] => (held[r] /\ cur'[r] = cur[r]) \/ dstate[cur'[r]] = "queued"
    PROVE  BaseInv'
<1>1. ASSUME NEW s \in Replica PROVE Turn(s)'
  BY <1>1, OtherTurn
<1>2. ASSUME NEW s \in Replica \ {r}, held'[r], held'[s] PROVE cur'[r] # cur'[s]
  <2>1. held[s] /\ cur'[s] = cur[s] /\ Turn(s)
    BY <1>2 DEF Apart, BaseInv
  <2>2. dstate[cur[s]] = "unacked"
    BY <2>1 DEF Turn
  <2>3. held[r] => cur[r] # cur[s]
    BY <2>1 DEF BaseInv, HeldOnce
  <2>4. QED
    BY <1>2, <2>1, <2>2, <2>3
<1>3. HeldOnce'
  <2> SUFFICES ASSUME NEW s \in Replica, NEW t \in Replica, held'[s], held'[t], cur'[s] = cur'[t]
               PROVE  s = t
    BY DEF HeldOnce
  <2>1. s # r /\ t # r => s = t
    BY DEF Apart, BaseInv, HeldOnce
  <2>2. QED
    BY <1>2, <2>1
<1>4. QED
  BY <1>1, <1>3 DEF BaseInv

\* At most one fault more.
FaultOrNot == UNCHANGED faults \/ \E kind : Mails!Fault(kind)

\* It keeps the faults finitely many.
LEMMA FaultIs ==
    ASSUME IsFiniteSet(faults), FaultOrNot
    PROVE  IsFiniteSet(faults') /\ faults \subseteq faults'
<1>1. CASE UNCHANGED faults
  BY <1>1
<1>2. ASSUME NEW kind, Mails!Fault(kind) PROVE IsFiniteSet(faults') /\ faults \subseteq faults'
  <2>1. faults' = faults \cup {kind}
    BY <1>2 DEF Mails!Fault
  <2>2. QED
    BY <2>1, FS_AddElement
<1>3. QED
  BY <1>1, <1>2 DEF FaultOrNot

\* A step on its way that settles nothing and sends nothing.
LEMMA QuietStep ==
    ASSUME BaseInv, NEW r \in Replica, NEW pc \in OnMail \ {"unlock"}, ipc[r] \in OnMail,
           ipc' = [ipc EXCEPT ![r] = pc], UNCHANGED <<dstate, redelivered, cur, held, mails>>,
           value' = value \/ value' = [value EXCEPT ![r] = 0], value'[r] = 0,
           locks' \in [Mails!Mail -> Seq({0, 1, 2})],
           FaultOrNot, Grows,
           pc = "lock" => locks'[MailOf[cur[r]]] # <<>>,
           pc = "ack" => mails[MailOf[cur[r]]] > 0,
           pc = "nack" /\ mails[MailOf[cur[r]]] = 0 /\ Unfailed' =>
               Mails!Records(MailOf[cur[r]], 1)' # {}
    PROVE  BaseInv' /\ Apart(r) /\ ipc'[r] = pc
<1>1. InformTypes /\ Turn(r)
  BY DEF BaseInv
<1>2. ipc' \in [Replica -> OnMail \cup {"idle", "discard"}] /\ ipc'[r] = pc
  BY <1>1 DEF InformTypes
<1>3. value' \in [Replica -> {0, 2}]
  BY <1>1 DEF InformTypes
<1>4. InformTypes'
  BY <1>1, <1>2, <1>3, FaultIs DEF InformTypes
<1>5. Apart(r)
  BY <1>1 DEF Apart, InformTypes
<1>6. faults \subseteq faults'
  BY DEF Grows
<1>7. Turn(r)'
  <2>1. /\ ipc'[r] = "idle" <=> cur'[r] = None
        /\ ipc'[r] \in OnMail => MailOf[cur'[r]] # None
        /\ ipc'[r] = "discard" => MailOf[cur'[r]] = None
        /\ held'[r] => cur'[r] # None /\ dstate'[cur'[r]] = "unacked"
        /\ ipc'[r] # "idle" /\ "connection" \notin faults' => held'[r]
    BY <1>1, <1>2, <1>6 DEF Turn, OnMail
  <2>2. QED
    BY <1>2, <2>1 DEF Turn, Mails!Records
<1>8. \A s \in Replica \ {r} : held[s] => dstate'[cur[s]] = "unacked"
  BY DEF BaseInv, Turn
<1>9. QED
  BY <1>2, <1>4, <1>5, <1>7, <1>8, BaseFrom
\* Nothing is sent, and no record changes.
LEMMA LocksStay ==
    ASSUME BaseInv, UNCHANGED <<mails, locks>>, FaultOrNot PROVE Grows
<1>1. InformTypes
  BY DEF BaseInv
<1>2. faults \subseteq faults'
  BY <1>1, FaultIs DEF InformTypes
<1>3. \A m \in Mails!Mail : mails[m] <= mails'[m]
  BY <1>1 DEF InformTypes
<1>4. QED
  BY <1>2, <1>3 DEF Grows, Mails!Records

\* The preparation of the mail.
LEMMA PrepareBase == ASSUME BaseInv, NEW r \in Replica, Mails!Prepare(r) PROVE BaseInv' /\ Grows /\ Apart(r)
<1>1. /\ UNCHANGED <<dstate, redelivered, cur, held, value, locks, mails>>
      /\ ipc[r] = "prepare" /\ FaultOrNot /\ Turn(r)
  BY DEF Mails!Prepare, BaseInv, FaultOrNot
<1>2. \/ ipc' = [ipc EXCEPT ![r] = "look"]
      \/ ipc' = [ipc EXCEPT ![r] = "nack"] /\ Mails!Fault("prepare")
  BY DEF Mails!Prepare, Mails!Goto
<1>3. Mails!Fault("prepare") => ~Unfailed'
  BY DEF Mails!Fault, Unfailed
<1>4. locks' \in [Mails!Mail -> Seq({0, 1, 2})] /\ value'[r] = 0
  BY <1>1 DEF BaseInv, InformTypes, Turn
<1>5. Grows
  BY <1>1, LocksStay
<1>6. CASE ipc' = [ipc EXCEPT ![r] = "look"]
  BY <1>1, <1>4, <1>5, <1>6, QuietStep DEF OnMail
<1>7. CASE ipc' = [ipc EXCEPT ![r] = "nack"] /\ Mails!Fault("prepare")
  BY <1>1, <1>3, <1>4, <1>5, <1>7, QuietStep DEF OnMail
<1>8. QED
  BY <1>2, <1>5, <1>6, <1>7

\* A failed call of Lock.
LEMMA LockFaultFails == ASSUME Mails!Fault("lock") PROVE ~Unfailed'
  BY DEF Mails!Fault, Unfailed

\* The look at the lock.
LEMMA LookBase == ASSUME BaseInv, NEW r \in Replica, Mails!Look(r) PROVE BaseInv' /\ Grows /\ Apart(r)
<1>1. /\ UNCHANGED <<dstate, redelivered, cur, held, value, locks, mails>>
      /\ ipc[r] = "look" /\ FaultOrNot /\ Turn(r)
  BY DEF Mails!Look, Mails!LockFault, BaseInv, FaultOrNot
<1>2. locks' \in [Mails!Mail -> Seq({0, 1, 2})] /\ value'[r] = 0
  BY <1>1 DEF BaseInv, InformTypes, Turn
<1>3. Grows
  BY <1>1, LocksStay
<1>4. \/ ipc' = [ipc EXCEPT ![r] = "insert"]
      \/ ipc' = [ipc EXCEPT ![r] = "lock"] /\ locks'[MailOf[cur[r]]] # <<>>
      \/ ipc' = [ipc EXCEPT ![r] = "nack"] /\ Mails!Fault("lock")
  BY <1>1, MailIs DEF Mails!Look, Mails!LockFault, Mails!Goto, OnMail
<1>5. CASE ipc' = [ipc EXCEPT ![r] = "insert"]
  BY <1>1, <1>2, <1>3, <1>5, QuietStep DEF OnMail
<1>6. CASE ipc' = [ipc EXCEPT ![r] = "lock"] /\ locks'[MailOf[cur[r]]] # <<>>
  BY <1>1, <1>2, <1>3, <1>6, QuietStep DEF OnMail
<1>7. CASE ipc' = [ipc EXCEPT ![r] = "nack"] /\ Mails!Fault("lock")
  BY <1>1, <1>2, <1>3, <1>7, LockFaultFails, QuietStep DEF OnMail
<1>8. QED
  BY <1>3, <1>4, <1>5, <1>6, <1>7

\* What Insert does to the records: it may do the same when it fails.
LEMMA InsertIs ==
    ASSUME BaseInv, NEW r \in Replica, Mails!Insert(r), NEW m, m = MailOf[cur[r]]
    PROVE  /\ m \in Mails!Mail /\ UNCHANGED <<dstate, redelivered, cur, held, value, mails>>
           /\ ipc[r] = "insert"
           /\ \/ ipc' = [ipc EXCEPT ![r] = "lock"] /\ UNCHANGED faults /\ Inserts(m)
              \/ /\ ipc' = [ipc EXCEPT ![r] = "nack"] /\ Mails!Fault("lock")
                 /\ UNCHANGED locks \/ Inserts(m)
<1>1. ipc[r] = "insert" /\ UNCHANGED <<dstate, redelivered, cur, held, value, mails>>
  BY DEF Mails!Insert
<1>2. m \in Mails!Mail /\ Mails!MailAt(r) = m
  BY <1>1, MailIs DEF OnMail
<1>3. \/ ipc' = [ipc EXCEPT ![r] = "lock"] /\ UNCHANGED faults /\ Inserts(m)
      \/ /\ ipc' = [ipc EXCEPT ![r] = "nack"] /\ Mails!Fault("lock")
         /\ UNCHANGED locks \/ Inserts(m)
  BY <1>2 DEF Mails!Insert, Mails!Inserted, Mails!LockFault, Mails!Goto, Inserts
<1>4. QED
  BY <1>1, <1>2, <1>3

\* The insertion of a record.
LEMMA InsertBase == ASSUME BaseInv, NEW r \in Replica, Mails!Insert(r) PROVE BaseInv' /\ Grows /\ Apart(r)
<1>0. PICK m : m = MailOf[cur[r]]
  OBVIOUS
<1>1. /\ m \in Mails!Mail /\ UNCHANGED <<dstate, redelivered, cur, held, value, mails>>
      /\ ipc[r] = "insert"
      /\ \/ ipc' = [ipc EXCEPT ![r] = "lock"] /\ UNCHANGED faults /\ Inserts(m)
         \/ /\ ipc' = [ipc EXCEPT ![r] = "nack"] /\ Mails!Fault("lock")
            /\ UNCHANGED locks \/ Inserts(m)
  BY <1>0, InsertIs
<1>2. FaultOrNot /\ Turn(r) /\ InformTypes
  BY <1>1 DEF BaseInv, FaultOrNot
<1>3. value'[r] = 0 /\ value' = value /\ ipc[r] \in OnMail
  BY <1>1, <1>2 DEF InformTypes, Turn, OnMail
<1>4. CASE UNCHANGED locks /\ ipc' = [ipc EXCEPT ![r] = "nack"] /\ Mails!Fault("lock")
  <2>1. Grows /\ locks' \in [Mails!Mail -> Seq({0, 1, 2})]
    BY <1>1, <1>2, <1>4, LocksStay DEF InformTypes
  <2>2. QED
    BY <1>1, <1>2, <1>3, <1>4, <2>1, LockFaultFails, QuietStep DEF OnMail
<1>5. CASE Inserts(m)
  <2>1. /\ locks' \in [Mails!Mail -> Seq({0, 1, 2})] /\ locks'[m] # <<>>
        /\ \A n \in Mails!Mail \ {m} : locks'[n] = locks[n]
        /\ \A k \in DOMAIN locks[m] : k \in DOMAIN locks'[m] /\ locks'[m][k] = locks[m][k]
    BY <1>1, <1>2, <1>5, Insertion
  <2>2. \A n \in Mails!Mail : Mails!Records(n, 1) \subseteq Mails!Records(n, 1)'
    BY <2>1 DEF Mails!Records
  <2>3. \A n \in Mails!Mail : mails[n] <= mails'[n]
    BY <1>1, <1>2 DEF InformTypes
  <2>4. faults \subseteq faults'
    BY <1>2, FaultIs DEF InformTypes
  <2>5. Grows
    BY <2>1, <2>2, <2>3, <2>4 DEF Grows
  <2>6. CASE ipc' = [ipc EXCEPT ![r] = "lock"]
    BY <1>0, <1>1, <1>2, <1>3, <2>1, <2>5, <2>6, QuietStep DEF OnMail
  <2>7. CASE ipc' = [ipc EXCEPT ![r] = "nack"] /\ Mails!Fault("lock")
    BY <1>1, <1>2, <1>3, <2>1, <2>5, <2>7, LockFaultFails, QuietStep DEF OnMail
  <2>8. QED
    BY <1>1, <2>5, <2>6, <2>7
<1>6. QED
  BY <1>1, <1>4, <1>5

\* What Lock does to the records: one that is free is taken, also when it fails.
LEMMA LockIs ==
    ASSUME BaseInv, NEW r \in Replica, Mails!Lock(r), NEW m, m = MailOf[cur[r]]
    PROVE  /\ m \in Mails!Mail /\ UNCHANGED <<dstate, redelivered, cur, held, value, mails>>
           /\ ipc[r] = "lock"
           /\ \/ /\ Mails!Records(m, 0) = {} /\ ipc' = [ipc EXCEPT ![r] = "nack"]
                 /\ UNCHANGED <<locks, faults>>
              \/ /\ ipc' = [ipc EXCEPT ![r] = "send"] /\ UNCHANGED faults
                 /\ \E k \in Mails!Records(m, 0) : SetsRecord(m, k, 1)
              \/ /\ ipc' = [ipc EXCEPT ![r] = "nack"] /\ Mails!Fault("lock")
                 /\ UNCHANGED locks \/ \E k \in Mails!Records(m, 0) : SetsRecord(m, k, 1)
<1>1. ipc[r] = "lock" /\ UNCHANGED <<dstate, redelivered, cur, held, value, mails>>
  BY DEF Mails!Lock
<1>2. m \in Mails!Mail /\ Mails!MailAt(r) = m
  BY <1>1, MailIs DEF OnMail
<1>3. Mails!Records(m, 0) # {} => Mails!FirstWith(m, 0) \in Mails!Records(m, 0)
  BY <1>2, FirstIs DEF BaseInv
<1>4. locks' = Mails!Taken(r) =>
          \/ Mails!Records(m, 0) = {} /\ UNCHANGED locks
          \/ /\ Mails!Records(m, 0) # {}
             /\ \E k \in Mails!Records(m, 0) : SetsRecord(m, k, 1)
  BY <1>2, <1>3 DEF Mails!Taken, SetsRecord
<1>5. \/ /\ locks' = Mails!Taken(r) /\ UNCHANGED faults
         /\ ipc' = [ipc EXCEPT ![r] = IF Mails!Records(m, 0) # {} THEN "send" ELSE "nack"]
      \/ /\ ipc' = [ipc EXCEPT ![r] = "nack"] /\ Mails!Fault("lock")
         /\ UNCHANGED locks \/ locks' = Mails!Taken(r)
  BY <1>2 DEF Mails!Lock, Mails!LockFault, Mails!Goto
<1>6. QED
  BY <1>1, <1>2, <1>4, <1>5

\* A record that is set.
LEMMA RecordsSet ==
    ASSUME InformTypes, NEW m \in Mails!Mail, NEW k \in DOMAIN locks[m], NEW x \in {0, 1, 2},
           SetsRecord(m, k, x)
    PROVE  /\ \A n \in Mails!Mail \ {m}, st \in {0, 1, 2} : Mails!Records(n, st)' = Mails!Records(n, st)
           /\ Mails!Records(m, x)' = Mails!Records(m, x) \cup {k}
           /\ \A st \in {0, 1, 2} \ {x} : Mails!Records(m, st)' = Mails!Records(m, st) \ {k}
<1>1. \A n \in Mails!Mail \ {m} : locks'[n] = locks[n]
  BY RecordSet
<1>3. DOMAIN locks'[m] = DOMAIN locks[m] /\ locks'[m][k] = x
      /\ \A j \in DOMAIN locks[m] \ {k} : locks'[m][j] = locks[m][j]
  BY RecordSet
<1>4. \A n \in Mails!Mail \ {m}, st \in {0, 1, 2} : Mails!Records(n, st)' = Mails!Records(n, st)
  BY <1>1 DEF Mails!Records
<1>5. Mails!Records(m, x)' = Mails!Records(m, x) \cup {k}
  BY <1>3 DEF Mails!Records
<1>6. \A st \in {0, 1, 2} \ {x} : Mails!Records(m, st)' = Mails!Records(m, st) \ {k}
  BY <1>3 DEF Mails!Records
<1>7. QED
  BY <1>4, <1>5, <1>6

\* The lock is taken.
LEMMA LockBase == ASSUME BaseInv, MailInv, NEW r \in Replica, Mails!Lock(r) PROVE BaseInv' /\ Grows /\ Apart(r)
<1>0. PICK m : m = MailOf[cur[r]]
  OBVIOUS
<1>1. /\ m \in Mails!Mail /\ UNCHANGED <<dstate, redelivered, cur, held, value, mails>>
      /\ ipc[r] = "lock"
      /\ \/ /\ Mails!Records(m, 0) = {} /\ ipc' = [ipc EXCEPT ![r] = "nack"]
            /\ UNCHANGED <<locks, faults>>
         \/ /\ ipc' = [ipc EXCEPT ![r] = "send"] /\ UNCHANGED faults
            /\ \E k \in Mails!Records(m, 0) : SetsRecord(m, k, 1)
         \/ /\ ipc' = [ipc EXCEPT ![r] = "nack"] /\ Mails!Fault("lock")
            /\ UNCHANGED locks \/ \E k \in Mails!Records(m, 0) : SetsRecord(m, k, 1)
  BY <1>0, LockIs
<1>2. FaultOrNot /\ Turn(r) /\ InformTypes /\ mails[m] \in Nat /\ value'[r] = 0
      /\ value' = value /\ ipc[r] \in OnMail
  BY <1>1 DEF BaseInv, FaultOrNot, Turn, InformTypes, OnMail
<1>3. CASE /\ Mails!Records(m, 0) = {} /\ ipc' = [ipc EXCEPT ![r] = "nack"]
           /\ UNCHANGED <<locks, faults>>
  <2>1. Grows
    BY <1>1, <1>2, <1>3, LocksStay
  <2>2. locks[m] # <<>> /\ locks[m] \in Seq({0, 1, 2})
    BY <1>0, <1>1, <1>2 DEF Turn, InformTypes
  <2>3. 1 \in DOMAIN locks[m] /\ locks[m][1] \in {0, 1, 2}
    BY <2>2
  <2>4. locks[m][1] # 0
    BY <1>3, <2>3 DEF Mails!Records
  <2>5. mails[m] = 0 => Mails!Records(m, 2) = {}
    BY <1>1, <1>2 DEF MailInv, Record
  <2>6. mails[m] = 0 => Mails!Records(m, 1) # {}
    BY <2>3, <2>4, <2>5 DEF Mails!Records
  <2>7. mails[m] = 0 => Mails!Records(m, 1)' # {}
    BY <1>1, <1>3, <2>6 DEF Mails!Records
  <2>8. locks' \in [Mails!Mail -> Seq({0, 1, 2})]
    BY <1>2, <1>3 DEF InformTypes
  <2>9. QED
    BY <1>0, <1>1, <1>2, <1>3, <2>1, <2>7, <2>8, QuietStep DEF OnMail, Mails!Records
<1>4. (\E k \in Mails!Records(m, 0) : SetsRecord(m, k, 1)) =>
          locks' \in [Mails!Mail -> Seq({0, 1, 2})] /\ Grows
  <2> SUFFICES ASSUME NEW k \in Mails!Records(m, 0), SetsRecord(m, k, 1)
               PROVE  locks' \in [Mails!Mail -> Seq({0, 1, 2})] /\ Grows
    OBVIOUS
  <2>1. k \in DOMAIN locks[m]
    BY DEF Mails!Records
  <2>2. /\ locks' \in [Mails!Mail -> Seq({0, 1, 2})]
        /\ \A n \in Mails!Mail : locks[n] # <<>> => locks'[n] # <<>>
    BY <1>1, <1>2, <2>1, RecordSet
  <2>3. \A n \in Mails!Mail : Mails!Records(n, 1) \subseteq Mails!Records(n, 1)'
    <3> SUFFICES ASSUME NEW n \in Mails!Mail
                 PROVE  Mails!Records(n, 1) \subseteq Mails!Records(n, 1)'
      OBVIOUS
    <3>0. 1 \in {0, 1, 2}
      OBVIOUS
    <3>1. CASE n = m
      <4>1. Mails!Records(m, 1)' = Mails!Records(m, 1) \cup {k}
        BY <1>1, <1>2, <2>1, <3>0, RecordsSet
      <4>2. QED
        BY <3>1, <4>1
    <3>2. CASE n # m
      BY <1>1, <1>2, <2>1, <3>2, RecordsSet
    <3>3. QED
      BY <3>1, <3>2
  <2>4. faults \subseteq faults'
    BY <1>2, FaultIs DEF InformTypes
  <2>5. \A n \in Mails!Mail : mails[n] <= mails'[n]
    BY <1>1, <1>2 DEF InformTypes
  <2>6. QED
    BY <2>2, <2>3, <2>4, <2>5 DEF Grows
<1>5. CASE /\ ipc' = [ipc EXCEPT ![r] = "send"] /\ UNCHANGED faults
           /\ \E k \in Mails!Records(m, 0) : SetsRecord(m, k, 1)
  BY <1>1, <1>2, <1>4, <1>5, QuietStep DEF OnMail
<1>6. CASE /\ ipc' = [ipc EXCEPT ![r] = "nack"] /\ Mails!Fault("lock")
           /\ UNCHANGED locks \/ \E k \in Mails!Records(m, 0) : SetsRecord(m, k, 1)
  <2>1. locks' \in [Mails!Mail -> Seq({0, 1, 2})] /\ Grows
    BY <1>1, <1>2, <1>4, <1>6, LocksStay DEF InformTypes
  <2>2. QED
    BY <1>1, <1>2, <1>6, <2>1, LockFaultFails, QuietStep DEF OnMail
<1>7. QED
  BY <1>1, <1>3, <1>5, <1>6

\* What UnLock does to the records.
LEMMA UnLockIs ==
    ASSUME BaseInv, NEW r \in Replica, Mails!UnLock(r), NEW m, m = MailOf[cur[r]]
    PROVE  /\ m \in Mails!Mail /\ UNCHANGED <<dstate, redelivered, cur, held, mails>>
           /\ ipc[r] = "unlock" /\ value' = [value EXCEPT ![r] = 0]
           /\ ipc' = [ipc EXCEPT ![r] = IF value[r] = 2 THEN "ack" ELSE "nack"]
           /\ \/ Mails!Fault("unlock") /\ UNCHANGED locks
              \/ Mails!Records(m, 1) = {} /\ UNCHANGED <<faults, locks>>
              \/ /\ UNCHANGED faults
                 /\ \E k \in Mails!Records(m, 1) : SetsRecord(m, k, value[r])
<1>1. /\ ipc[r] = "unlock" /\ UNCHANGED <<dstate, redelivered, cur, held, mails>>
      /\ value' = [value EXCEPT ![r] = 0]
      /\ ipc' = [ipc EXCEPT ![r] = IF value[r] = 2 THEN "ack" ELSE "nack"]
  BY DEF Mails!UnLock, Mails!Goto
<1>2. m \in Mails!Mail /\ Mails!MailAt(r) = m
  BY <1>1, MailIs DEF OnMail
<1>3. Mails!Records(m, 1) # {} => Mails!FirstWith(m, 1) \in Mails!Records(m, 1)
  BY <1>2, FirstIs DEF BaseInv
<1>4. \/ Mails!Fault("unlock") /\ UNCHANGED locks
      \/ Mails!Records(m, 1) = {} /\ UNCHANGED <<faults, locks>>
      \/ /\ UNCHANGED faults /\ Mails!Records(m, 1) # {}
         /\ SetsRecord(m, Mails!FirstWith(m, 1), value[r])
  BY <1>2 DEF Mails!UnLock, SetsRecord
<1>5. QED
  BY <1>1, <1>2, <1>3, <1>4

\* The lock is let go.
LEMMA UnLockBase == ASSUME BaseInv, NEW r \in Replica, Mails!UnLock(r) PROVE BaseInv' /\ Grows /\ Apart(r)
<1>0. PICK m : m = MailOf[cur[r]]
  OBVIOUS
<1>1. /\ m \in Mails!Mail /\ UNCHANGED <<dstate, redelivered, cur, held, mails>>
      /\ ipc[r] = "unlock" /\ value' = [value EXCEPT ![r] = 0]
      /\ ipc' = [ipc EXCEPT ![r] = IF value[r] = 2 THEN "ack" ELSE "nack"]
      /\ \/ Mails!Fault("unlock") /\ UNCHANGED locks
         \/ Mails!Records(m, 1) = {} /\ UNCHANGED <<faults, locks>>
         \/ /\ UNCHANGED faults
            /\ \E k \in Mails!Records(m, 1) : SetsRecord(m, k, value[r])
  BY <1>0, UnLockIs
<1>2. FaultOrNot /\ Turn(r) /\ InformTypes /\ mails[m] \in Nat /\ value'[r] = 0
      /\ ipc[r] \in OnMail /\ value[r] \in {0, 2}
  BY <1>1 DEF BaseInv, FaultOrNot, InformTypes, OnMail
<1>3. faults \subseteq faults'
  BY <1>2, FaultIs DEF InformTypes
<1>4. value[r] = 0 => "send" \in faults'
  BY <1>1, <1>2, <1>3 DEF Turn
<1>5. value[r] = 2 => mails[m] > 0
  BY <1>0, <1>2 DEF Turn
<1>6. locks' \in [Mails!Mail -> Seq({0, 1, 2})] /\ Grows
  <2>1. CASE UNCHANGED locks
    BY <1>1, <1>2, <2>1, LocksStay DEF InformTypes
  <2>2. CASE \E k \in Mails!Records(m, 1) : SetsRecord(m, k, value[r])
    <3>1. PICK k \in DOMAIN locks[m] : SetsRecord(m, k, value[r])
      BY <2>2 DEF Mails!Records
    <3>2. /\ locks' \in [Mails!Mail -> Seq({0, 1, 2})]
          /\ \A n \in Mails!Mail : locks[n] # <<>> => locks'[n] # <<>>
      BY <1>1, <1>2, <3>1, RecordSet
    <3>3. \A n \in Mails!Mail \ {m} : Mails!Records(n, 1)' = Mails!Records(n, 1)
      BY <1>1, <1>2, <3>1, RecordsSet
    <3>4. "send" \notin faults' => mails'[m] # 0
      BY <1>1, <1>2, <1>4, <1>5
    <3>5. \A n \in Mails!Mail : mails[n] <= mails'[n]
      BY <1>1, <1>2 DEF InformTypes
    <3>6. QED
      BY <1>3, <3>2, <3>3, <3>4, <3>5 DEF Grows
  <2>3. QED
    BY <1>1, <2>1, <2>2
<1>7. CASE value[r] = 2
  <2>1. ipc' = [ipc EXCEPT ![r] = "ack"]
    BY <1>1, <1>7
  <2>2. QED
    BY <1>0, <1>1, <1>2, <1>5, <1>6, <1>7, <2>1, QuietStep DEF OnMail
<1>8. CASE value[r] = 0
  <2>1. ipc' = [ipc EXCEPT ![r] = "nack"]
    BY <1>1, <1>8
  <2>2. QED
    BY <1>1, <1>2, <1>4, <1>6, <1>8, <2>1, QuietStep DEF OnMail, Unfailed
<1>9. QED
  BY <1>2, <1>7, <1>8

\* A replica that has a message is at work on it.
LEMMA CurIs ==
    ASSUME BaseInv, NEW r \in Replica, cur[r] # None
    PROVE  cur[r] \in Delivery /\ ipc[r] # "idle"
  BY DEF BaseInv, InformTypes, Turn

\* What the sending of the mail does.
LEMMA SendIs ==
    ASSUME BaseInv, NEW r \in Replica, Mails!Send(r), NEW m, m = MailOf[cur[r]]
    PROVE  /\ m \in Mails!Mail /\ UNCHANGED <<dstate, redelivered, cur, held, locks>>
           /\ ipc[r] = "send" /\ ipc' = [ipc EXCEPT ![r] = "unlock"]
           /\ value' \in [Replica -> {0, 2}] /\ mails' \in [Mails!Mail -> Nat]
           /\ \A n \in Mails!Mail \ {m} : mails'[n] = mails[n]
           /\ \A s \in Replica \ {r} : value'[s] = value[s]
           /\ \/ mails'[m] = mails[m] + 1 /\ value'[r] = 2 /\ UNCHANGED faults
              \/ /\ Mails!Fault("send") /\ value'[r] = 0
                 /\ mails'[m] \in {mails[m], mails[m] + 1}
<1>1. /\ ipc[r] = "send" /\ ipc' = [ipc EXCEPT ![r] = "unlock"]
      /\ UNCHANGED <<dstate, redelivered, cur, held, locks>>
  BY DEF Mails!Send, Mails!Goto
<1>2. m \in Mails!Mail /\ Mails!MailAt(r) = m
  BY <1>1, MailIs DEF OnMail
<1>3. /\ mails \in [Mails!Mail -> Nat] /\ value \in [Replica -> {0, 2}]
  BY DEF BaseInv, InformTypes
<1>4. CASE /\ mails' = [mails EXCEPT ![m] = @ + 1] /\ value' = [value EXCEPT ![r] = 2]
           /\ UNCHANGED faults
  BY <1>1, <1>2, <1>3, <1>4
<1>5. CASE /\ Mails!Fault("send") /\ value' = [value EXCEPT ![r] = 0]
           /\ mails' \in {mails, [mails EXCEPT ![m] = @ + 1]}
  BY <1>1, <1>2, <1>3, <1>5
<1>6. QED
  BY <1>2, <1>4, <1>5 DEF Mails!Send

\* The mail is sent.
LEMMA SendBase == ASSUME BaseInv, NEW r \in Replica, Mails!Send(r) PROVE BaseInv' /\ Grows /\ Apart(r)
<1>0. PICK m : m = MailOf[cur[r]]
  OBVIOUS
<1>1. /\ m \in Mails!Mail /\ UNCHANGED <<dstate, redelivered, cur, held, locks>>
      /\ ipc[r] = "send" /\ ipc' = [ipc EXCEPT ![r] = "unlock"]
      /\ value' \in [Replica -> {0, 2}] /\ mails' \in [Mails!Mail -> Nat]
      /\ \A n \in Mails!Mail \ {m} : mails'[n] = mails[n]
      /\ \A s \in Replica \ {r} : value'[s] = value[s]
      /\ \/ mails'[m] = mails[m] + 1 /\ value'[r] = 2 /\ UNCHANGED faults
         \/ /\ Mails!Fault("send") /\ value'[r] = 0
            /\ mails'[m] \in {mails[m], mails[m] + 1}
  BY <1>0, SendIs
<1>2. FaultOrNot /\ Turn(r) /\ InformTypes /\ mails[m] \in Nat
  BY <1>1 DEF BaseInv, FaultOrNot, InformTypes
<1>3. faults \subseteq faults' /\ IsFiniteSet(faults')
  BY <1>2, FaultIs DEF InformTypes
<1>4. ipc' \in [Replica -> OnMail \cup {"idle", "discard"}] /\ ipc'[r] = "unlock"
  BY <1>1, <1>2 DEF InformTypes, OnMail
<1>5. InformTypes'
  BY <1>1, <1>2, <1>3, <1>4 DEF InformTypes
<1>6. Apart(r)
  BY <1>1, <1>2 DEF Apart, InformTypes
<1>7. \A n \in Mails!Mail : mails[n] <= mails'[n]
  <2> SUFFICES ASSUME NEW n \in Mails!Mail PROVE mails[n] <= mails'[n]
    OBVIOUS
  <2>1. mails[n] \in Nat /\ (n = m \/ mails'[n] = mails[n])
    BY <1>1, <1>2 DEF InformTypes
  <2>2. QED
    BY <1>1, <1>2, <2>1
<1>8. Grows
  BY <1>1, <1>3, <1>7 DEF Grows, Mails!Records
<1>9. Turn(r)'
  <2>1. value'[r] = 0 => "send" \in faults'
    BY <1>1 DEF Mails!Fault
  <2>2. value'[r] = 2 => mails'[m] > 0
    BY <1>1, <1>2
  <2>3. value'[r] = 2 \/ ipc'[r] = "ack" => mails'[MailOf[cur'[r]]] > 0
    BY <1>0, <1>1, <1>4, <2>2
  <2>4. /\ cur'[r] # None /\ MailOf[cur'[r]] # None
        /\ held'[r] => dstate'[cur'[r]] = "unacked"
        /\ "connection" \notin faults' => held'[r]
    BY <1>1, <1>2, <1>3 DEF Turn, OnMail
  <2>5. QED
    BY <1>4, <2>1, <2>3, <2>4 DEF Turn
<1>10. \A s \in Replica \ {r} : held[s] => dstate'[cur[s]] = "unacked"
  BY <1>1 DEF BaseInv, Turn
<1>11. BaseInv'
  BY <1>1, <1>5, <1>6, <1>8, <1>9, <1>10, BaseFrom
<1>12. QED
  BY <1>6, <1>8, <1>11

\* A message is delivered to a replica.
LEMMA DeliverBase ==
    ASSUME BaseInv, NEW r \in Replica, NEW d \in Delivery, Mails!Deliver(r, d)
    PROVE  BaseInv' /\ Grows /\ Apart(r)
<1>1. /\ ipc[r] = "idle" /\ dstate[d] = "queued" /\ dstate' = [dstate EXCEPT ![d] = "unacked"]
      /\ cur' = [cur EXCEPT ![r] = d] /\ held' = [held EXCEPT ![r] = TRUE]
      /\ ipc' = [ipc EXCEPT ![r] = IF MailOf[d] = None THEN "discard" ELSE "prepare"]
      /\ UNCHANGED <<redelivered, value, locks, mails, faults>>
  BY DEF Mails!Deliver, Mails!Goto
<1>2. FaultOrNot /\ Turn(r) /\ InformTypes
  BY <1>1 DEF BaseInv, FaultOrNot
<1>3. Grows
  BY <1>1, <1>2, LocksStay
<1>4. /\ ipc'[r] = (IF MailOf[d] = None THEN "discard" ELSE "prepare")
      /\ cur'[r] = d /\ held'[r] = TRUE /\ dstate'[d] = "unacked" /\ value'[r] = 0
  BY <1>1, <1>2 DEF InformTypes, Turn
<1>5. ipc' \in [Replica -> OnMail \cup {"idle", "discard"}]
  BY <1>1, <1>2 DEF InformTypes, OnMail
<1>6. /\ dstate' \in [Delivery -> {"queued", "unacked", "acked", "discarded"}]
      /\ cur' \in [Replica -> Delivery \cup {None}] /\ held' \in [Replica -> BOOLEAN]
  BY <1>1, <1>2 DEF InformTypes
<1>7. InformTypes'
  BY <1>1, <1>2, <1>5, <1>6 DEF InformTypes
<1>8. Apart(r)
  BY <1>1, <1>2 DEF Apart, InformTypes
<1>9. Turn(r)'
  BY <1>4, ServicesAssumption DEF Turn, OnMail
<1>10. \A s \in Replica \ {r} : held[s] => dstate'[cur[s]] = "unacked"
  BY <1>1, <1>2 DEF BaseInv, Turn, InformTypes
<1>11. QED
  BY <1>1, <1>3, <1>4, <1>7, <1>8, <1>9, <1>10, BaseFrom
\* What Settle does to the deliveries.
LEMMA SettleIs ==
    ASSUME BaseInv, NEW r \in Replica, Mails!Settle(r), NEW d, d = cur[r]
    PROVE  /\ ipc[r] \in {"ack", "nack", "discard"} /\ d \in Delivery
           /\ UNCHANGED <<value, locks, mails, faults>>
           /\ ipc' = [ipc EXCEPT ![r] = "idle"] /\ cur' = [cur EXCEPT ![r] = None]
           /\ held' = [held EXCEPT ![r] = FALSE]
           /\ dstate' \in [Delivery -> {"queued", "unacked", "acked", "discarded"}]
           /\ redelivered' \in [Delivery -> BOOLEAN]
           /\ \A e \in Delivery : e # d \/ ~held[r] =>
                 dstate'[e] = dstate[e] /\ redelivered'[e] = redelivered[e]
           /\ held[r] =>
                 \/ ipc[r] = "ack" /\ dstate'[d] = "acked" /\ redelivered'[d] = redelivered[d]
                 \/ ipc[r] = "nack" /\ ~redelivered[d] /\ dstate'[d] = "queued" /\ redelivered'[d]
                 \/ /\ (ipc[r] = "nack" /\ redelivered[d]) \/ ipc[r] = "discard"
                    /\ dstate'[d] = "discarded" /\ redelivered'[d] = redelivered[d]
<1>1. /\ ipc[r] \in {"ack", "nack", "discard"} /\ UNCHANGED <<value, locks, mails, faults>>
      /\ ipc' = [ipc EXCEPT ![r] = "idle"] /\ cur' = [cur EXCEPT ![r] = None]
      /\ held' = [held EXCEPT ![r] = FALSE]
  BY DEF Mails!Settle, Mails!Goto
<1>2. d \in Delivery /\ InformTypes
  BY <1>1, CurIs DEF BaseInv, Turn
<1>3. CASE ~held[r]
  <2>1. UNCHANGED <<dstate, redelivered>>
    BY <1>3 DEF Mails!Settle
  <2>2. QED
    BY <1>1, <1>2, <1>3, <2>1 DEF InformTypes
<1>4. CASE held[r]
  <2> DEFINE to == Mails!Settled(r)
  <2>1. /\ dstate' = [dstate EXCEPT ![d] = to]
        /\ redelivered' = [redelivered EXCEPT ![d] = @ \/ dstate'[d] = "queued"]
    BY <1>4 DEF Mails!Settle
  <2>2. \/ ipc[r] = "ack" /\ to = "acked"
        \/ ipc[r] = "nack" /\ ~redelivered[d] /\ to = "queued"
        \/ ((ipc[r] = "nack" /\ redelivered[d]) \/ ipc[r] = "discard") /\ to = "discarded"
    BY <1>1 DEF Mails!Settled
  <2> HIDE DEF to
  <2>3. /\ dstate' \in [Delivery -> {"queued", "unacked", "acked", "discarded"}]
        /\ dstate'[d] = to /\ \A e \in Delivery : e # d => dstate'[e] = dstate[e]
    BY <1>2, <2>1, <2>2 DEF InformTypes
  <2>4. /\ redelivered' \in [Delivery -> BOOLEAN]
        /\ redelivered'[d] = (redelivered[d] \/ to = "queued")
        /\ \A e \in Delivery : e # d => redelivered'[e] = redelivered[e]
    BY <1>2, <2>1, <2>3 DEF InformTypes
  <2>5. redelivered[d] \in BOOLEAN
    BY <1>2 DEF InformTypes
  <2>6. \/ ipc[r] = "ack" /\ dstate'[d] = "acked" /\ redelivered'[d] = redelivered[d]
        \/ ipc[r] = "nack" /\ ~redelivered[d] /\ dstate'[d] = "queued" /\ redelivered'[d]
        \/ /\ (ipc[r] = "nack" /\ redelivered[d]) \/ ipc[r] = "discard"
           /\ dstate'[d] = "discarded" /\ redelivered'[d] = redelivered[d]
    BY <2>2, <2>3, <2>4, <2>5
  <2>7. QED
    BY <1>1, <1>2, <1>4, <2>3, <2>4, <2>6
<1>5. QED
  BY <1>3, <1>4

\* A message is settled.
LEMMA SettleBase == ASSUME BaseInv, NEW r \in Replica, Mails!Settle(r) PROVE BaseInv' /\ Grows /\ Apart(r)
<1>0. PICK d : d = cur[r]
  OBVIOUS
<1>1. /\ ipc[r] \in {"ack", "nack", "discard"} /\ d \in Delivery
      /\ UNCHANGED <<value, locks, mails, faults>>
      /\ ipc' = [ipc EXCEPT ![r] = "idle"] /\ cur' = [cur EXCEPT ![r] = None]
      /\ held' = [held EXCEPT ![r] = FALSE]
      /\ dstate' \in [Delivery -> {"queued", "unacked", "acked", "discarded"}]
      /\ redelivered' \in [Delivery -> BOOLEAN]
      /\ \A e \in Delivery : e # d \/ ~held[r] => dstate'[e] = dstate[e]
  BY <1>0, SettleIs
<1>2. FaultOrNot /\ Turn(r) /\ InformTypes
  BY <1>1 DEF BaseInv, FaultOrNot
<1>3. Grows
  BY <1>1, <1>2, LocksStay
<1>4. ipc'[r] = "idle" /\ cur'[r] = None /\ held'[r] = FALSE /\ value'[r] = 0
  BY <1>1, <1>2 DEF InformTypes, Turn
<1>5. InformTypes'
  BY <1>1, <1>2 DEF InformTypes
<1>6. Apart(r)
  BY <1>1, <1>2 DEF Apart, InformTypes
<1>7. Turn(r)'
  BY <1>4 DEF Turn, OnMail
<1>8. ASSUME NEW s \in Replica \ {r}, held[s] PROVE dstate'[cur[s]] = "unacked"
  <2>1. cur[s] \in Delivery /\ dstate[cur[s]] = "unacked"
    BY <1>8, CurIs DEF BaseInv, Turn
  <2>2. cur[s] # d \/ ~held[r]
    BY <1>0, <1>8 DEF BaseInv, HeldOnce
  <2>3. QED
    BY <1>1, <2>1, <2>2
<1>9. QED
  BY <1>3, <1>4, <1>5, <1>6, <1>7, <1>8, BaseFrom

\* What the loss of a connection or of a replica does to the deliveries.
LEMMA LossIs ==
    ASSUME BaseInv, NEW r \in Replica, Mails!Disconnect(r) \/ Mails!InformCrash(r), NEW d, d = cur[r]
    PROVE  /\ d \in Delivery /\ UNCHANGED <<locks, mails>> /\ held' = [held EXCEPT ![r] = FALSE]
           /\ \/ Mails!Fault("connection") /\ UNCHANGED <<ipc, cur, value>> /\ ipc[r] # "idle"
              \/ /\ Mails!Fault("crash") /\ ipc' = [ipc EXCEPT ![r] = "idle"]
                 /\ cur' = [cur EXCEPT ![r] = None] /\ value' = [value EXCEPT ![r] = 0]
           /\ dstate' \in [Delivery -> {"queued", "unacked", "acked", "discarded"}]
           /\ redelivered' \in [Delivery -> BOOLEAN]
           /\ \A e \in Delivery : e # d \/ ~held[r] =>
                 dstate'[e] = dstate[e] /\ redelivered'[e] = redelivered[e]
           /\ held[r] => dstate'[d] = "queued" /\ redelivered'[d]
<1>1. cur[r] # None
  BY DEF Mails!Disconnect, Mails!InformCrash, BaseInv, Turn
<1>2. d \in Delivery /\ InformTypes /\ ipc[r] # "idle"
  BY <1>1, CurIs DEF BaseInv
<1>3. /\ UNCHANGED <<locks, mails>> /\ held' = [held EXCEPT ![r] = FALSE]
      /\ \/ Mails!Fault("connection") /\ UNCHANGED <<ipc, cur, value>>
         \/ /\ Mails!Fault("crash") /\ ipc' = [ipc EXCEPT ![r] = "idle"]
            /\ cur' = [cur EXCEPT ![r] = None] /\ value' = [value EXCEPT ![r] = 0]
  BY DEF Mails!Disconnect, Mails!InformCrash, Mails!Goto
<1>4. CASE held[r]
  <2>1. /\ dstate' = [dstate EXCEPT ![d] = "queued"]
        /\ redelivered' = [redelivered EXCEPT ![d] = TRUE]
    BY <1>4 DEF Mails!Disconnect, Mails!InformCrash, Mails!Requeue
  <2>2. QED
    BY <1>2, <1>3, <1>4, <2>1 DEF InformTypes
<1>5. CASE ~held[r]
  <2>1. UNCHANGED <<dstate, redelivered>>
    BY <1>5 DEF Mails!Disconnect, Mails!InformCrash
  <2>2. QED
    BY <1>2, <1>3, <1>5, <2>1 DEF InformTypes
<1>6. QED
  BY <1>4, <1>5

\* The connection is lost, or the replica crashes.
LEMMA LossBase ==
    ASSUME BaseInv, NEW r \in Replica, Mails!Disconnect(r) \/ Mails!InformCrash(r)
    PROVE  BaseInv' /\ Grows /\ Apart(r)
<1>0. PICK d : d = cur[r]
  OBVIOUS
<1>1. /\ d \in Delivery /\ UNCHANGED <<locks, mails>> /\ held' = [held EXCEPT ![r] = FALSE]
      /\ \/ Mails!Fault("connection") /\ UNCHANGED <<ipc, cur, value>> /\ ipc[r] # "idle"
         \/ /\ Mails!Fault("crash") /\ ipc' = [ipc EXCEPT ![r] = "idle"]
            /\ cur' = [cur EXCEPT ![r] = None] /\ value' = [value EXCEPT ![r] = 0]
      /\ dstate' \in [Delivery -> {"queued", "unacked", "acked", "discarded"}]
      /\ redelivered' \in [Delivery -> BOOLEAN]
      /\ \A e \in Delivery : e # d \/ ~held[r] => dstate'[e] = dstate[e]
  BY <1>0, LossIs
<1>2. FaultOrNot /\ Turn(r) /\ InformTypes
  BY <1>1 DEF BaseInv, FaultOrNot
<1>3. Grows
  BY <1>1, <1>2, LocksStay
<1>4. held'[r] = FALSE /\ faults \subseteq faults' /\ IsFiniteSet(faults')
  BY <1>1, <1>2, FaultIs DEF InformTypes
<1>5. InformTypes'
  BY <1>1, <1>2, <1>4 DEF InformTypes
<1>6. Apart(r)
  BY <1>1, <1>2 DEF Apart, InformTypes
<1>7. Turn(r)'
  <2>1. CASE Mails!Fault("connection") /\ UNCHANGED <<ipc, cur, value>>
    <3>1. "connection" \in faults' /\ (Unfailed' => Unfailed)
      BY <1>4, <2>1 DEF Mails!Fault, Unfailed
    <3>2. /\ ipc'[r] = "idle" <=> cur'[r] = None
          /\ ipc'[r] \in OnMail => MailOf[cur'[r]] # None
          /\ ipc'[r] = "discard" => MailOf[cur'[r]] = None
          /\ ipc'[r] = "lock" => locks'[MailOf[cur'[r]]] # <<>>
          /\ value'[r] = 2 => ipc'[r] = "unlock"
          /\ ipc'[r] = "unlock" /\ value'[r] = 0 => "send" \in faults'
          /\ value'[r] = 2 \/ ipc'[r] = "ack" => mails'[MailOf[cur'[r]]] > 0
      BY <1>1, <1>2, <1>4, <2>1 DEF Turn
    <3>3. ipc'[r] = "nack" /\ mails'[MailOf[cur'[r]]] = 0 /\ Unfailed' =>
              Mails!Records(MailOf[cur[r]], 1)' # {}
      BY <1>1, <1>2, <2>1, <3>1 DEF Turn, Mails!Records
    <3>4. QED
      BY <1>4, <3>1, <3>2, <3>3 DEF Turn
  <2>2. CASE /\ Mails!Fault("crash") /\ ipc' = [ipc EXCEPT ![r] = "idle"]
             /\ cur' = [cur EXCEPT ![r] = None] /\ value' = [value EXCEPT ![r] = 0]
    <3>1. ipc'[r] = "idle" /\ cur'[r] = None /\ value'[r] = 0
      BY <1>2, <2>2 DEF InformTypes
    <3>2. QED
      BY <1>4, <3>1 DEF Turn, OnMail
  <2>3. QED
    BY <1>1, <2>1, <2>2
<1>8. ASSUME NEW s \in Replica \ {r}, held[s] PROVE dstate'[cur[s]] = "unacked"
  <2>1. cur[s] \in Delivery /\ dstate[cur[s]] = "unacked"
    BY <1>8, CurIs DEF BaseInv, Turn
  <2>2. cur[s] # d \/ ~held[r]
    BY <1>0, <1>8 DEF BaseInv, HeldOnce
  <2>3. QED
    BY <1>1, <2>1, <2>2
<1>9. QED
  BY <1>3, <1>4, <1>5, <1>6, <1>7, <1>8, BaseFrom

\* Every step keeps what holds of the replicas.
LEMMA BaseKeeps ==
    ASSUME BaseInv, MailInv, NEW r \in Replica,
           Mails!Work(r) \/ Mails!Disconnect(r) \/ Mails!InformCrash(r)
    PROVE  BaseInv' /\ Grows /\ Apart(r)
  BY DeliverBase, PrepareBase, LookBase, InsertBase, LockBase, SendBase, UnLockBase, SettleBase,
     LossBase DEF Mails!Work

\* The records of a mail with a status are finitely many.
LEMMA RecordsFinite ==
    ASSUME InformTypes, NEW m \in Mails!Mail, NEW st
    PROVE  IsFiniteSet(Mails!Records(m, st))
<1>1. locks[m] \in Seq({0, 1, 2})
  BY DEF InformTypes
<1>2. Len(locks[m]) \in Nat /\ DOMAIN locks[m] = 1 .. Len(locks[m])
  BY <1>1
<1>3. IsFiniteSet(1 .. Len(locks[m]))
  BY <1>2, FS_Interval
<1>4. Mails!Records(m, st) \subseteq 1 .. Len(locks[m])
  BY <1>2 DEF Mails!Records
<1>5. QED
  BY <1>3, <1>4, FS_Subset

\* More faults.
LEMMA BalMore ==
    ASSUME NEW R, NEW O, NEW L, Balanced(R, O, L), NEW K, IsFiniteSet(K), L \subseteq K
    PROVE  Balanced(R, O, K)
<1>1. /\ Cardinality(R) \in Nat /\ Cardinality(O) \in Nat /\ Cardinality(L) \in Nat
      /\ Cardinality(K) \in Nat /\ Cardinality(L) <= Cardinality(K)
  BY FS_CardinalityType, FS_Subset DEF Balanced
<1>2. QED
  BY <1>1 DEF Balanced

\* A record is taken by an owner.
LEMMA BalTake ==
    ASSUME NEW R, NEW O, NEW L, Balanced(R, O, L), NEW k, NEW r, k \notin R, r \notin O
    PROVE  Balanced(R \cup {k}, O \cup {r}, L)
<1>1. /\ Cardinality(R) \in Nat /\ Cardinality(O) \in Nat /\ Cardinality(L) \in Nat
  BY FS_CardinalityType DEF Balanced
<1>2. /\ IsFiniteSet(R \cup {k}) /\ Cardinality(R \cup {k}) = Cardinality(R) + 1
      /\ IsFiniteSet(O \cup {r}) /\ Cardinality(O \cup {r}) = Cardinality(O) + 1
  BY FS_AddElement DEF Balanced
<1>3. QED
  BY <1>1, <1>2 DEF Balanced

\* A record is taken by a call that fails.
LEMMA BalLeak ==
    ASSUME NEW R, NEW O, NEW L, Balanced(R, O, L), NEW k, NEW x, k \notin R, x \notin L
    PROVE  Balanced(R \cup {k}, O, L \cup {x})
<1>1. /\ Cardinality(R) \in Nat /\ Cardinality(O) \in Nat /\ Cardinality(L) \in Nat
  BY FS_CardinalityType DEF Balanced
<1>2. /\ IsFiniteSet(R \cup {k}) /\ Cardinality(R \cup {k}) = Cardinality(R) + 1
      /\ IsFiniteSet(L \cup {x}) /\ Cardinality(L \cup {x}) = Cardinality(L) + 1
  BY FS_AddElement DEF Balanced
<1>3. QED
  BY <1>1, <1>2 DEF Balanced

\* An owner lets a record go.
LEMMA BalFree ==
    ASSUME NEW R, NEW O, NEW L, Balanced(R, O, L), NEW k, NEW r, k \in R, r \in O
    PROVE  Balanced(R \ {k}, O \ {r}, L)
<1>1. /\ Cardinality(R) \in Nat /\ Cardinality(O) \in Nat /\ Cardinality(L) \in Nat
  BY FS_CardinalityType DEF Balanced
<1>2. /\ IsFiniteSet(R \ {k}) /\ Cardinality(R \ {k}) = Cardinality(R) - 1
      /\ IsFiniteSet(O \ {r}) /\ Cardinality(O \ {r}) = Cardinality(O) - 1
  BY FS_RemoveElement DEF Balanced
<1>3. QED
  BY <1>1, <1>2 DEF Balanced

\* An owner leaves its record taken.
LEMMA BalLeave ==
    ASSUME NEW R, NEW O, NEW L, Balanced(R, O, L), NEW r, NEW x, x \notin L
    PROVE  Balanced(R, O \ {r}, L \cup {x})
<1>1. /\ Cardinality(R) \in Nat /\ Cardinality(O) \in Nat /\ Cardinality(L) \in Nat
  BY FS_CardinalityType DEF Balanced
<1>2. IsFiniteSet(L \cup {x}) /\ Cardinality(L \cup {x}) = Cardinality(L) + 1
  BY FS_AddElement DEF Balanced
<1>3. CASE r \in O
  <2>1. IsFiniteSet(O \ {r}) /\ Cardinality(O \ {r}) = Cardinality(O) - 1
    BY <1>3, FS_RemoveElement DEF Balanced
  <2>2. QED
    BY <1>1, <1>2, <2>1 DEF Balanced
<1>4. CASE r \notin O
  <2>1. O \ {r} = O
    BY <1>4
  <2>2. QED
    BY <1>1, <1>2, <2>1 DEF Balanced
<1>5. QED
  BY <1>3, <1>4

\* A fault that may leave a record taken.
LEMMA FaultLeaves ==
    ASSUME NEW kind \in {"lock", "unlock", "crash"}, Mails!Fault(kind)
    PROVE  Mails!Leaving' = Mails!Leaving \cup {kind} /\ kind \notin Mails!Leaving
  BY DEF Mails!Fault, Mails!Leaving

\* These faults are three at most.
LEMMA LeavingFinite == IsFiniteSet(Mails!Leaving) /\ IsFiniteSet(Mails!Leaving')
<1>1. IsFiniteSet({"lock"})
  BY FS_Singleton
<1>2. IsFiniteSet({"lock"} \cup {"unlock"})
  BY <1>1, FS_AddElement
<1>3. IsFiniteSet(({"lock"} \cup {"unlock"}) \cup {"crash"})
  BY <1>2, FS_AddElement
<1>4. /\ Mails!Leaving \subseteq ({"lock"} \cup {"unlock"}) \cup {"crash"}
      /\ Mails!Leaving' \subseteq ({"lock"} \cup {"unlock"}) \cup {"crash"}
  BY DEF Mails!Leaving
<1>5. QED
  BY <1>3, <1>4, FS_Subset

\* The records and the owners of a mail stay.
LEMMA RecordStays ==
    ASSUME Grows, NEW m, Record(m), Owners(m)' = Owners(m),
           \A st \in {1, 2} : Mails!Records(m, st)' = Mails!Records(m, st),
           mails[m] > 0 => mails'[m] > 0
    PROVE  Record(m)'
<1>1. Mails!Leaving \subseteq Mails!Leaving'
  BY DEF Grows, Mails!Leaving
<1>2. Balanced(Mails!Records(m, 1), Owners(m), Mails!Leaving')
  BY <1>1, LeavingFinite, BalMore DEF Record
<1>3. QED
  BY <1>2 DEF Record, Balanced

\* A mail whose records, sendings and owners stay.
LEMMA MailStays ==
    ASSUME BaseInv, MailInv, Grows, NEW m \in Mails!Mail,
           locks'[m] = locks[m], mails'[m] = mails[m],
           Owners(m)' = Owners(m), \A r \in Owners(m) : ipc'[r] = ipc[r],
           \A d \in Delivery : MailOf[d] = m /\ Live(d) => Live(d)'
    PROVE  Record(m)' /\ NotSilent(m)' /\ Once(m)'
<1>1. Record(m) /\ NotSilent(m) /\ Once(m) /\ faults \subseteq faults'
  BY DEF MailInv, Grows
<1>2. \A st \in {1, 2} : Mails!Records(m, st)' = Mails!Records(m, st)
  BY DEF Mails!Records
<1>3. Record(m)'
  BY <1>1, <1>2, RecordStays
<1>4. NotSilent(m)'
  BY <1>1, <1>2 DEF NotSilent, Unfailed
<1>5. Once(m)'
  BY <1>1 DEF Once
<1>6. QED
  BY <1>3, <1>4, <1>5

\* A step of a replica changes who owns a lock only by what this replica does.
LEMMA OwnersOf ==
    ASSUME BaseInv, NEW r \in Replica, Apart(r), NEW m
    PROVE  /\ Owners(m)' \ {r} = Owners(m) \ {r}
           /\ \A s \in Owners(m) \ {r} : ipc'[s] = ipc[s]
           /\ r \in Owners(m) <=> ipc[r] \in {"send", "unlock"} /\ MailOf[cur[r]] = m
           /\ r \in Owners(m)' <=> ipc'[r] \in {"send", "unlock"} /\ MailOf[cur'[r]] = m
  BY DEF Owners, Apart

\* Steps that change no record and send nothing.
LEMMA MailsElsewhere ==
    ASSUME BaseInv, MailInv, NEW r \in Replica, Grows, Apart(r), UNCHANGED <<locks, mails>>,
           \/ ipc[r] \notin {"send", "unlock"} /\ ipc'[r] \notin {"send", "unlock"}
           \/ UNCHANGED <<ipc, cur>>,
           \A d \in Delivery : MailOf[d] # None /\ Live(d) => Live(d)'
    PROVE  MailInv'
<1> SUFFICES ASSUME NEW m \in Mails!Mail PROVE Record(m)' /\ NotSilent(m)' /\ Once(m)'
  BY DEF MailInv, Mails!Mail
<1>1. Owners(m)' = Owners(m) /\ \A s \in Owners(m) : ipc'[s] = ipc[s]
  <2>1. CASE ipc[r] \notin {"send", "unlock"} /\ ipc'[r] \notin {"send", "unlock"}
    <3>1. r \notin Owners(m) /\ r \notin Owners(m)'
      BY <2>1, OwnersOf
    <3>2. QED
      BY <3>1, OwnersOf
  <2>2. CASE UNCHANGED <<ipc, cur>>
    BY <2>2 DEF Owners
  <2>3. QED
    BY <2>1, <2>2
<1>2. m # None
  BY DEF Mails!Mail
<1>3. QED
  BY <1>1, <1>2, MailStays

\* The steps that come before the lock, and the loss of a connection.
LEMMA PlainMails ==
    ASSUME BaseInv, MailInv, NEW r \in Replica,
           \/ \E d \in Delivery : Mails!Deliver(r, d)
           \/ Mails!Prepare(r) \/ Mails!Look(r) \/ Mails!Disconnect(r)
    PROVE  MailInv'
<1>1. Grows /\ Apart(r) /\ InformTypes
  BY DeliverBase, PrepareBase, LookBase, LossBase DEF BaseInv
<1>2. UNCHANGED <<locks, mails>>
  BY DEF Mails!Deliver, Mails!Prepare, Mails!Look, Mails!LockFault, Mails!Disconnect
<1>3. \/ ipc[r] \notin {"send", "unlock"} /\ ipc'[r] \notin {"send", "unlock"}
      \/ UNCHANGED <<ipc, cur>>
  BY <1>1 DEF Mails!Deliver, Mails!Prepare, Mails!Look, Mails!LockFault, Mails!Disconnect,
              Mails!Goto, InformTypes
<1>4. \A d \in Delivery : Live(d) => Live(d)'
  <2>1. ASSUME NEW d \in Delivery, Mails!Deliver(r, d) PROVE \A e \in Delivery : Live(e) => Live(e)'
    <3>1. dstate' = [dstate EXCEPT ![d] = "unacked"]
      BY <2>1 DEF Mails!Deliver
    <3>2. QED
      BY <1>1, <3>1 DEF Live, InformTypes
  <2>2. CASE Mails!Prepare(r) \/ Mails!Look(r)
    BY <2>2 DEF Mails!Prepare, Mails!Look, Live
  <2>3. CASE Mails!Disconnect(r)
    <3>1. dstate' = [dstate EXCEPT ![cur[r]] = "queued"]
      BY <2>3 DEF Mails!Disconnect, Mails!Requeue
    <3>2. QED
      BY <1>1, <3>1 DEF Live, InformTypes
  <2>4. QED
    BY <2>1, <2>2, <2>3
<1>5. QED
  BY <1>1, <1>2, <1>3, <1>4, MailsElsewhere

\* A message is settled: one that is dropped leaves a mail that is sent or locked.
LEMMA SettleMails == ASSUME BaseInv, MailInv, NEW r \in Replica, Mails!Settle(r) PROVE MailInv'
<1>0. PICK d : d = cur[r]
  OBVIOUS
<1>1. /\ ipc[r] \in {"ack", "nack", "discard"} /\ d \in Delivery
      /\ UNCHANGED <<value, locks, mails, faults>>
      /\ ipc' = [ipc EXCEPT ![r] = "idle"]
      /\ \A e \in Delivery : e # d \/ ~held[r] => dstate'[e] = dstate[e]
      /\ held[r] /\ ipc[r] = "nack" => redelivered[d] \/ dstate'[d] = "queued"
  BY <1>0, SettleIs
<1>2. Grows /\ Apart(r) /\ Turn(r) /\ InformTypes
  BY SettleBase DEF BaseInv
<1>3. ipc'[r] = "idle"
  BY <1>1, <1>2 DEF InformTypes
<1> SUFFICES ASSUME NEW m \in Mails!Mail PROVE Record(m)' /\ NotSilent(m)' /\ Once(m)'
  BY DEF MailInv, Mails!Mail
<1>4. Owners(m)' = Owners(m) /\ \A s \in Owners(m) : ipc'[s] = ipc[s]
  <2>1. r \notin Owners(m) /\ r \notin Owners(m)'
    BY <1>1, <1>2, <1>3, OwnersOf
  <2>2. QED
    BY <1>2, <2>1, OwnersOf
<1>5. Record(m) /\ NotSilent(m) /\ Once(m) /\ m # None
  BY DEF MailInv, Mails!Mail
<1>6. \A st \in {1, 2} : Mails!Records(m, st)' = Mails!Records(m, st)
  BY <1>1 DEF Mails!Records
<1>7. Record(m)' /\ Once(m)'
  BY <1>1, <1>2, <1>4, <1>5, <1>6, RecordStays DEF Once
<1>8. NotSilent(m)'
  <2>1. CASE MailOf[d] = m
    <3>1. ipc[r] = "ack" => mails[m] > 0
      BY <1>0, <1>2, <2>1 DEF Turn
    <3>2. ipc[r] = "nack" /\ mails[m] = 0 /\ Unfailed => Mails!Records(m, 1) # {}
      BY <1>0, <1>2, <2>1 DEF Turn
    <3>3. ipc[r] # "discard" /\ mails[m] \in Nat
      BY <1>0, <1>2, <1>5, <2>1 DEF Turn, InformTypes
    <3>4. QED
      BY <1>1, <1>6, <3>1, <3>2, <3>3 DEF NotSilent, Unfailed
  <2>2. CASE MailOf[d] # m
    BY <1>1, <1>5, <1>6, <2>2 DEF NotSilent, Unfailed, Live
  <2>3. QED
    BY <2>1, <2>2
<1>9. QED
  BY <1>7, <1>8

\* A replica that crashes leaves its record taken.
LEMMA CrashMails == ASSUME BaseInv, MailInv, NEW r \in Replica, Mails!InformCrash(r) PROVE MailInv'
<1>0. PICK d : d = cur[r]
  OBVIOUS
<1>1. /\ d \in Delivery /\ UNCHANGED <<locks, mails>> /\ Mails!Fault("crash")
      /\ ipc' = [ipc EXCEPT ![r] = "idle"]
      /\ \A e \in Delivery : e # d \/ ~held[r] => dstate'[e] = dstate[e]
      /\ held[r] => dstate'[d] = "queued"
  <2>1. Mails!Fault("crash") /\ ipc' = [ipc EXCEPT ![r] = "idle"]
    BY DEF Mails!InformCrash, Mails!Goto
  <2>2. QED
    BY <1>0, <2>1, LossIs
<1>2. Grows /\ Apart(r) /\ InformTypes
  BY LossBase DEF BaseInv
<1>3. ipc'[r] = "idle" /\ "crash" \in faults' /\ faults \subseteq faults'
  BY <1>1, <1>2 DEF InformTypes, Mails!Fault
<1> SUFFICES ASSUME NEW m \in Mails!Mail PROVE Record(m)' /\ NotSilent(m)' /\ Once(m)'
  BY DEF MailInv, Mails!Mail
<1>4. Owners(m)' = Owners(m) \ {r} /\ \A s \in Owners(m)' : ipc'[s] = ipc[s]
  <2>1. r \notin Owners(m)'
    BY <1>2, <1>3, OwnersOf
  <2>2. QED
    BY <1>2, <2>1, OwnersOf
<1>5. Record(m) /\ NotSilent(m) /\ Once(m)
  BY DEF MailInv
<1>6. \A st \in {1, 2} : Mails!Records(m, st)' = Mails!Records(m, st)
  BY <1>1 DEF Mails!Records
<1>7. Balanced(Mails!Records(m, 1), Owners(m) \ {r}, Mails!Leaving')
  <2>1. Mails!Leaving' = Mails!Leaving \cup {"crash"} /\ "crash" \notin Mails!Leaving
    BY <1>1, FaultLeaves
  <2>2. Balanced(Mails!Records(m, 1), Owners(m), Mails!Leaving)
    BY <1>5 DEF Record
  <2>3. QED
    BY <2>1, <2>2, BalLeave
<1>8. Record(m)'
  BY <1>1, <1>4, <1>5, <1>6, <1>7 DEF Record, Balanced
<1>9. Once(m)'
  <2>1. /\ locks'[m] = locks[m] /\ mails'[m] = mails[m] /\ Owners(m)' \subseteq Owners(m)
        /\ "send" \notin faults' => "send" \notin faults
    BY <1>1, <1>3, <1>4
  <2>2. QED
    BY <1>4, <1>5, <2>1 DEF Once
<1>10. NotSilent(m)'
  <2>1. \A e \in Delivery : Live(e) => Live(e)'
    BY <1>1 DEF Live
  <2>2. QED
    BY <1>1, <1>3, <1>5, <1>6, <2>1 DEF NotSilent, Unfailed
<1>11. QED
  BY <1>8, <1>9, <1>10

\* A record that is inserted is free.
LEMMA InsertMails == ASSUME BaseInv, MailInv, NEW r \in Replica, Mails!Insert(r) PROVE MailInv'
<1>0. PICK c : c = MailOf[cur[r]]
  OBVIOUS
<1>1. /\ c \in Mails!Mail /\ UNCHANGED <<dstate, redelivered, cur, held, value, mails>>
      /\ ipc[r] = "insert" /\ InformTypes
      /\ \E pc \in {"lock", "nack"} : ipc' = [ipc EXCEPT ![r] = pc]
      /\ UNCHANGED locks \/ Inserts(c)
  BY <1>0, InsertIs DEF BaseInv
<1>2. Grows /\ Apart(r) /\ ipc'[r] \in {"lock", "nack"} /\ faults \subseteq faults'
  BY <1>1, InsertBase DEF InformTypes, Grows
<1> SUFFICES ASSUME NEW m \in Mails!Mail PROVE Record(m)' /\ NotSilent(m)' /\ Once(m)'
  BY DEF MailInv, Mails!Mail
<1>3. Owners(m)' = Owners(m) /\ \A s \in Owners(m) : ipc'[s] = ipc[s]
  <2>1. r \notin Owners(m) /\ r \notin Owners(m)'
    BY <1>1, <1>2, OwnersOf
  <2>2. QED
    BY <1>2, <2>1, OwnersOf
<1>4. Record(m) /\ NotSilent(m) /\ Once(m)
  BY DEF MailInv
<1>5. CASE locks'[m] = locks[m]
  BY <1>1, <1>2, <1>3, <1>5, MailStays DEF Live
<1>6. CASE Inserts(c)
  <2>1. /\ \A n \in Mails!Mail \ {c} : locks'[n] = locks[n]
        /\ locks'[c] = Append(locks[c], 0) /\ Len(locks'[c]) = Len(locks[c]) + 1
        /\ Len(locks[c]) \in Nat /\ locks[c] \in Seq({0, 1, 2})
        /\ \A k \in DOMAIN locks[c] : k \in DOMAIN locks'[c] /\ locks'[c][k] = locks[c][k]
        /\ \A n \in Mails!Mail : \A k \in DOMAIN locks'[n] :
              locks'[n][k] # 0 => k \in DOMAIN locks[n] /\ locks'[n][k] = locks[n][k]
    BY <1>1, <1>6, Insertion DEF InformTypes
  <2>2. CASE m # c
    BY <1>5, <2>1, <2>2
  <2>3. CASE m = c
    <3>1. ASSUME NEW st \in {1, 2} PROVE Mails!Records(m, st)' = Mails!Records(m, st)
      <4>1. \A k : k \in DOMAIN locks'[c] /\ locks'[c][k] = st
                      <=> k \in DOMAIN locks[c] /\ locks[c][k] = st
        BY <1>1, <2>1
      <4>2. QED
        BY <2>3, <4>1 DEF Mails!Records
    <3>2. Record(m)'
      BY <1>1, <1>2, <1>3, <1>4, <3>1, RecordStays
    <3>3. NotSilent(m)'
      BY <1>1, <1>2, <1>4, <3>1 DEF NotSilent, Unfailed, Live
    <3>4. Once(m)'
      <4> SUFFICES ASSUME "send" \notin faults', Len(locks'[m]) <= 1
                   PROVE  Owners(m)' = {} /\ mails'[m] = 0
        BY DEF Once
      <4>1. Len(locks[m]) = 0 /\ locks[m] = <<>>
        BY <2>1, <2>3
      <4>2. QED
        BY <1>1, <1>2, <1>3, <1>4, <4>1 DEF Once
    <3>5. QED
      BY <3>2, <3>3, <3>4
  <2>4. QED
    BY <2>2, <2>3
<1>7. QED
  BY <1>1, <1>5, <1>6

\* The only position of a sequence of one element at most.
LEMMA OnlyOne == ASSUME NEW n \in Nat, n <= 1, NEW k \in 1 .. n PROVE n = 1 /\ k = 1
  OBVIOUS

\* The lock is taken: one record and one owner more, or one record left taken.
LEMMA LockMails == ASSUME BaseInv, MailInv, NEW r \in Replica, Mails!Lock(r) PROVE MailInv'
<1>0. PICK c : c = MailOf[cur[r]]
  OBVIOUS
<1>1. /\ c \in Mails!Mail /\ UNCHANGED <<dstate, redelivered, cur, held, value, mails>>
      /\ ipc[r] = "lock"
      /\ \/ ipc' = [ipc EXCEPT ![r] = "nack"] /\ UNCHANGED locks
         \/ /\ \/ ipc' = [ipc EXCEPT ![r] = "send"] /\ UNCHANGED faults
               \/ ipc' = [ipc EXCEPT ![r] = "nack"] /\ Mails!Fault("lock")
            /\ \E k \in Mails!Records(c, 0) : SetsRecord(c, k, 1)
  BY <1>0, LockIs
<1>2. Grows /\ Apart(r) /\ InformTypes /\ faults \subseteq faults'
  BY LockBase DEF BaseInv, Grows
<1>3. CASE ipc' = [ipc EXCEPT ![r] = "nack"] /\ UNCHANGED locks
  <2>1. ipc'[r] = "nack"
    BY <1>2, <1>3 DEF InformTypes
  <2>2. QED
    BY <1>1, <1>2, <1>3, <2>1, MailsElsewhere DEF Live
<1>4. CASE /\ \/ ipc' = [ipc EXCEPT ![r] = "send"] /\ UNCHANGED faults
              \/ ipc' = [ipc EXCEPT ![r] = "nack"] /\ Mails!Fault("lock")
           /\ \E k \in Mails!Records(c, 0) : SetsRecord(c, k, 1)
  <2>1. PICK k \in Mails!Records(c, 0) : SetsRecord(c, k, 1)
    BY <1>4
  <2>2. /\ k \in DOMAIN locks[c] /\ locks[c][k] = 0
        /\ \/ ipc'[r] = "send" /\ UNCHANGED faults
           \/ ipc'[r] = "nack" /\ Mails!Fault("lock")
    BY <1>2, <1>4, <2>1 DEF Mails!Records, InformTypes
  <2>3. /\ \A n \in Mails!Mail \ {c} : locks'[n] = locks[n]
        /\ DOMAIN locks'[c] = DOMAIN locks[c] /\ locks'[c][k] = 1
        /\ Len(locks'[c]) = Len(locks[c]) /\ locks[c] # <<>> /\ locks[c] \in Seq({0, 1, 2})
    BY <1>1, <1>2, <2>1, <2>2, RecordSet DEF InformTypes
  <2>4. /\ Mails!Records(c, 1)' = Mails!Records(c, 1) \cup {k}
        /\ Mails!Records(c, 2)' = Mails!Records(c, 2) \ {k}
    BY <1>1, <1>2, <2>1, <2>2, RecordsSet
  <2> SUFFICES ASSUME NEW m \in Mails!Mail PROVE Record(m)' /\ NotSilent(m)' /\ Once(m)'
    BY DEF MailInv, Mails!Mail
  <2>5. Record(m) /\ NotSilent(m) /\ Once(m)
    BY DEF MailInv
  <2>6. CASE m # c
    <3>1. r \notin Owners(m) /\ r \notin Owners(m)'
      BY <1>0, <1>1, <1>2, <2>6, OwnersOf
    <3>2. Owners(m)' = Owners(m) /\ \A s \in Owners(m) : ipc'[s] = ipc[s]
      BY <1>2, <3>1, OwnersOf
    <3>3. locks'[m] = locks[m]
      BY <2>3, <2>6
    <3>4. QED
      BY <1>1, <1>2, <3>2, <3>3, MailStays DEF Live
  <2>7. CASE m = c
    <3>1. r \notin Owners(m) /\ (r \in Owners(m)' <=> ipc'[r] = "send")
      BY <1>0, <1>1, <1>2, <2>2, <2>7, OwnersOf
    <3>2. /\ Owners(m)' = IF ipc'[r] = "send" THEN Owners(m) \cup {r} ELSE Owners(m)
          /\ \A s \in Owners(m) : ipc'[s] = ipc[s]
      BY <1>2, <3>1, OwnersOf
    <3>3. k \notin Mails!Records(m, 1)
      BY <2>2, <2>7 DEF Mails!Records
    <3>4. Record(m)'
      <4>1. Mails!Records(m, 2)' # {} => mails'[m] > 0
        BY <1>1, <2>4, <2>5, <2>7 DEF Record
      <4>2. Balanced(Mails!Records(m, 1), Owners(m), Mails!Leaving)
        BY <2>5 DEF Record
      <4>3. Balanced(Mails!Records(m, 1) \cup {k}, Owners(m)', Mails!Leaving')
        <5>1. CASE ipc'[r] = "send" /\ UNCHANGED faults
          <6>1. Mails!Leaving' = Mails!Leaving
            BY <5>1 DEF Mails!Leaving
          <6>2. QED
            BY <3>1, <3>2, <3>3, <4>2, <5>1, <6>1, BalTake
        <5>2. CASE ipc'[r] = "nack" /\ Mails!Fault("lock")
          <6>1. Mails!Leaving' = Mails!Leaving \cup {"lock"} /\ "lock" \notin Mails!Leaving
            BY <5>2, FaultLeaves
          <6>2. QED
            BY <3>2, <3>3, <4>2, <5>2, <6>1, BalLeak
        <5>3. QED
          BY <2>2, <5>1, <5>2
      <4>4. QED
        BY <2>4, <2>7, <4>1, <4>3 DEF Record, Balanced
    <3>5. NotSilent(m)'
      BY <2>4, <2>7 DEF NotSilent
    <3>6. Once(m)'
      <4> SUFFICES ASSUME "send" \notin faults', Len(locks'[m]) <= 1
                   PROVE  /\ Len(locks'[m]) = 1 /\ locks'[m][1] = 1 /\ mails'[m] = 0
                          /\ Owners(m)' \subseteq {r}
        BY DEF Once
      <4>1. Len(locks[m]) = 1 /\ k = 1
        <5>1. Len(locks[c]) \in Nat /\ Len(locks[c]) <= 1 /\ k \in 1 .. Len(locks[c])
          BY <2>2, <2>3, <2>7
        <5>2. QED
          BY <2>7, <5>1, OnlyOne
      <4>2. mails[m] = 0 /\ Owners(m) = {}
        BY <1>1, <1>2, <2>2, <2>5, <2>7, <4>1 DEF Once
      <4>3. QED
        BY <1>1, <2>3, <2>7, <3>2, <4>1, <4>2
    <3>7. QED
      BY <3>4, <3>5, <3>6
  <2>8. QED
    BY <2>6, <2>7
<1>5. QED
  BY <1>1, <1>3, <1>4

\* The lock is let go: one record and one owner less.
LEMMA UnLockMails == ASSUME BaseInv, MailInv, NEW r \in Replica, Mails!UnLock(r) PROVE MailInv'
<1>0. PICK c : c = MailOf[cur[r]]
  OBVIOUS
<1>1. /\ c \in Mails!Mail /\ UNCHANGED <<dstate, redelivered, cur, held, mails>>
      /\ ipc[r] = "unlock"
      /\ ipc' = [ipc EXCEPT ![r] = IF value[r] = 2 THEN "ack" ELSE "nack"]
      /\ \/ Mails!Fault("unlock") /\ UNCHANGED locks
         \/ Mails!Records(c, 1) = {} /\ UNCHANGED <<faults, locks>>
         \/ /\ UNCHANGED faults
            /\ \E k \in Mails!Records(c, 1) : SetsRecord(c, k, value[r])
  BY <1>0, UnLockIs
<1>2. Grows /\ Apart(r) /\ InformTypes /\ Turn(r) /\ faults \subseteq faults'
  BY UnLockBase DEF BaseInv, Grows
<1>3. ipc'[r] \in {"ack", "nack"} /\ value[r] \in {0, 2}
  BY <1>1, <1>2 DEF InformTypes
<1> SUFFICES ASSUME NEW m \in Mails!Mail PROVE Record(m)' /\ NotSilent(m)' /\ Once(m)'
  BY DEF MailInv, Mails!Mail
<1>4. Record(m) /\ NotSilent(m) /\ Once(m)
  BY DEF MailInv
<1>5. Owners(m)' = Owners(m) \ {r} /\ \A s \in Owners(m)' : ipc'[s] = ipc[s]
  <2>1. r \notin Owners(m)'
    BY <1>2, <1>3, OwnersOf
  <2>2. QED
    BY <1>2, <2>1, OwnersOf
<1>6. CASE m # c
  <2>1. r \notin Owners(m)
    BY <1>0, <1>2, <1>6, OwnersOf
  <2>2. Owners(m)' = Owners(m) /\ \A s \in Owners(m) : ipc'[s] = ipc[s]
    BY <1>5, <2>1
  <2>3. locks'[m] = locks[m]
    <3>1. ASSUME NEW k \in Mails!Records(c, 1), SetsRecord(c, k, value[r])
          PROVE  locks'[m] = locks[m]
      <4>1. k \in DOMAIN locks[c]
        BY DEF Mails!Records
      <4>2. QED
        BY <1>1, <1>2, <1>3, <1>6, <3>1, <4>1, RecordSet
    <3>2. QED
      BY <1>1, <3>1
  <2>4. QED
    BY <1>1, <1>2, <2>2, <2>3, MailStays DEF Live
<1>7. CASE m = c
  <2>1. r \in Owners(m)
    BY <1>0, <1>1, <1>2, <1>7, OwnersOf
  <2>2. Balanced(Mails!Records(m, 1), Owners(m), Mails!Leaving)
    BY <1>4 DEF Record
  <2>3. value[r] = 2 => mails[m] > 0
    BY <1>0, <1>2, <1>7 DEF Turn
  <2>4. value[r] = 0 => "send" \in faults
    BY <1>1, <1>2 DEF Turn
  <2>5. NotSilent(m)'
    BY <1>1, <1>2, <1>3, <2>3, <2>4 DEF NotSilent, Unfailed
  <2>6. CASE UNCHANGED locks
    <3>1. \A st \in {1, 2} : Mails!Records(m, st)' = Mails!Records(m, st)
      BY <2>6 DEF Mails!Records
    <3>2. Mails!Fault("unlock")
      <4>1. Mails!Records(c, 1) # {}
        <5>1. Cardinality(Owners(m)) # 0 /\ Cardinality(Owners(m)) \in Nat
          BY <2>1, <2>2, FS_EmptySet, FS_CardinalityType DEF Balanced
        <5>2. Cardinality(Mails!Records(m, 1)) # 0
          BY <2>2, <5>1, FS_CardinalityType DEF Balanced
        <5>3. QED
          BY <1>7, <5>2, FS_EmptySet
      <4>2. CASE \E k \in Mails!Records(c, 1) : SetsRecord(c, k, value[r])
        <5>1. PICK k \in Mails!Records(c, 1) : SetsRecord(c, k, value[r])
          BY <4>2
        <5>2. k \in DOMAIN locks[c] /\ locks[c][k] = 1
          BY DEF Mails!Records
        <5>3. locks'[c][k] = value[r]
          BY <1>1, <1>2, <1>3, <5>1, <5>2, RecordSet
        <5>4. QED
          BY <1>3, <2>6, <5>2, <5>3
      <4>3. QED
        BY <1>1, <4>1, <4>2
    <3>3. Record(m)'
      <4>1. Balanced(Mails!Records(m, 1), Owners(m)', Mails!Leaving')
        <5>1. Mails!Leaving' = Mails!Leaving \cup {"unlock"} /\ "unlock" \notin Mails!Leaving
          BY <3>2, FaultLeaves
        <5>2. Balanced(Mails!Records(m, 1), Owners(m) \ {r}, Mails!Leaving \cup {"unlock"})
          BY <2>2, <5>1, BalLeave
        <5>3. QED
          BY <1>5, <5>1, <5>2
      <4>2. QED
        BY <1>1, <1>4, <3>1, <4>1 DEF Record, Balanced
    <3>4. Once(m)'
      <4>1. /\ locks'[m] = locks[m] /\ mails'[m] = mails[m] /\ Owners(m)' \subseteq Owners(m)
            /\ "send" \notin faults' => "send" \notin faults
        BY <1>1, <1>2, <1>5, <2>6
      <4>2. QED
        BY <1>4, <1>5, <4>1 DEF Once
    <3>5. QED
      BY <2>5, <3>3, <3>4
  <2>7. CASE UNCHANGED faults /\ \E k \in Mails!Records(c, 1) : SetsRecord(c, k, value[r])
    <3>1. PICK k \in Mails!Records(c, 1) : SetsRecord(c, k, value[r])
      BY <2>7
    <3>2. k \in DOMAIN locks[c] /\ locks[c][k] = 1
      BY DEF Mails!Records
    <3>3. /\ DOMAIN locks'[c] = DOMAIN locks[c] /\ locks'[c][k] = value[r]
          /\ Len(locks'[c]) = Len(locks[c]) /\ locks[c] # <<>> /\ locks[c] \in Seq({0, 1, 2})
      BY <1>1, <1>2, <1>3, <3>1, <3>2, RecordSet DEF InformTypes
    <3>4. Mails!Records(c, 1)' = Mails!Records(c, 1) \ {k}
      BY <1>1, <1>2, <1>3, <3>1, <3>2, RecordsSet
    <3>5. value[r] = 0 => Mails!Records(c, 2)' = Mails!Records(c, 2) \ {k}
      BY <1>1, <1>2, <1>3, <3>1, <3>2, RecordsSet
    <3>6. Record(m)'
      <4>1. Balanced(Mails!Records(m, 1) \ {k}, Owners(m)', Mails!Leaving')
        <5>1. Mails!Leaving' = Mails!Leaving
          BY <2>7 DEF Mails!Leaving
        <5>2. QED
          BY <1>5, <1>7, <2>1, <2>2, <3>1, <5>1, BalFree
      <4>2. Mails!Records(m, 2)' # {} => mails'[m] > 0
        BY <1>1, <1>3, <1>4, <1>7, <2>3, <3>5 DEF Record
      <4>3. Mails!Records(m, 1)' = Mails!Records(m, 1) \ {k}
        BY <1>7, <3>4
      <4>4. QED
        BY <4>1, <4>2, <4>3 DEF Record, Balanced
    <3>7. Once(m)'
      <4> SUFFICES ASSUME "send" \notin faults', Len(locks'[m]) <= 1
                   PROVE  Owners(m)' = {} /\ mails'[m] <= 1 /\ locks'[m] # <<>> /\ locks'[m][1] = 2
        BY DEF Once
      <4>1. value[r] = 2 /\ "send" \notin faults
        BY <1>3, <2>4, <2>7
      <4>2. Len(locks[c]) \in Nat /\ Len(locks[c]) <= 1 /\ k \in 1 .. Len(locks[c])
        BY <1>7, <3>2, <3>3
      <4>3. Len(locks[c]) = 1 /\ k = 1
        BY <4>2, OnlyOne
      <4>4. Owners(m) = {r} /\ mails[m] <= 1
        BY <1>4, <1>7, <2>1, <4>1, <4>3 DEF Once
      <4>5. locks'[c] # <<>>
        BY <1>1, <1>2, <3>3 DEF Grows
      <4>6. QED
        BY <1>1, <1>5, <1>7, <3>3, <4>1, <4>3, <4>4, <4>5
    <3>8. QED
      BY <2>5, <3>6, <3>7
  <2>8. QED
    BY <1>1, <2>6, <2>7
<1>8. QED
  BY <1>6, <1>7

\* The mail is sent by one who has its lock.
LEMMA SendMails == ASSUME BaseInv, MailInv, NEW r \in Replica, Mails!Send(r) PROVE MailInv'
<1>0. PICK c : c = MailOf[cur[r]]
  OBVIOUS
<1>1. /\ c \in Mails!Mail /\ UNCHANGED <<dstate, redelivered, cur, held, locks>>
      /\ ipc[r] = "send" /\ ipc' = [ipc EXCEPT ![r] = "unlock"]
      /\ mails' \in [Mails!Mail -> Nat]
      /\ \A n \in Mails!Mail \ {c} : mails'[n] = mails[n]
      /\ \/ mails'[c] = mails[c] + 1 /\ value'[r] = 2 /\ UNCHANGED faults
         \/ /\ Mails!Fault("send") /\ value'[r] = 0
            /\ mails'[c] \in {mails[c], mails[c] + 1}
  BY <1>0, SendIs
<1>2. Grows /\ Apart(r) /\ InformTypes /\ Turn(r) /\ faults \subseteq faults'
  BY SendBase DEF BaseInv, Grows
<1>3. ipc'[r] = "unlock"
  BY <1>1, <1>2 DEF InformTypes
<1> SUFFICES ASSUME NEW m \in Mails!Mail PROVE Record(m)' /\ NotSilent(m)' /\ Once(m)'
  BY DEF MailInv, Mails!Mail
<1>4. Record(m) /\ NotSilent(m) /\ Once(m) /\ mails[m] \in Nat
  BY <1>2 DEF MailInv, InformTypes
<1>5. Owners(m)' = Owners(m) /\ \A s \in Owners(m) \ {r} : ipc'[s] = ipc[s]
  <2>1. r \in Owners(m)' <=> r \in Owners(m)
    BY <1>0, <1>1, <1>2, <1>3, OwnersOf
  <2>2. QED
    BY <1>2, <2>1, OwnersOf
<1>6. \A st \in {1, 2} : Mails!Records(m, st)' = Mails!Records(m, st)
  BY <1>1 DEF Mails!Records
<1>7. mails[m] <= mails'[m] /\ mails'[m] \in Nat
  BY <1>1, <1>2 DEF Grows
<1>8. Record(m)'
  <2>1. mails[m] > 0 => mails'[m] > 0
    BY <1>4, <1>7
  <2>2. QED
    BY <1>2, <1>4, <1>5, <1>6, <2>1, RecordStays
<1>9. NotSilent(m)'
  <2>1. mails[m] > 0 => mails'[m] > 0
    BY <1>4, <1>7
  <2>2. QED
    BY <1>1, <1>2, <1>4, <1>6, <2>1 DEF NotSilent, Unfailed, Live
<1>10. Once(m)'
  <2>1. CASE m # c
    <3>1. r \notin Owners(m)
      BY <1>0, <1>2, <2>1, OwnersOf
    <3>2. locks'[m] = locks[m] /\ mails'[m] = mails[m] /\ ("send" \notin faults' => "send" \notin faults)
      BY <1>1, <1>2, <2>1
    <3>3. QED
      BY <1>4, <1>5, <3>1, <3>2 DEF Once
  <2>2. CASE m = c
    <3> SUFFICES ASSUME "send" \notin faults', Len(locks'[m]) <= 1
                 PROVE  /\ Owners(m)' = {r} /\ mails'[m] = 1
                        /\ Len(locks'[m]) = 1 /\ locks'[m][1] = 1
      BY <1>3 DEF Once
    <3>1. "send" \notin faults /\ locks' = locks /\ mails'[m] = mails[m] + 1
      BY <1>1, <1>2, <2>2 DEF Mails!Fault
    <3>2. r \in Owners(m)
      BY <1>0, <1>1, <1>2, <2>2, OwnersOf
    <3>3. Owners(m) = {r} /\ mails[m] = 0 /\ Len(locks[m]) = 1 /\ locks[m][1] = 1
      BY <1>1, <1>4, <3>1, <3>2 DEF Once
    <3>4. QED
      BY <1>5, <3>1, <3>3
  <2>3. QED
    BY <2>1, <2>2
<1>11. QED
  BY <1>8, <1>9, <1>10

\* Every step keeps what holds of the mails.
LEMMA MailsKeep ==
    ASSUME BaseInv, MailInv, NEW r \in Replica,
           Mails!Work(r) \/ Mails!Disconnect(r) \/ Mails!InformCrash(r)
    PROVE  MailInv'
  BY PlainMails, InsertMails, LockMails, SendMails, UnLockMails, SettleMails, CrashMails
     DEF Mails!Work

\* A fault that leaves but one.
LEMMA FirstFault ==
    ASSUME NEW kind, Mails!Fault(kind), Calm'
    PROVE  faults = {} /\ faults' = {kind} /\ kind \in {"prepare", "send", "lock"}
<1>1. kind \notin faults /\ faults' = faults \cup {kind}
  BY DEF Mails!Fault
<1>2. faults' = {"prepare"} \/ faults' = {"send"} \/ faults' = {"lock"}
  BY <1>1 DEF Calm
<1>3. QED
  BY <1>1, <1>2

\* Without other faults a delivery that is worked on is worked on by one.
LEMMA CalmHeld ==
    ASSUME BaseInv, Calm, NEW r \in Replica, NEW s \in Replica \ {r}, ipc[r] # "idle", ipc[s] # "idle"
    PROVE  cur[s] # cur[r]
<1>1. Turn(r) /\ Turn(s) /\ HeldOnce
  BY DEF BaseInv
<1>2. "connection" \notin faults
  BY DEF Calm
<1>3. held[r] /\ held[s]
  BY <1>1, <1>2 DEF Turn
<1>4. QED
  BY <1>1, <1>3 DEF HeldOnce

\* What was sent stays so, and one who is about to send still is.
LEMMA SendsStays ==
    ASSUME BaseInv, NEW r \in Replica, Grows, Apart(r), NEW m \in Mails!Mail, NEW d, Sends(m, d),
           ipc[r] # "send" \/ cur[r] = d \/ (MailOf[cur[r]] = m => mails'[m] > 0), InformTypes'
    PROVE  Sends(m, d)'
<1>1. mails[m] \in Nat /\ mails'[m] \in Nat /\ mails[m] <= mails'[m]
  BY DEF BaseInv, InformTypes, Grows
<1>2. CASE mails[m] > 0
  BY <1>1, <1>2 DEF Sends
<1>3. ASSUME NEW t \in Replica, ipc[t] = "send" /\ MailOf[cur[t]] = m /\ cur[t] # d
      PROVE  Sends(m, d)'
  <2>1. CASE t = r
    BY <1>3, <2>1 DEF Sends
  <2>2. CASE t # r
    <3>1. ipc'[t] = ipc[t] /\ cur'[t] = cur[t]
      BY <2>2 DEF Apart
    <3>2. QED
      BY <1>3, <3>1 DEF Sends
  <2>3. QED
    BY <2>1, <2>2
<1>4. QED
  BY <1>2, <1>3 DEF Sends

\* Who finds no free record finds the mail sent or a record taken.
LEMMA LockTaken ==
    ASSUME BaseInv, MailInv, NEW r \in Replica, NEW m, m = MailOf[cur[r]], ipc[r] = "lock",
           Mails!Records(m, 0) = {}, mails[m] = 0
    PROVE  m \in Mails!Mail /\ Mails!Records(m, 1) # {}
<1>1. m \in Mails!Mail /\ InformTypes /\ Turn(r)
  BY MailIs DEF BaseInv, OnMail
<1>2. locks[m] # <<>> /\ locks[m] \in Seq({0, 1, 2})
  BY <1>1 DEF Turn, InformTypes
<1>3. 1 \in DOMAIN locks[m] /\ locks[m][1] \in {0, 1, 2}
  BY <1>2
<1>4. Mails!Records(m, 2) = {}
  BY <1>1 DEF MailInv, Record
<1>5. QED
  BY <1>1, <1>3, <1>4 DEF Mails!Records

\* When no call of Lock failed, who finds the lock taken finds the mail sent, or
\* one who is about to, or one whose sending failed.
LEMMA LockBusy ==
    ASSUME BaseInv, MailInv, Calm, "lock" \notin faults, NEW r \in Replica, NEW m, m = MailOf[cur[r]], ipc[r] = "lock",
           Mails!Records(m, 0) = {}
    PROVE  \/ Sends(m, cur[r])
           \/ /\ "send" \in faults
              /\ \E t \in Replica \ {r} : ipc[t] = "unlock" /\ MailOf[cur[t]] = m /\ cur[t] \in Delivery
<1>1. m \in Mails!Mail /\ InformTypes /\ Turn(r)
  BY MailIs DEF BaseInv, OnMail
<1>2. Record(m) /\ mails[m] \in Nat
  BY <1>1 DEF MailInv, InformTypes
<1>5. CASE mails[m] # 0
  BY <1>2, <1>5 DEF Sends
<1>6. CASE mails[m] = 0
  <2>1. Balanced(Mails!Records(m, 1), Owners(m), Mails!Leaving)
    BY <1>2 DEF Record
  <2>2. Mails!Records(m, 1) # {}
    BY <1>6, LockTaken
  <2>3. Mails!Leaving = {}
    BY DEF Calm, Mails!Leaving
  <2>4. Owners(m) # {}
    <3>1. Cardinality(Mails!Records(m, 1)) # 0 /\ Cardinality(Mails!Records(m, 1)) \in Nat
      BY <2>1, <2>2, FS_EmptySet, FS_CardinalityType DEF Balanced
    <3>2. Cardinality(Mails!Leaving) = 0
      BY <2>3, FS_EmptySet
    <3>3. Cardinality(Owners(m)) # 0
      BY <2>1, <3>1, <3>2 DEF Balanced
    <3>4. QED
      BY <3>3, FS_EmptySet
  <2>5. PICK t \in Replica : ipc[t] \in {"send", "unlock"} /\ MailOf[cur[t]] = m
    BY <2>4 DEF Owners
  <2>6. t # r /\ ipc[t] # "idle" /\ ipc[t] \in OnMail
    BY <2>5 DEF OnMail
  <2>7. cur[t] # cur[r] /\ cur[t] \in Delivery /\ Turn(t) /\ value[t] \in {0, 2}
    BY <1>1, <2>6, CalmHeld, MailIs DEF BaseInv, InformTypes
  <2>8. CASE ipc[t] = "send"
    BY <2>5, <2>7, <2>8 DEF Sends
  <2>9. CASE ipc[t] = "unlock"
    <3>1. value[t] # 2
      BY <1>6, <2>5, <2>7 DEF Turn
    <3>2. "send" \in faults
      BY <2>7, <2>9, <3>1 DEF Turn
    <3>3. QED
      BY <2>5, <2>6, <2>7, <2>9, <3>2
  <2>10. QED
    BY <2>5, <2>8, <2>9
<1>7. QED
  BY <1>5, <1>6

\* A step that is no fault.
LEMMA SecondFrom ==
    ASSUME BaseInv, Second, Calm, UNCHANGED faults, NEW r \in Replica, Apart(r),
           \A m \in Mails!Mail : \A d \in Delivery : Sends(m, d) => Sends(m, d)',
           \A d \in Delivery : d # cur[r] \/ ipc[r] = "idle" => redelivered'[d] = redelivered[d],
           faults = {} => \A d \in Delivery :
               MailOf[d] # None /\ redelivered'[d] /\ ~redelivered[d] => Sends(MailOf[d], d)',
           ipc'[r] = "nack" /\ faults \in {{}, {"prepare"}} => Sends(MailOf[cur[r]], cur[r])',
           ipc'[r] = "unlock" => value'[r] = 2
    PROVE  Second'
<1>1. ASSUME NEW d \in Delivery, MailOf[d] # None, Sends(MailOf[d], d) PROVE Sends(MailOf[d], d)'
  BY <1>1 DEF Mails!Mail
<1>2. faults = {} => \A d \in Delivery : MailOf[d] # None /\ redelivered'[d] => Sends(MailOf[d], d)'
  BY <1>1 DEF Second
<1>3. ASSUME NEW s \in Replica \ {r}, ipc'[s] \in {"nack", "unlock"}
      PROVE  /\ ipc'[s] = ipc[s] /\ value'[s] = value[s]
             /\ redelivered'[cur'[s]] = redelivered[cur[s]]
             /\ Sends(MailOf[cur[s]], cur[s]) => Sends(MailOf[cur[s]], cur[s])'
  <2>1. PICK d : d = cur[s]
    OBVIOUS
  <2>2. ipc'[s] = ipc[s] /\ value'[s] = value[s] /\ cur'[s] = d
    BY <2>1 DEF Apart
  <2>3. d \in Delivery /\ MailOf[d] # None
    BY <1>3, <2>1, <2>2, MailIs DEF OnMail
  <2>4. ipc[r] # "idle" => cur[s] # cur[r]
    BY <1>3, <2>2, CalmHeld
  <2>5. redelivered'[d] = redelivered[d]
    BY <2>1, <2>3, <2>4
  <2>6. Sends(MailOf[d], d) => Sends(MailOf[d], d)'
    BY <1>1, <2>3
  <2>7. QED
    BY <2>1, <2>2, <2>5, <2>6 DEF Sends
<1>4. faults = {} => \A s \in Replica : ipc'[s] = "nack" => Sends(MailOf[cur[s]], cur[s])'
  <2> SUFFICES ASSUME faults = {}, NEW s \in Replica, ipc'[s] = "nack"
               PROVE  Sends(MailOf[cur[s]], cur[s])'
    OBVIOUS
  <2>1. CASE s = r
    BY <2>1 DEF Sends
  <2>2. CASE s # r
    BY <1>3, <2>2 DEF Second
  <2>3. QED
    BY <2>1, <2>2
<1>5. faults = {"prepare"} => \A s \in Replica :
          ipc'[s] = "nack" /\ redelivered'[cur'[s]] => Sends(MailOf[cur[s]], cur[s])'
  <2> SUFFICES ASSUME faults = {"prepare"}, NEW s \in Replica, ipc'[s] = "nack",
                      redelivered'[cur'[s]]
               PROVE  Sends(MailOf[cur[s]], cur[s])'
    OBVIOUS
  <2>1. CASE s = r
    BY <2>1 DEF Sends
  <2>2. CASE s # r
    BY <1>3, <2>2 DEF Second
  <2>3. QED
    BY <2>1, <2>2
<1>6. faults = {"send"} => \A s \in Replica :
          ipc'[s] = "unlock" /\ value'[s] = 0 /\ redelivered'[cur'[s]] =>
              Sends(MailOf[cur[s]], cur[s])'
  <2> SUFFICES ASSUME faults = {"send"}, NEW s \in Replica, ipc'[s] = "unlock", value'[s] = 0,
                      redelivered'[cur'[s]]
               PROVE  Sends(MailOf[cur[s]], cur[s])'
    OBVIOUS
  <2>1. s # r
    OBVIOUS
  <2>2. QED
    BY <1>3, <2>1 DEF Second
<1>7. QED
  BY <1>2, <1>4, <1>5, <1>6 DEF Second
\* A mail that may still be sent is so after a step that is none of its
\* failing for the last time.
LEMMA HopeStays ==
    ASSUME BaseInv, InformTypes', Calm, NEW r \in Replica, Apart(r), Grows,
           NEW m \in Mails!Mail, Hopeful(m), m # None,
           \A d \in Delivery : dstate[d] = "queued" =>
               dstate'[d] = "queued" \/ (cur'[r] = d /\ ipc'[r] # "nack"),
           \A d \in Delivery : d # cur[r] => redelivered'[d] = redelivered[d],
           ipc[r] # "idle" /\ MailOf[cur[r]] = m =>
               \/ cur'[r] = cur[r] /\ ~(ipc'[r] = "nack" /\ redelivered'[cur[r]])
               \/ dstate'[cur[r]] = "queued"
               \/ ipc[r] = "nack" /\ redelivered[cur[r]]
               \/ Sends(m, cur[r])'
               \/ \E t \in Replica \ {r} : ipc[t] = "unlock" /\ MailOf[cur[t]] = m /\ cur[t] \in Delivery
               \/ faults' = {"lock"} /\ Mails!Records(m, 1)' # {}
    PROVE  Hopeful(m)'
<1> SUFFICES ASSUME Calm' PROVE Hopeful(m)'
  BY DEF Hopeful
<1> DEFINE Goal == \/ mails'[m] > 0
                   \/ \E t \in Replica : ipc'[t] = "send" /\ MailOf[cur'[t]] = m
                   \/ \E d \in Delivery : MailOf[d] = m /\ Hope(d)'
                   \/ faults' = {"lock"} /\ Mails!Records(m, 1)' # {}
<1>1. mails[m] \in Nat /\ mails'[m] \in Nat /\ mails[m] <= mails'[m]
  BY DEF BaseInv, InformTypes, Grows
<1>2. Sends(m, cur[r])' => Goal
  BY DEF Sends
<1>3. ASSUME NEW t \in Replica \ {r}, ipc[t] = "unlock", MailOf[cur[t]] = m, cur[t] \in Delivery
      PROVE  Goal
  <2>1. ipc'[t] = "unlock" /\ cur'[t] = cur[t]
    BY <1>3 DEF Apart
  <2>2. Hope(cur[t])'
    BY <2>1 DEF Hope
  <2>3. PICK d \in Delivery : d = cur[t]
    BY <1>3
  <2>4. Hope(d)'
    BY <2>1, <2>3 DEF Hope
  <2>5. QED
    BY <1>3, <2>3, <2>4
<1>4. ASSUME ipc[r] # "idle", MailOf[cur[r]] = m, ~(ipc[r] = "nack" /\ redelivered[cur[r]])
      PROVE  Goal
  <2>1. PICK d \in Delivery : d = cur[r]
    BY <1>4, CurIs DEF BaseInv, Turn
  <2>2. CASE cur'[r] = cur[r] /\ ~(ipc'[r] = "nack" /\ redelivered'[cur[r]])
    <3>1. Hope(d)'
      BY <2>1, <2>2 DEF Hope
    <3>2. QED
      BY <1>4, <2>1, <3>1
  <2>3. CASE dstate'[cur[r]] = "queued"
    <3>1. Hope(d)'
      BY <2>1, <2>3 DEF Hope
    <3>2. QED
      BY <1>4, <2>1, <3>1
  <2>4. QED
    BY <1>2, <1>3, <1>4, <2>2, <2>3
<1>5. ASSUME mails[m] > 0 PROVE Goal
  BY <1>1, <1>5
<1>6. ASSUME NEW t \in Replica, ipc[t] = "send", MailOf[cur[t]] = m PROVE Goal
  <2>1. CASE t # r
    <3>1. ipc'[t] = ipc[t] /\ cur'[t] = cur[t]
      BY <2>1 DEF Apart
    <3>2. QED
      BY <1>6, <3>1
  <2>2. CASE t = r
    BY <1>4, <1>6, <2>2
  <2>3. QED
    BY <2>1, <2>2
<1>7. ASSUME NEW d \in Delivery, MailOf[d] = m, Hope(d) PROVE Goal
  <2>1. CASE dstate[d] = "queued"
    <3>1. CASE dstate'[d] = "queued"
      BY <1>7, <3>1 DEF Hope
    <3>2. CASE cur'[r] = d /\ ipc'[r] # "nack"
      BY <1>7, <3>2 DEF Hope
    <3>3. QED
      BY <2>1, <3>1, <3>2
  <2>2. ASSUME NEW s \in Replica, cur[s] = d, ~(ipc[s] = "nack" /\ redelivered[d]) PROVE Goal
    <3>1. ipc[s] # "idle"
      BY <2>2, ServicesAssumption DEF BaseInv, Turn
    <3>2. CASE s = r
      BY <1>4, <1>7, <2>2, <3>1, <3>2
    <3>3. CASE s # r
      <4>1. ipc'[s] = ipc[s] /\ cur'[s] = d
        BY <2>2, <3>3 DEF Apart
      <4>2. ipc[r] # "idle" => cur[r] # d
        BY <2>2, <3>1, <3>3, CalmHeld
      <4>3. ipc[r] = "idle" => cur[r] # d
        BY ServicesAssumption DEF BaseInv, Turn
      <4>4. redelivered'[d] = redelivered[d]
        BY <4>2, <4>3
      <4>5. Hope(d)'
        BY <2>2, <4>1, <4>4 DEF Hope
      <4>6. QED
        BY <1>7, <4>5
    <3>4. QED
      BY <3>2, <3>3
  <2>3. QED
    BY <1>7, <2>1, <2>2 DEF Hope
<1>8. ASSUME faults = {"lock"}, Mails!Records(m, 1) # {} PROVE Goal
  <2>1. faults' = {"lock"}
    BY <1>8 DEF Grows, Calm
  <2>2. mails'[m] = 0 => Mails!Records(m, 1)' # {}
    BY <1>8, <2>1 DEF Grows
  <2>3. QED
    BY <1>1, <2>1, <2>2
<1>9. Goal
  BY <1>5, <1>6, <1>7, <1>8 DEF Hopeful
<1> HIDE DEF Goal
<1>10. QED
  BY <1>9 DEF Hopeful, Goal, Mails!Records

\* What holds while there is at most one fault of these kinds.
HopeInv == Second /\ \A m \in Mails!Mail : Hopeful(m)

\* The mails that a step leaves as they are.
LEMMA AllSendsStay ==
    ASSUME BaseInv, InformTypes', NEW r \in Replica, Grows, Apart(r), ipc[r] # "send",
           NEW m \in Mails!Mail, NEW d, Sends(m, d)
    PROVE  Sends(m, d)'
  BY SendsStays

\* Faults of other kinds, or more of them, leave nothing to show.
LEMMA NotCalm == ASSUME ~Calm' PROVE HopeInv'
  BY DEF HopeInv, Second, Hopeful, Calm

\* A message is delivered.
LEMMA DeliverHope ==
    ASSUME BaseInv, HopeInv, NEW r \in Replica, NEW d \in Delivery, Mails!Deliver(r, d)
    PROVE  HopeInv'
<1>1. /\ ipc[r] = "idle" /\ dstate' = [dstate EXCEPT ![d] = "unacked"]
      /\ cur' = [cur EXCEPT ![r] = d]
      /\ ipc' = [ipc EXCEPT ![r] = IF MailOf[d] = None THEN "discard" ELSE "prepare"]
      /\ UNCHANGED <<redelivered, faults>>
  BY DEF Mails!Deliver, Mails!Goto
<1>2. InformTypes /\ InformTypes' /\ Grows /\ Apart(r)
  BY DeliverBase DEF BaseInv
<1>3. ipc'[r] \in {"discard", "prepare"} /\ cur'[r] = d
  BY <1>1, <1>2 DEF InformTypes
<1>4. CASE Calm
  <2>1. Second'
    BY <1>1, <1>2, <1>3, <1>4, AllSendsStay, SecondFrom DEF HopeInv
  <2>2. \A e \in Delivery : dstate[e] = "queued" => dstate'[e] = "queued" \/ e = d
    BY <1>1, <1>2 DEF InformTypes
  <2>3. ASSUME NEW m \in Mails!Mail PROVE Hopeful(m)'
    BY <1>1, <1>2, <1>3, <1>4, <2>2, HopeStays DEF HopeInv, Mails!Mail
  <2>4. QED
    BY <2>1, <2>3 DEF HopeInv
<1>5. QED
  BY <1>1, <1>4, NotCalm DEF Calm

\* A call of Lock fails for the first time: a message that came a second time has
\* somebody else to send its mail, and any other is put back.
LEMMA LockFails ==
    ASSUME BaseInv, InformTypes', HopeInv, NEW r \in Replica, Grows, Apart(r),
           ipc[r] \in {"look", "insert", "lock"}, ipc'[r] = "nack", Mails!Fault("lock"),
           UNCHANGED <<dstate, redelivered, cur>>
    PROVE  HopeInv'
<1>1. CASE Calm'
  <2>1. faults = {} /\ faults' = {"lock"} /\ Calm
    BY <1>1, FirstFault DEF Calm
  <2>2. PICK d : d = cur[r]
    OBVIOUS
  <2>3. d \in Delivery /\ MailOf[d] # None /\ MailOf[d] \in Mails!Mail
    BY <2>2, MailIs DEF OnMail
  <2>4. redelivered[d] => Sends(MailOf[d], d)'
    <3>1. redelivered[d] => Sends(MailOf[d], d)
      BY <2>1, <2>3 DEF HopeInv, Second
    <3>2. QED
      BY <2>3, <3>1, AllSendsStay
  <2>5. Second'
    BY <2>1 DEF Second
  <2>6. ASSUME NEW m \in Mails!Mail PROVE Hopeful(m)'
    <3>1. MailOf[cur[r]] = m /\ redelivered[d] => Sends(m, cur[r])'
      BY <2>2, <2>4 DEF Sends
    <3>2. QED
      BY <2>1, <2>2, <3>1, HopeStays DEF HopeInv, Mails!Mail
  <2>7. QED
    BY <2>5, <2>6 DEF HopeInv
<1>2. QED
  BY <1>1, NotCalm

\* The look at the lock, and the insertion of a record.
LEMMA OnwardHope ==
    ASSUME BaseInv, HopeInv, NEW r \in Replica, Mails!Look(r) \/ Mails!Insert(r)
    PROVE  HopeInv'
<1>1. /\ ipc[r] \in {"look", "insert"} /\ UNCHANGED <<dstate, redelivered, cur>>
      /\ \/ UNCHANGED faults /\ \E pc \in {"insert", "lock"} : ipc' = [ipc EXCEPT ![r] = pc]
         \/ Mails!Fault("lock") /\ ipc' = [ipc EXCEPT ![r] = "nack"]
  BY DEF Mails!Look, Mails!Insert, Mails!LockFault, Mails!Goto
<1>2. InformTypes /\ InformTypes' /\ Grows /\ Apart(r)
  BY LookBase, InsertBase DEF BaseInv
<1>3. /\ \/ UNCHANGED faults /\ ipc'[r] \in {"insert", "lock"}
         \/ Mails!Fault("lock") /\ ipc'[r] = "nack"
      /\ cur'[r] = cur[r]
  BY <1>1, <1>2 DEF InformTypes
<1>4. CASE UNCHANGED faults /\ ipc'[r] \in {"insert", "lock"} /\ Calm
  <2>1. Second'
    BY <1>1, <1>2, <1>3, <1>4, AllSendsStay, SecondFrom DEF HopeInv
  <2>2. ASSUME NEW m \in Mails!Mail PROVE Hopeful(m)'
    BY <1>1, <1>2, <1>3, <1>4, HopeStays DEF HopeInv, Mails!Mail
  <2>3. QED
    BY <2>1, <2>2 DEF HopeInv
<1>5. CASE Mails!Fault("lock") /\ ipc'[r] = "nack"
  BY <1>1, <1>2, <1>5, LockFails
<1>6. QED
  BY <1>3, <1>4, <1>5, NotCalm DEF Calm

\* The lock is taken, or somebody else has it, or the call fails.
LEMMA LockHope ==
    ASSUME BaseInv, MailInv, HopeInv, NEW r \in Replica, Mails!Lock(r)
    PROVE  HopeInv'
<1>0. PICK c, d : c = MailOf[cur[r]] /\ d = cur[r]
  OBVIOUS
<1>1. /\ c \in Mails!Mail /\ UNCHANGED <<dstate, redelivered, cur, mails>>
      /\ ipc[r] = "lock"
      /\ \/ /\ Mails!Records(c, 0) = {} /\ ipc' = [ipc EXCEPT ![r] = "nack"]
            /\ UNCHANGED <<locks, faults>>
         \/ ipc' = [ipc EXCEPT ![r] = "send"] /\ UNCHANGED faults
         \/ ipc' = [ipc EXCEPT ![r] = "nack"] /\ Mails!Fault("lock")
  BY <1>0, LockIs
<1>2. InformTypes /\ InformTypes' /\ Grows /\ Apart(r)
  BY LockBase DEF BaseInv
<1>3. /\ \/ ipc'[r] = "nack" /\ Mails!Records(c, 0) = {} /\ UNCHANGED <<locks, faults>>
         \/ ipc'[r] = "send" /\ UNCHANGED faults
         \/ ipc'[r] = "nack" /\ Mails!Fault("lock")
      /\ cur'[r] = cur[r]
  BY <1>1, <1>2 DEF InformTypes
<1>4. CASE /\ Calm /\ UNCHANGED faults
           /\ ipc'[r] = "send" \/ (Mails!Records(c, 0) = {} /\ UNCHANGED locks)
  <2>1. ipc'[r] = "nack" /\ Mails!Records(c, 0) = {} /\ "lock" \notin faults =>
            \/ Sends(c, d)'
            \/ /\ "send" \in faults
               /\ \E t \in Replica \ {r} : /\ ipc[t] = "unlock" /\ MailOf[cur[t]] = c
                                           /\ cur[t] \in Delivery
    BY <1>0, <1>1, <1>2, <1>4, LockBusy, AllSendsStay
  <2>2. ipc'[r] = "nack" /\ "lock" \in faults =>
            \/ Sends(c, d)'
            \/ faults' = {"lock"} /\ Mails!Records(c, 1)' # {}
    <3> SUFFICES ASSUME ipc'[r] = "nack", "lock" \in faults, mails[c] = 0
                 PROVE  faults' = {"lock"} /\ Mails!Records(c, 1)' # {}
      BY <1>1, <1>2 DEF Sends, InformTypes
    <3>1. Mails!Records(c, 1) # {} /\ UNCHANGED locks
      BY <1>0, <1>1, <1>3, <1>4, LockTaken
    <3>2. QED
      BY <1>4, <3>1 DEF Calm, Mails!Records
  <2>3. Sends(c, d)' => Sends(MailOf[cur[r]], cur[r])'
    BY <1>0, <1>1 DEF Sends
  <2>4. Second'
    <3>1. ipc'[r] = "nack" /\ faults \in {{}, {"prepare"}} => Sends(MailOf[cur[r]], cur[r])'
      BY <1>4, <2>1, <2>3
    <3>2. ipc'[r] # "unlock"
      BY <1>3
    <3>3. QED
      BY <1>1, <1>2, <1>4, <3>1, <3>2, AllSendsStay, SecondFrom DEF HopeInv
  <2>5. ASSUME NEW m \in Mails!Mail PROVE Hopeful(m)'
    <3>1. Sends(c, d)' => Sends(c, cur[r])'
      BY <1>0, <1>1 DEF Sends
    <3>2. ipc'[r] = "nack" =>
              \/ Sends(c, cur[r])'
              \/ \E t \in Replica \ {r} : ipc[t] = "unlock" /\ MailOf[cur[t]] = c /\ cur[t] \in Delivery
              \/ faults' = {"lock"} /\ Mails!Records(c, 1)' # {}
      BY <1>4, <2>1, <2>2, <3>1
    <3>3. QED
      BY <1>0, <1>1, <1>2, <1>3, <1>4, <3>2, HopeStays DEF HopeInv, Mails!Mail
  <2>6. QED
    BY <2>4, <2>5 DEF HopeInv
<1>5. CASE Mails!Fault("lock") /\ ipc'[r] = "nack"
  BY <1>1, <1>2, <1>5, LockFails
<1>6. QED
  BY <1>3, <1>4, <1>5, NotCalm DEF Calm

\* The preparation of the mail.
LEMMA PrepareHope == ASSUME BaseInv, HopeInv, NEW r \in Replica, Mails!Prepare(r) PROVE HopeInv'
<1>0. PICK d : d = cur[r]
  OBVIOUS
<1>1. /\ ipc[r] = "prepare" /\ UNCHANGED <<dstate, redelivered, cur, value>>
      /\ \/ ipc' = [ipc EXCEPT ![r] = "look"] /\ UNCHANGED faults
         \/ ipc' = [ipc EXCEPT ![r] = "nack"] /\ Mails!Fault("prepare")
  BY DEF Mails!Prepare, Mails!Goto
<1>2. InformTypes /\ InformTypes' /\ Grows /\ Apart(r)
  BY PrepareBase DEF BaseInv
<1>3. d \in Delivery /\ MailOf[d] # None /\ MailOf[d] \in Mails!Mail
  BY <1>0, <1>1, MailIs DEF OnMail
<1>4. CASE ipc' = [ipc EXCEPT ![r] = "look"] /\ UNCHANGED faults /\ Calm
  <2>1. ipc'[r] = "look" /\ cur'[r] = cur[r]
    BY <1>1, <1>2, <1>4 DEF InformTypes
  <2>2. Second'
    BY <1>1, <1>2, <1>4, <2>1, AllSendsStay, SecondFrom DEF HopeInv
  <2>3. ASSUME NEW m \in Mails!Mail PROVE Hopeful(m)'
    BY <1>1, <1>2, <1>4, <2>1, HopeStays DEF HopeInv, Mails!Mail
  <2>4. QED
    BY <2>2, <2>3 DEF HopeInv
<1>5. CASE ipc' = [ipc EXCEPT ![r] = "nack"] /\ Mails!Fault("prepare") /\ Calm'
  <2>1. faults = {} /\ faults' = {"prepare"} /\ Calm
    BY <1>5, FirstFault DEF Calm
  <2>2. ipc'[r] = "nack" /\ cur' = cur /\ redelivered' = redelivered
    BY <1>1, <1>2, <1>5 DEF InformTypes
  <2>3. ASSUME NEW e \in Delivery, redelivered[e], MailOf[e] # None PROVE Sends(MailOf[e], e)'
    <3>1. Sends(MailOf[e], e) /\ MailOf[e] \in Mails!Mail
      BY <2>1, <2>3 DEF HopeInv, Second, Mails!Mail
    <3>2. QED
      BY <1>1, <1>2, <3>1, AllSendsStay
  <2>4. Second'
    <3> SUFFICES ASSUME NEW s \in Replica, ipc'[s] = "nack", redelivered'[cur'[s]]
                 PROVE  Sends(MailOf[cur[s]], cur[s])'
      BY <2>1 DEF Second
    <3>1. PICK e : e = cur[s]
      OBVIOUS
    <3>2. ipc[s] \in OnMail /\ cur'[s] = e /\ redelivered[e]
      BY <1>1, <1>2, <2>2, <3>1 DEF Apart, OnMail
    <3>3. e \in Delivery /\ MailOf[e] # None
      BY <3>1, <3>2, MailIs
    <3>4. QED
      BY <2>3, <3>2, <3>3
  <2>5. ASSUME NEW m \in Mails!Mail PROVE Hopeful(m)'
    <3>1. MailOf[cur[r]] = m /\ redelivered[d] => Sends(m, cur[r])'
      BY <1>0, <1>3, <2>2, <2>3 DEF Sends
    <3>2. QED
      BY <1>0, <1>1, <1>2, <2>1, <2>2, <3>1, HopeStays DEF HopeInv, Mails!Mail
  <2>6. QED
    BY <2>4, <2>5 DEF HopeInv
<1>6. QED
  BY <1>1, <1>4, <1>5, NotCalm DEF Calm

\* The mail is sent, or its sending fails.
LEMMA SendHope == ASSUME BaseInv, HopeInv, NEW r \in Replica, Mails!Send(r) PROVE HopeInv'
<1>0. PICK c, d : c = MailOf[cur[r]] /\ d = cur[r]
  OBVIOUS
<1>1. /\ c \in Mails!Mail /\ UNCHANGED <<dstate, redelivered, cur>>
      /\ ipc[r] = "send" /\ ipc' = [ipc EXCEPT ![r] = "unlock"]
      /\ \/ mails'[c] = mails[c] + 1 /\ value'[r] = 2 /\ UNCHANGED faults
         \/ Mails!Fault("send") /\ value'[r] = 0
  BY <1>0, SendIs
<1>2. InformTypes /\ InformTypes' /\ Grows /\ Apart(r)
  BY SendBase DEF BaseInv
<1>3. ipc'[r] = "unlock" /\ d \in Delivery /\ MailOf[d] # None /\ c = MailOf[d] /\ mails[c] \in Nat
  BY <1>0, <1>1, <1>2, MailIs DEF InformTypes, OnMail
<1>4. CASE mails'[c] = mails[c] + 1 /\ value'[r] = 2 /\ UNCHANGED faults /\ Calm
  <2>1. mails'[c] > 0
    BY <1>3, <1>4
  <2>2. ASSUME NEW m \in Mails!Mail, NEW e \in Delivery, Sends(m, e) PROVE Sends(m, e)'
    BY <1>0, <1>2, <2>1, <2>2, SendsStays
  <2>3. Second'
    BY <1>1, <1>2, <1>3, <1>4, <2>2, SecondFrom DEF HopeInv
  <2>4. ASSUME NEW m \in Mails!Mail PROVE Hopeful(m)'
    BY <1>1, <1>2, <1>3, <1>4, HopeStays DEF HopeInv, Mails!Mail
  <2>5. QED
    BY <2>3, <2>4 DEF HopeInv
<1>5. CASE Mails!Fault("send") /\ value'[r] = 0 /\ Calm'
  <2>1. faults = {} /\ faults' = {"send"} /\ Calm
    BY <1>5, FirstFault DEF Calm
  <2>2. Second'
    <3> SUFFICES ASSUME NEW s \in Replica, ipc'[s] = "unlock", value'[s] = 0, redelivered'[cur'[s]]
                 PROVE  Sends(MailOf[cur[s]], cur[s])'
      BY <2>1 DEF Second
    <3>1. s = r
      <4>1. ipc'[s] = ipc[s] /\ value'[s] = value[s] => "send" \in faults
        BY DEF BaseInv, Turn
      <4>2. QED
        BY <1>2, <2>1, <4>1 DEF Apart
    <3>2. Sends(c, d)
      BY <1>0, <1>1, <1>3, <2>1, <3>1 DEF HopeInv, Second
    <3>3. Sends(c, d)'
      BY <1>0, <1>1, <1>2, <3>2, SendsStays
    <3>4. QED
      BY <1>0, <1>1, <3>1, <3>3 DEF Sends
  <2>3. ASSUME NEW m \in Mails!Mail PROVE Hopeful(m)'
    BY <1>1, <1>2, <1>3, <2>1, HopeStays DEF HopeInv, Mails!Mail
  <2>4. QED
    BY <2>2, <2>3 DEF HopeInv
<1>6. QED
  BY <1>1, <1>4, <1>5, NotCalm DEF Calm

\* The lock is let go.
LEMMA UnLockHope == ASSUME BaseInv, HopeInv, NEW r \in Replica, Mails!UnLock(r) PROVE HopeInv'
<1>0. PICK c, d : c = MailOf[cur[r]] /\ d = cur[r]
  OBVIOUS
<1>1. /\ c \in Mails!Mail /\ UNCHANGED <<dstate, redelivered, cur>>
      /\ ipc[r] = "unlock" /\ value' = [value EXCEPT ![r] = 0]
      /\ ipc' = [ipc EXCEPT ![r] = IF value[r] = 2 THEN "ack" ELSE "nack"]
      /\ Mails!Fault("unlock") \/ UNCHANGED faults
  BY <1>0, UnLockIs
<1>2. InformTypes /\ InformTypes' /\ Grows /\ Apart(r) /\ Turn(r)
  BY UnLockBase DEF BaseInv
<1>3. /\ (ipc'[r] = "ack" /\ value[r] = 2) \/ (ipc'[r] = "nack" /\ value[r] = 0 /\ "send" \in faults)
      /\ d \in Delivery
  <2>1. d \in Delivery
    BY <1>0, <1>1, MailIs DEF OnMail
  <2>2. value[r] \in {0, 2} /\ (value[r] = 0 => "send" \in faults)
    BY <1>1, <1>2 DEF InformTypes, Turn
  <2>3. ipc'[r] = IF value[r] = 2 THEN "ack" ELSE "nack"
    BY <1>1, <1>2 DEF InformTypes
  <2>4. QED
    BY <2>1, <2>2, <2>3
<1>4. CASE Calm'
  <2>1. UNCHANGED faults /\ Calm
    BY <1>1, <1>4, FirstFault DEF Calm
  <2>2. Second'
    BY <1>1, <1>2, <1>3, <2>1, AllSendsStay, SecondFrom DEF HopeInv
  <2>3. ipc'[r] = "nack" /\ redelivered[d] => Sends(c, d)
    BY <1>0, <1>1, <1>3, <2>1 DEF HopeInv, Second, Calm
  <2>4. ASSUME NEW m \in Mails!Mail PROVE Hopeful(m)'
    <3>1. ipc'[r] = "nack" /\ redelivered[d] => Sends(c, cur[r])'
      <4>1. Sends(c, d) => Sends(c, d)'
        BY <1>1, <1>2, AllSendsStay
      <4>2. QED
        BY <1>0, <1>1, <2>3, <4>1 DEF Sends
    <3>2. QED
      BY <1>0, <1>1, <1>2, <1>3, <2>1, <3>1, HopeStays DEF HopeInv, Mails!Mail
  <2>5. QED
    BY <2>2, <2>4 DEF HopeInv
<1>5. QED
  BY <1>4, NotCalm

\* A message is settled.
LEMMA SettleHope == ASSUME BaseInv, HopeInv, NEW r \in Replica, Mails!Settle(r) PROVE HopeInv'
<1>0. PICK d : d = cur[r]
  OBVIOUS
<1>1. /\ ipc[r] \in {"ack", "nack", "discard"} /\ d \in Delivery
      /\ UNCHANGED <<value, locks, mails, faults>>
      /\ ipc' = [ipc EXCEPT ![r] = "idle"]
      /\ redelivered' \in [Delivery -> BOOLEAN]
      /\ \A e \in Delivery : e # d \/ ~held[r] =>
            dstate'[e] = dstate[e] /\ redelivered'[e] = redelivered[e]
      /\ held[r] =>
            \/ ipc[r] = "ack" /\ dstate'[d] = "acked" /\ redelivered'[d] = redelivered[d]
            \/ ipc[r] = "nack" /\ ~redelivered[d] /\ dstate'[d] = "queued" /\ redelivered'[d]
            \/ /\ (ipc[r] = "nack" /\ redelivered[d]) \/ ipc[r] = "discard"
               /\ dstate'[d] = "discarded" /\ redelivered'[d] = redelivered[d]
  BY <1>0, SettleIs
<1>2. InformTypes /\ InformTypes' /\ Grows /\ Apart(r) /\ Turn(r)
  BY SettleBase DEF BaseInv
<1>3. ipc'[r] = "idle"
  BY <1>1, <1>2 DEF InformTypes
<1>4. CASE Calm
  <2>1. held[r] /\ dstate[d] = "unacked"
    BY <1>0, <1>1, <1>2, <1>4 DEF Turn, Calm
  <2>2. ASSUME faults = {}, NEW e \in Delivery, MailOf[e] # None, redelivered'[e], ~redelivered[e]
        PROVE  Sends(MailOf[e], e)'
    <3>1. e = d /\ ipc[r] = "nack"
      BY <1>1, <2>1, <2>2
    <3>2. Sends(MailOf[e], e) /\ MailOf[e] \in Mails!Mail
      BY <1>0, <2>2, <3>1 DEF HopeInv, Second, Mails!Mail
    <3>3. QED
      BY <1>1, <1>2, <3>2, AllSendsStay
  <2>3. Second'
    BY <1>0, <1>1, <1>2, <1>3, <1>4, <2>2, AllSendsStay, SecondFrom DEF HopeInv
  <2>4. ASSUME NEW m \in Mails!Mail PROVE Hopeful(m)'
    <3>1. MailOf[cur[r]] = m /\ ipc[r] = "ack" => Sends(m, cur[r])'
      BY <1>0, <1>1, <1>2 DEF Turn, Sends
    <3>2. MailOf[cur[r]] = m => ipc[r] # "discard"
      BY <1>2 DEF Turn, Mails!Mail
    <3>3. m # None /\ Hopeful(m)
      BY DEF HopeInv, Mails!Mail
    <3>4. \A e \in Delivery : dstate[e] = "queued" => dstate'[e] = "queued"
      BY <1>1, <2>1
    <3>5. \A e \in Delivery : e # cur[r] => redelivered'[e] = redelivered[e]
      BY <1>0, <1>1
    <3>6. MailOf[cur[r]] = m =>
              \/ dstate'[cur[r]] = "queued" \/ (ipc[r] = "nack" /\ redelivered[cur[r]])
              \/ Sends(m, cur[r])'
      <4>1. ipc[r] = "nack" => dstate'[d] = "queued" \/ redelivered[d]
        BY <1>1, <2>1
      <4>2. QED
        BY <1>0, <1>1, <3>1, <3>2, <4>1
    <3>7. QED
      BY <1>2, <1>4, <3>3, <3>4, <3>5, <3>6, HopeStays
  <2>5. QED
    BY <2>3, <2>4 DEF HopeInv
<1>5. QED
  BY <1>1, <1>4, NotCalm DEF Calm

\* A lost connection and a crash are faults of other kinds.
LEMMA LossHope ==
    ASSUME NEW r \in Replica, Mails!Disconnect(r) \/ Mails!InformCrash(r)
    PROVE  HopeInv'
<1>1. Mails!Fault("connection") \/ Mails!Fault("crash")
  BY DEF Mails!Disconnect, Mails!InformCrash
<1>2. ~Calm'
  BY <1>1, FirstFault DEF Calm
<1>3. QED
  BY <1>2, NotCalm

\* Every step keeps what holds under at most one of these faults.
LEMMA HopeKeeps ==
    ASSUME BaseInv, MailInv, HopeInv, NEW r \in Replica,
           Mails!Work(r) \/ Mails!Disconnect(r) \/ Mails!InformCrash(r)
    PROVE  HopeInv'
  BY DeliverHope, PrepareHope, OnwardHope, LockHope, SendHope, UnLockHope, SettleHope, LossHope
     DEF Mails!Work

\* What the steps of the other parts leave alone.
LEMMA InformSame == ASSUME UNCHANGED <<informVars, faults>> PROVE
    /\ BaseInv => BaseInv'
    /\ MailInv => MailInv'
    /\ HopeInv => HopeInv'
<1>1. UNCHANGED <<dstate, redelivered, ipc, cur, held, value, locks, mails, faults>>
  BY DEF informVars
<1>2. BaseInv => BaseInv'
  BY <1>1 DEF BaseInv, InformTypes, HeldOnce, Turn, Unfailed, Mails!Records
<1>3. MailInv => MailInv'
  <2> SUFFICES ASSUME NEW m \in Mails!Mail, Record(m), NotSilent(m), Once(m)
               PROVE  Record(m)' /\ NotSilent(m)' /\ Once(m)'
    BY DEF MailInv, Mails!Mail
  <2>1. Owners(m)' = Owners(m)
    BY <1>1 DEF Owners
  <2>2. \A st \in {1, 2} : Mails!Records(m, st)' = Mails!Records(m, st)
    BY <1>1 DEF Mails!Records
  <2>3. Record(m)'
    <3>1. Mails!Leaving' = Mails!Leaving
      BY <1>1 DEF Mails!Leaving
    <3>2. QED
      BY <1>1, <2>1, <2>2, <3>1 DEF Record, Balanced
  <2>4. NotSilent(m)' /\ Once(m)'
    BY <1>1, <2>1, <2>2 DEF NotSilent, Once, Live, Unfailed
  <2>5. QED
    BY <2>3, <2>4
<1>4. HopeInv => HopeInv'
  BY <1>1 DEF HopeInv, Second, Hopeful, Calm, Hope, Sends, Mails!Records
<1>5. QED
  BY <1>2, <1>3, <1>4

\* Every step keeps the invariant.
LEMMA InformKeeps == InformInv /\ [Next]_vars => InformInv'
<1> SUFFICES ASSUME InformInv, [Next]_vars PROVE InformInv'
  OBVIOUS
<1>1. part' = part
  BY InformSteps
<1>2. CASE part # "inform"
  <2>1. AtRest /\ UNCHANGED <<dstate, redelivered, ipc, cur, held, value, locks, mails>>
    BY <1>2, InformSteps DEF InformInv, informVars
  <2>2. AtRest'
    BY <2>1 DEF AtRest
  <2>3. QED
    BY <1>1, <1>2, <2>2 DEF InformInv
<1>3. CASE part = "inform"
  <2>1. BaseInv /\ MailInv /\ HopeInv
    BY <1>3 DEF InformInv, HopeInv
  <2>2. CASE Mails!Next
    <3>1. PICK r \in Replica : Mails!Work(r) \/ Mails!Disconnect(r) \/ Mails!InformCrash(r)
      BY <2>2 DEF Mails!Next
    <3>2. BaseInv' /\ MailInv' /\ HopeInv'
      BY <2>1, <3>1, BaseKeeps, MailsKeep, HopeKeeps
    <3>3. QED
      BY <1>1, <1>3, <3>2 DEF InformInv, HopeInv
  <2>3. CASE UNCHANGED <<informVars, faults>>
    <3>1. BaseInv' /\ MailInv' /\ HopeInv'
      BY <2>1, <2>3, InformSame
    <3>2. QED
      BY <1>1, <1>3, <3>1 DEF InformInv, HopeInv
  <2>4. QED
    BY <1>3, <2>2, <2>3, InformSteps
<1>4. QED
  BY <1>2, <1>3

\* What the replicas and the mails have, always.
LEMMA InformInvAlways == Spec => []InformInv
<1>1. Init => InformInv
  <2> SUFFICES ASSUME Init PROVE InformInv
    OBVIOUS
  <2>1. Mails!Init /\ faults = {}
    BY DEF Init
  <2>2. AtRest
    BY <2>1 DEF Mails!Init, AtRest
  <2>3. InformTypes
    <3>1. locks \in [Mails!Mail -> Seq({0, 1, 2})]
      BY <2>2, EmptySeq DEF AtRest
    <3>2. IsFiniteSet(faults)
      BY <2>1, FS_EmptySet
    <3>3. QED
      BY <2>1, <3>1, <3>2 DEF Mails!Init, InformTypes, OnMail
  <2>4. HeldOnce /\ \A r \in Replica : Turn(r)
    BY <2>1 DEF Mails!Init, HeldOnce, Turn, OnMail
  <2>5. ASSUME NEW m \in Mails!Mail PROVE Record(m) /\ NotSilent(m) /\ Once(m) /\ Hopeful(m)
    <3>1. PICK d \in Delivery : MailOf[d] = m
      BY DEF Mails!Mail
    <3>2. dstate[d] = "queued" /\ locks[m] = <<>> /\ mails[m] = 0
      BY <2>1 DEF Mails!Init
    <3>3. Owners(m) = {}
      BY <2>1 DEF Owners, Mails!Init
    <3>4. Mails!Records(m, 1) = {} /\ Mails!Records(m, 2) = {}
      BY <3>2 DEF Mails!Records
    <3>5. Record(m)
      <4>1. Mails!Leaving = {}
        BY <2>1 DEF Mails!Leaving
      <4>2. QED
        BY <3>3, <3>4, <4>1, FS_EmptySet DEF Record, Balanced
    <3>6. NotSilent(m) /\ Hopeful(m)
      BY <3>1, <3>2 DEF NotSilent, Hopeful, Live, Hope
    <3>7. Once(m)
      BY <3>2, <3>3 DEF Once
    <3>8. QED
      BY <3>5, <3>6, <3>7
  <2>6. Second
    BY <2>1 DEF Mails!Init, Second
  <2>7. QED
    BY <2>2, <2>3, <2>4, <2>5, <2>6 DEF InformInv, BaseInv, MailInv
<1>2. QED
  BY <1>1, InformKeeps, PTL DEF Spec

\* The locks of the inform service do their work for any number of replicas, mails
\* and messages: with one lock record and no failed sending a mail is sent at most
\* once; when all its messages are settled and no replica is at work on one, it was
\* sent, or its lock is left taken by a crash or a failed call of the locker, or an
\* attempt failed and another fault used up its redelivery; and there are as many
\* taken locks as replicas that have one, but for one for each crash and each kind
\* of failed call, which may have been done all the same (inform/service.go,
\* pkg/mongo/locker.go).
THEOREM LocksDoTheirWork == Spec => []LocksWork
<1>1. InformInv => LocksWork
  <2> SUFFICES ASSUME InformInv
               PROVE  Mails!MailedOnce /\ Mails!SilentIsLocked /\ Mails!TakenLockHasOwner
    BY DEF LocksWork, Mails!LocksWork
  <2>1. CASE part # "inform"
    <3>1. AtRest
      BY <2>1 DEF InformInv
    <3>2. ASSUME NEW m \in Mails!Mail
          PROVE  /\ mails[m] = 0 /\ Mails!Records(m, 1) = {} /\ Owners(m) = {}
                 /\ \E d \in Delivery : MailOf[d] = m /\ dstate[d] = "queued"
      <4>1. PICK d \in Delivery : MailOf[d] = m
        BY <3>2 DEF Mails!Mail
      <4>2. QED
        BY <3>1, <3>2, <4>1 DEF AtRest, Owners, Mails!Records
    <3>3. Mails!MailedOnce
      BY <3>2 DEF Mails!MailedOnce
    <3>4. Mails!SilentIsLocked
      BY <3>2 DEF Mails!SilentIsLocked
    <3>5. Mails!TakenLockHasOwner
      <4>1. Cardinality(Mails!Leaving) \in Nat /\ Cardinality({}) = 0
        BY LeavingFinite, FS_CardinalityType, FS_EmptySet
      <4>2. \A m \in Mails!Mail :
                {r \in Replica : ipc[r] \in {"send", "unlock"} /\ Mails!MailAt(r) = m} = {}
        BY <3>2 DEF Owners, Mails!MailAt
      <4>3. QED
        BY <3>2, <4>1, <4>2, MailsCardinality DEF Mails!TakenLockHasOwner
    <3>6. QED
      BY <3>3, <3>4, <3>5
  <2>2. CASE part = "inform"
    <3>1. BaseInv /\ MailInv /\ \A m \in Mails!Mail : Hopeful(m)
      BY <2>2 DEF InformInv
    <3>2. Mails!MailedOnce
      BY <3>1 DEF MailInv, Once, Mails!MailedOnce
    <3>3. Mails!TakenLockHasOwner
      <4> SUFFICES ASSUME NEW m \in Mails!Mail
                   PROVE  Cardinality(Mails!Records(m, 1)) \in
                              Cardinality(Owners(m)) .. Cardinality(Owners(m)) + Cardinality(Mails!Leaving)
        BY MailsCardinality DEF Mails!TakenLockHasOwner, Owners, Mails!MailAt
      <4>1. Balanced(Mails!Records(m, 1), Owners(m), Mails!Leaving)
        BY <3>1 DEF MailInv, Record
      <4>2. QED
        BY <4>1, FS_CardinalityType DEF Balanced
    <3>4. Mails!SilentIsLocked
      <4> SUFFICES ASSUME NEW m \in Mails!Mail, mails[m] = 0,
                          \A d \in Delivery : MailOf[d] = m => dstate[d] \in {"acked", "discarded"},
                          \A r \in Replica : MailOf[cur[r]] = m => cur[r] = None
                   PROVE  \/ Mails!Records(m, 1) # {} /\ Mails!Leaving # {}
                          \/ faults \cap {"prepare", "send", "lock"} # {} /\ Cardinality(faults) > 1
        <5>1. \A m \in Mails!Mail : mails[m] \in Nat
          BY <3>1 DEF BaseInv, InformTypes
        <5>2. QED
          BY <5>1, MailsCardinality DEF Mails!SilentIsLocked, Mails!MailAt
      <4>1. Owners(m) = {}
        BY <3>1 DEF Owners, BaseInv, Turn
      <4>2. CASE Unfailed
        <5>1. Mails!Records(m, 1) # {}
          BY <3>1, <4>2 DEF MailInv, NotSilent, Live
        <5>2. Balanced(Mails!Records(m, 1), Owners(m), Mails!Leaving)
          BY <3>1 DEF MailInv, Record
        <5>3. /\ Cardinality(Owners(m)) = 0 /\ Cardinality(Mails!Records(m, 1)) # 0
              /\ Cardinality(Mails!Records(m, 1)) \in Nat
          BY <4>1, <5>1, <5>2, FS_EmptySet, FS_CardinalityType DEF Balanced
        <5>4. Cardinality(Mails!Leaving) # 0
          BY <5>2, <5>3 DEF Balanced
        <5>5. QED
          BY <5>1, <5>4, FS_EmptySet
      <4>3. CASE ~Unfailed /\ Calm
        <5>1. \A d \in Delivery : MailOf[d] = m => ~Hope(d)
          BY ServicesAssumption DEF Hope
        <5>2. faults = {"lock"} /\ Mails!Records(m, 1) # {}
          BY <3>1, <4>1, <4>3, <5>1 DEF Hopeful, Owners
        <5>3. QED
          BY <5>2 DEF Mails!Leaving
      <4>4. CASE ~Unfailed /\ ~Calm
        <5>2. IsFiniteSet(faults)
          BY <3>1 DEF BaseInv, InformTypes
        <5>3. PICK f \in faults : f \in {"prepare", "send", "lock"}
          BY <4>4 DEF Unfailed
        <5>4. PICK g \in faults : g # f
          BY <4>4, <5>3 DEF Calm
        <5>5. Cardinality({f}) = 1 /\ Cardinality({f, g}) = 2 /\ IsFiniteSet({f, g})
          <6>1. IsFiniteSet({f}) /\ Cardinality({f}) = 1
            BY FS_Singleton
          <6>2. {f, g} = {f} \cup {g}
            OBVIOUS
          <6>3. QED
            BY <5>4, <6>1, <6>2, FS_AddElement
        <5>6. Cardinality({f, g}) <= Cardinality(faults) /\ Cardinality(faults) \in Nat
          BY <5>2, <5>3, <5>4, FS_Subset, FS_CardinalityType
        <5>7. QED
          BY <5>3, <5>5, <5>6
      <4>5. QED
        BY <4>2, <4>3, <4>4
    <3>5. QED
      BY <3>2, <3>3, <3>4
  <2>3. QED
    BY <2>1, <2>2
<1>2. QED
  BY <1>1, InformInvAlways, PTL

-----------------------------------------------------------------------------
(***************************************************************************)
(* The replicas as consumers of their queue.  HolderOf tells who holds a   *)
(* message; a step of a replica moves the one message it works on and      *)
(* leaves the others and their holders alone.                              *)
(***************************************************************************)
\* The one element of a set that has one.
LEMMA OnlyHolder ==
    ASSUME NEW S, NEW r, S = {r}
    PROVE  (IF S = {} THEN None ELSE CHOOSE x \in S : TRUE) = r
  OBVIOUS

\* A message that a replica holds is held by no other.
LEMMA HeldAlone ==
    ASSUME HeldOnce, NEW r \in Replica, held[r], NEW d, d = cur[r]
    PROVE  Mails!HolderOf(d) = r
<1>1. Mails!Holders(d) = {r}
  BY DEF Mails!Holders, HeldOnce
<1>2. QED
  BY <1>1, OnlyHolder DEF Mails!HolderOf

\* Who is the holder of a message holds it.
LEMMA HolderHolds ==
    ASSUME NEW r \in Replica, NEW d, Mails!HolderOf(d) = r
    PROVE  held[r] /\ cur[r] = d
<1>1. Mails!Holders(d) # {}
  BY ServicesAssumption DEF Mails!HolderOf
<1>2. r \in Mails!Holders(d)
  BY <1>1 DEF Mails!HolderOf
<1>3. QED
  BY <1>2 DEF Mails!Holders

\* What the broker sees of the holders: the holder of each message.
HolderView == [d \in Delivery |-> Mails!HolderOf(d)]

\* What a connection of the abstract consumer holds, the replica holds.
LEMMA HeldByIs ==
    ASSUME BaseInv, NEW r \in Replica, NEW d \in Delivery
    PROVE  Mails!Consumer!HeldBy(r, d) <=> held[r] /\ cur[r] = d
<1>1. Mails!Consumer!HeldBy(r, d) <=> dstate[d] = "unacked" /\ Mails!HolderOf(d) = r
  BY DEF Mails!Consumer!HeldBy, Mails!Consumer!Held
<1>2. held[r] /\ cur[r] = d => Mails!HolderOf(d) = r
  BY HeldAlone DEF BaseInv
<1>3. held[r] /\ cur[r] = d => dstate[d] = "unacked"
  BY DEF BaseInv, Turn
<1>4. QED
  BY <1>1, <1>2, <1>3, HolderHolds

\* A delivery that nobody touches is kept.
LEMMA KeptIs ==
    ASSUME NEW d \in Delivery, dstate'[d] = dstate[d], redelivered'[d] = redelivered[d],
           Mails!Holders(d)' = Mails!Holders(d)
    PROVE  Mails!Consumer!Kept(d)
<1>1. Mails!HolderOf(d)' = Mails!HolderOf(d)
  BY DEF Mails!HolderOf
<1>2. QED
  BY <1>1 DEF Mails!Consumer!Kept

\* A step in which no replica takes or loses a message.
LEMMA KeepsAll ==
    ASSUME UNCHANGED <<dstate, redelivered, cur, held>>, NEW r \in Replica
    PROVE  Mails!Consumer!Consume(r)
<1>1. ASSUME NEW d \in Delivery PROVE Mails!Consumer!Kept(d)
  BY KeptIs DEF Mails!Holders
<1>2. QED
  BY <1>1 DEF Mails!Consumer!Consume

\* The holders after a replica took a message.
LEMMA TakenHolders ==
    ASSUME BaseInv, NEW r \in Replica, ipc[r] = "idle", NEW d \in Delivery, dstate[d] = "queued",
           Apart(r), cur'[r] = d, held'[r] = TRUE
    PROVE  /\ Mails!Holders(d)' = {r}
           /\ \A e \in Delivery \ {d} : Mails!Holders(e)' = Mails!Holders(e)
<1>1. \A s \in Replica : held[s] => cur[s] # d
  BY DEF BaseInv, Turn
<1>2. ~held[r]
  BY DEF BaseInv, Turn, InformTypes
<1>3. \A s \in Replica \ {r} : held'[s] = held[s] /\ cur'[s] = cur[s]
  BY DEF Apart
<1>4. ASSUME NEW s \in Replica PROVE held'[s] /\ cur'[s] = d <=> s = r
  BY <1>1, <1>3
<1>5. ASSUME NEW e \in Delivery \ {d}, NEW s \in Replica
      PROVE  held'[s] /\ cur'[s] = e <=> held[s] /\ cur[s] = e
  BY <1>2, <1>3
<1>6. Mails!Holders(d)' = {r}
  BY <1>4 DEF Mails!Holders
<1>7. ASSUME NEW e \in Delivery \ {d} PROVE Mails!Holders(e)' = Mails!Holders(e)
  BY <1>5 DEF Mails!Holders
<1>8. QED
  BY <1>6, <1>7

\* The holders after a replica let its message go, or lost it.
LEMMA FreedHolders ==
    ASSUME BaseInv, NEW r \in Replica, Apart(r), held'[r] = FALSE, NEW d, d = cur[r]
    PROVE  /\ held[r] => Mails!Holders(d)' = {}
           /\ \A e \in Delivery : e # d \/ ~held[r] => Mails!Holders(e)' = Mails!Holders(e)
<1>1. \A s \in Replica \ {r} : held'[s] = held[s] /\ cur'[s] = cur[s]
  BY DEF Apart
<1>2. ASSUME held[r], NEW s \in Replica PROVE ~(held'[s] /\ cur'[s] = d)
  BY <1>1, <1>2 DEF BaseInv, HeldOnce
<1>3. ASSUME NEW e \in Delivery, e # d \/ ~held[r], NEW s \in Replica
      PROVE  held'[s] /\ cur'[s] = e <=> held[s] /\ cur[s] = e
  BY <1>1, <1>3
<1>4. held[r] => Mails!Holders(d)' = {}
  BY <1>2 DEF Mails!Holders
<1>5. ASSUME NEW e \in Delivery, e # d \/ ~held[r] PROVE Mails!Holders(e)' = Mails!Holders(e)
  BY <1>3, <1>5 DEF Mails!Holders
<1>6. QED
  BY <1>4, <1>5

\* A message is taken.
LEMMA DeliverConsumes ==
    ASSUME BaseInv, NEW r \in Replica, NEW d \in Delivery, Mails!Deliver(r, d)
    PROVE  Mails!Consumer!Consume(r)
<1>1. /\ ipc[r] = "idle" /\ dstate[d] = "queued" /\ dstate' = [dstate EXCEPT ![d] = "unacked"]
      /\ cur' = [cur EXCEPT ![r] = d] /\ held' = [held EXCEPT ![r] = TRUE]
      /\ UNCHANGED redelivered
  BY DEF Mails!Deliver
<1>2. /\ dstate'[d] = "unacked" /\ \A e \in Delivery \ {d} : dstate'[e] = dstate[e]
      /\ cur'[r] = d /\ held'[r] = TRUE
  BY <1>1 DEF BaseInv, InformTypes
<1>3. Apart(r)
  BY DeliverBase
<1>4. /\ Mails!Holders(d)' = {r}
      /\ \A e \in Delivery \ {d} : Mails!Holders(e)' = Mails!Holders(e)
  BY <1>1, <1>2, <1>3, TakenHolders
<1>5. Mails!HolderOf(d)' = r
  BY <1>4, OnlyHolder DEF Mails!HolderOf
<1>6. Mails!Consumer!Taken(r, d)
  BY <1>1, <1>2, <1>5 DEF Mails!Consumer!Taken
<1>7. ASSUME NEW e \in Delivery \ {d} PROVE Mails!Consumer!Kept(e)
  BY <1>1, <1>2, <1>4, KeptIs
<1>8. QED
  BY <1>6, <1>7 DEF Mails!Consumer!Consume

\* A message is settled.
LEMMA SettleConsumes ==
    ASSUME BaseInv, NEW r \in Replica, Mails!Settle(r)
    PROVE  Mails!Consumer!Consume(r)
<1>0. PICK d : d = cur[r]
  OBVIOUS
<1>1. /\ d \in Delivery /\ held' = [held EXCEPT ![r] = FALSE]
      /\ \A e \in Delivery : e # d \/ ~held[r] =>
            dstate'[e] = dstate[e] /\ redelivered'[e] = redelivered[e]
      /\ held[r] =>
            \/ dstate'[d] = "acked" /\ redelivered'[d] = redelivered[d]
            \/ ~redelivered[d] /\ dstate'[d] = "queued" /\ redelivered'[d]
            \/ dstate'[d] = "discarded" /\ redelivered'[d] = redelivered[d]
      /\ redelivered' \in [Delivery -> BOOLEAN]
  BY <1>0, SettleIs
<1>2. Apart(r) /\ held'[r] = FALSE
  BY <1>1, SettleBase DEF BaseInv, InformTypes
<1>3. /\ held[r] => Mails!Holders(d)' = {}
      /\ \A e \in Delivery : e # d \/ ~held[r] => Mails!Holders(e)' = Mails!Holders(e)
  BY <1>0, <1>2, FreedHolders
<1>4. ASSUME NEW e \in Delivery, e # d \/ ~held[r] PROVE Mails!Consumer!Kept(e)
  BY <1>1, <1>3, <1>4, KeptIs
<1>5. CASE held[r]
  <2>1. Mails!Consumer!HeldBy(r, d)
    BY <1>0, <1>1, <1>5, HeldByIs
  <2>2. Mails!HolderOf(d)' = None
    BY <1>3, <1>5 DEF Mails!HolderOf
  <2>3. CASE dstate'[d] = "acked" /\ redelivered'[d] = redelivered[d]
    <3>1. Mails!Consumer!Acked(r, d)
      BY <1>1, <2>1, <2>2, <2>3 DEF Mails!Consumer!Acked
    <3>2. QED
      BY <1>4, <3>1 DEF Mails!Consumer!Consume
  <2>4. CASE ~redelivered[d] /\ dstate'[d] = "queued" /\ redelivered'[d]
    <3>1. redelivered'[d] = TRUE
      BY <1>1, <2>4
    <3>2. Mails!Consumer!PutBack(r, d)
      BY <1>1, <2>1, <2>2, <2>4, <3>1 DEF Mails!Consumer!PutBack
    <3>3. QED
      BY <1>4, <3>2 DEF Mails!Consumer!Consume
  <2>5. CASE dstate'[d] = "discarded" /\ redelivered'[d] = redelivered[d]
    <3>1. Mails!Consumer!Discarded(r, d)
      BY <1>1, <2>1, <2>2, <2>5 DEF Mails!Consumer!Discarded
    <3>2. QED
      BY <1>4, <3>1 DEF Mails!Consumer!Consume
  <2>6. QED
    BY <1>1, <1>5, <2>3, <2>4, <2>5
<1>6. CASE ~held[r]
  BY <1>4, <1>6 DEF Mails!Consumer!Consume
<1>7. QED
  BY <1>5, <1>6

\* A replica that holds a message loses its connection, by itself or when it dies.
LEMMA LossDisconnects ==
    ASSUME BaseInv, NEW r \in Replica, Mails!Disconnect(r) \/ Mails!InformCrash(r), held[r]
    PROVE  Mails!Consumer!Disconnect(r)
<1>0. PICK d : d = cur[r]
  OBVIOUS
<1>1. /\ d \in Delivery /\ held' = [held EXCEPT ![r] = FALSE]
      /\ \A e \in Delivery : e # d => dstate'[e] = dstate[e] /\ redelivered'[e] = redelivered[e]
      /\ dstate'[d] = "queued" /\ redelivered'[d]
      /\ dstate' \in [Delivery -> {"queued", "unacked", "acked", "discarded"}]
      /\ redelivered' \in [Delivery -> BOOLEAN]
      /\ Mails!Fault("connection") \/ Mails!Fault("crash")
  BY <1>0, LossIs
<1>2. Apart(r) /\ held'[r] = FALSE
  BY <1>1, LossBase DEF BaseInv, InformTypes
<1>3. /\ Mails!Holders(d)' = {}
      /\ \A e \in Delivery : e # d => Mails!Holders(e)' = Mails!Holders(e)
  BY <1>0, <1>2, FreedHolders
<1>4. \A e \in Delivery : Mails!Consumer!HeldBy(r, e) <=> e = d
  BY <1>0, HeldByIs
<1>5. /\ Mails!HolderOf(d)' = None
      /\ \A e \in Delivery : e # d => Mails!HolderOf(e)' = Mails!HolderOf(e)
  <2>1. Mails!HolderOf(d)' = None
    BY <1>3 DEF Mails!HolderOf
  <2>2. ASSUME NEW e \in Delivery, e # d PROVE Mails!HolderOf(e)' = Mails!HolderOf(e)
    <3>1. Mails!Holders(e)' = Mails!Holders(e)
      BY <1>3, <2>2
    <3>2. QED
      BY <3>1 DEF Mails!HolderOf
  <2>3. QED
    BY <2>1, <2>2
<1>6. dstate' = [e \in Delivery |-> IF Mails!Consumer!HeldBy(r, e) THEN "queued" ELSE dstate[e]]
  BY <1>1, <1>4
<1>7. redelivered' = [e \in Delivery |-> Mails!Consumer!HeldBy(r, e) \/ redelivered[e]]
  <2>1. redelivered \in [Delivery -> BOOLEAN]
    BY DEF BaseInv, InformTypes
  <2>2. ASSUME NEW e \in Delivery
        PROVE  redelivered'[e] = (Mails!Consumer!HeldBy(r, e) \/ redelivered[e])
    BY <1>1, <1>4, <2>1
  <2>3. QED
    BY <1>1, <2>2
<1>8. HolderView' = [e \in Delivery |-> IF Mails!Consumer!HeldBy(r, e) THEN None ELSE HolderView[e]]
  BY <1>4, <1>5 DEF HolderView
<1>9. faults' # faults
  BY <1>1 DEF Mails!Fault
<1>10. QED
  BY <1>6, <1>7, <1>8, <1>9 DEF Mails!Consumer!Disconnect, Mails!Consumer!Requeue, HolderView

\* One that holds nothing loses nothing.
LEMMA LossOfNothing ==
    ASSUME BaseInv, NEW r \in Replica, Mails!Disconnect(r) \/ Mails!InformCrash(r), ~held[r]
    PROVE  Mails!Consumer!Consume(r)
<1>0. PICK d : d = cur[r]
  OBVIOUS
<1>1. /\ held' = [held EXCEPT ![r] = FALSE]
      /\ \A e \in Delivery : dstate'[e] = dstate[e] /\ redelivered'[e] = redelivered[e]
  BY <1>0, LossIs
<1>2. Apart(r) /\ held'[r] = FALSE
  BY <1>1, LossBase DEF BaseInv, InformTypes
<1>3. \A e \in Delivery : Mails!Holders(e)' = Mails!Holders(e)
  BY <1>0, <1>2, FreedHolders
<1>4. ASSUME NEW e \in Delivery PROVE Mails!Consumer!Kept(e)
  BY <1>1, <1>3, KeptIs
<1>5. QED
  BY <1>4 DEF Mails!Consumer!Consume

\* Every step of the inform service is one of a consumer.
LEMMA InformStepConsumes ==
    ASSUME BaseInv, Mails!Next PROVE Mails!Consumer!Next
<1>1. PICK r \in Replica : Mails!Work(r) \/ Mails!Disconnect(r) \/ Mails!InformCrash(r)
  BY DEF Mails!Next
<1>2. CASE Mails!Work(r)
  <2>1. ASSUME NEW d \in Delivery, Mails!Deliver(r, d) PROVE Mails!Consumer!Consume(r)
    BY <2>1, DeliverConsumes
  <2>2. ASSUME Mails!Prepare(r) \/ Mails!Look(r) \/ Mails!Insert(r) \/ Mails!Lock(r)
        PROVE  Mails!Consumer!Consume(r)
    BY <2>2, KeepsAll DEF Mails!Prepare, Mails!Look, Mails!Insert, Mails!Lock
  <2>3. ASSUME Mails!Send(r) \/ Mails!UnLock(r) PROVE Mails!Consumer!Consume(r)
    BY <2>3, KeepsAll DEF Mails!Send, Mails!UnLock
  <2>4. ASSUME Mails!Settle(r) PROVE Mails!Consumer!Consume(r)
    BY <2>4, SettleConsumes
  <2>5. QED
    BY <1>2, <2>1, <2>2, <2>3, <2>4 DEF Mails!Work, Mails!Consumer!Next
<1>3. CASE Mails!Disconnect(r) \/ Mails!InformCrash(r)
  BY <1>3, LossDisconnects, LossOfNothing DEF Mails!Consumer!Next
<1>4. QED
  BY <1>1, <1>2, <1>3

\* The inform replicas, however many, are consumers of their queue: a message is
\* held by one of them, which alone settles it, and once, and puts it back at most
\* once; only the loss of its connection returns it again, also when the replica
\* goes on with the message (inform/service.go).
THEOREM InformIsConsumer == Spec => InformConsumes
<1>1. Init => Mails!Consumer!Init
  <2> SUFFICES ASSUME Init PROVE Mails!Consumer!Init
    OBVIOUS
  <2>1. Mails!Init
    BY DEF Init
  <2>2. \A d \in Delivery : Mails!Holders(d) = {}
    BY <2>1 DEF Mails!Init, Mails!Holders
  <2>3. \A d \in Delivery : Mails!HolderOf(d) = None
    BY <2>2 DEF Mails!HolderOf
  <2>4. HolderView = [d \in Delivery |-> None]
    BY <2>3 DEF HolderView
  <2>5. QED
    BY <2>1, <2>4 DEF Mails!Init, Mails!Consumer!Init, HolderView
<1>2. InformInv /\ [Next]_vars => [Mails!Consumer!Next]_(Mails!Consumer!consumerVars)
  <2> SUFFICES ASSUME InformInv, [Next]_vars
               PROVE  Mails!Consumer!Next \/ UNCHANGED Mails!Consumer!consumerVars
    OBVIOUS
  <2>1. UNCHANGED informVars => UNCHANGED Mails!Consumer!consumerVars
    <3> SUFFICES ASSUME UNCHANGED informVars PROVE UNCHANGED Mails!Consumer!consumerVars
      OBVIOUS
    <3>1. UNCHANGED <<dstate, redelivered, cur, held>>
      BY DEF informVars
    <3>2. \A d \in Delivery : Mails!HolderOf(d)' = Mails!HolderOf(d)
      BY <3>1 DEF Mails!HolderOf, Mails!Holders
    <3>3. HolderView' = HolderView
      BY <3>2 DEF HolderView
    <3>4. QED
      BY <3>1, <3>3 DEF Mails!Consumer!consumerVars, HolderView
  <2>2. part = "inform" => BaseInv
    BY DEF InformInv
  <2>3. QED
    BY <2>1, <2>2, InformSteps, InformStepConsumes
<1>3. QED
  BY <1>1, <1>2, InformInvAlways, PTL DEF Spec, InformConsumes, Mails!Consumer!Spec
=============================================================================
