----------------------------- MODULE ZoomProofs -----------------------------
\* What TLAPS proves of Zoom. For any number of files, of faults of any kind and
\* of handlers at work at once: what the records of the parent say was done. And
\* while nothing fails: that the owner of the parent hears of its end, that a
\* failed part fails it for good, and that no message that was handled is given up.
EXTENDS Zoom, TLAPS

\* The two messages that decode takes: as the upload service sent it, and put back.
Decoding(again) == [q |-> "DecodeMultiple", err |-> FALSE, redelivered |-> again]

\* Where the handler of a queue may be.
Places(l) ==
    CASE l = "DecodeMultiple" ->
            {"files", "started", "joinAudio", "record", "send", "saveWork",
             "error", "publish", "failed", "settle"}
      [] l = "OneStatus" ->
            {"work", "parent", "part", "status", "error", "publish", "failed", "settle"}
      [] l = "OneCompleted" ->
            {"work", "parent", "part", "status", "error", "publish", "join", "failed", "settle"}
      [] l = "JoinAudio" -> {"parent", "audioReady", "error", "publish", "failed", "settle"}
      [] l = "JoinResults" ->
            {"result", "available", "status", "error", "publish", "finished", "failed", "settle"}

\* What a handler keeps: its place, the parts it is about, why it is to save an error.
Handles(l) ==
    /\ h[l].pc \in Places(l)
    /\ h[l].set \in Attempt \cup {0} /\ h[l].i \in 1 .. Files
    /\ h[l].pc \in {"parent", "part"} /\ l # "JoinAudio" => h[l].set \in Attempt
    /\ h[l].pc \in {"work", "parent"} => h[l].i = 1
    /\ h[l].pc = "error" => h[l].bad

\* Types of the service's variables.
ZoomTypes ==
    /\ ready \in [Msg -> Nat] /\ work \in [Work -> Nat]
    /\ h \in [Listener -> Handler \cup {Idle}]
    /\ up \in BOOLEAN
    /\ status \in Status /\ error \in BOOLEAN /\ audioReady \in BOOLEAN
    /\ result \in BOOLEAN /\ available \in BOOLEAN
    /\ partStatus \in [Part -> Status \ {JoinResults}]
    /\ partError \subseteq Part /\ running \subseteq Part
    /\ related \in Attempt \cup {0}
    /\ attempts \in Nat /\ faults \in 0 .. MaxFaults

\* Types with the places of the handlers.
Shape == ZoomTypes /\ \A l \in Listener : Busy(l) => Handles(l)

\* The handler of decode is to put its message back.
Again == up /\ Busy("DecodeMultiple") /\ ~h["DecodeMultiple"].ok

\* The sets of parts that were begun, or are to be when the message is taken.
Sets == ready[Decoding(FALSE)] + ready[Decoding(TRUE)] + attempts

\* Each set of parts but the first needs a fault: the message comes again only
\* after one.
Budget ==
    /\ \A m \in Msg : m.q = "DecodeMultiple" /\ m.err => ready[m] = 0
    /\ Busy("DecodeMultiple") => ~h["DecodeMultiple"].err
    /\ Sets <= 1 + faults
    /\ Again => Sets <= faults

\* The parts that decode has started: those of its set up to the one it is at.
Starting ==
    /\ \A a \in Attempt, n \in 1 .. Files : <<a, n>> \in running => a <= attempts
    /\ Busy("DecodeMultiple") =>
        LET r == h["DecodeMultiple"] IN
        /\ r.set \in Attempt /\ r.set <= attempts
        /\ r.pc \in {"files", "started", "joinAudio"} => r.i = 1
        /\ r.pc \in {"files", "started", "joinAudio", "record", "send"} =>
              \A n \in 1 .. Files : <<r.set, n>> \in running <=> n < r.i
        /\ r.pc = "saveWork" => Parts(r.set) \subseteq running
    /\ RelatedAreStarted

\* Only a part that was started is completed.
EndedRan == \A p \in Part : partStatus[p] = Completed => p \in running

\* All parts of a set are completed.
SetDone(a) == \A p \in Parts(a) : partStatus[p] = Completed
\* The results may be joined: all parts of some set are completed.
AllDone == \E a \in Attempt : SetDone(a)

\* What gotStatus and completed have found in the parts they read.
Reading ==
    /\ Busy("OneStatus") => h["OneStatus"].to # JoinResults
    /\ Busy("OneCompleted") =>
        LET r == h["OneCompleted"] IN
        /\ r.to \in {0, JoinResults}
        /\ r.pc = "part" /\ r.to = JoinResults =>
              \A n \in 1 .. (r.i - 1) : partStatus[<<r.set, n>>] = Completed
        /\ r.pc \in {"status", "join"} \/ (r.pc = "publish" /\ ~r.bad) => AllDone

\* Whatever joins the results is there only when all parts of a set are completed.
Joining ==
    /\ \A m \in Msg : m.q = "JoinResults" /\ ready[m] > 0 => AllDone
    /\ Busy("JoinResults") => AllDone
    /\ JoinAfterParts

\* What the handler that joins the results has saved at its places.
Saving ==
    /\ Busy("OneStatus") /\ h["OneStatus"].pc = "status" => h["OneStatus"].to # Completed
    /\ Busy("JoinResults") =>
        LET r == h["JoinResults"] IN
        /\ r.to = Completed
        /\ r.pc \in {"available", "status", "finished"} \/ (r.pc = "publish" /\ ~r.bad) => result
        /\ r.pc \in {"status", "finished"} \/ (r.pc = "publish" /\ ~r.bad) => available
    /\ ResultBeforeFinished

\* The invariant of the service, whatever fails.
ZoomInv == Shape /\ Budget /\ Starting /\ EndedRan /\ Reading /\ Joining /\ Saving

-----------------------------------------------------------------------------
\* A message waits for the handler of a queue.
Pending(q) == \E m \in Msg : m.q = q /\ ready[m] > 0

\* The owner was told of a failure, or a handler is about to.
Telling == \/ "Failed" \in told
           \/ \E l \in Listener : Busy(l) /\ h[l].bad /\ h[l].pc \in {"publish", "failed"}

\* The owner was told of the end.
ToldEnd == told \cap {"Finished", "Failed"} # {}

\* gotStatus is to see that the part has failed: it has not read it yet, or has
\* and is to save the error, or is to come again.
Seeing(p) ==
    LET r == h["OneStatus"] IN
    /\ Busy("OneStatus")
    /\ ~r.ok \/ r.pc \in {"work", "parent", "error"} \/ (r.pc = "part" /\ r.i <= p[2])

\* The error is saved, and gotStatus is not about to take it back.
Steady == error /\ ~(Busy("OneStatus") /\ h["OneStatus"].pc \in {"part", "status"})

\* A part that has failed fails the parent.
FailSeen(p) == dropped # {} \/ Pending("OneStatus") \/ Seeing(p) \/ Steady

\* completed goes on to have the results joined, or is to come again.
Ending ==
    LET r == h["OneCompleted"] IN
    /\ Busy("OneCompleted")
    /\ \/ ~r.ok \/ r.pc \in {"work", "parent", "status", "join"}
       \/ r.pc = "part" /\ r.to = JoinResults
       \/ r.pc = "publish" /\ ~r.bad

\* The parts are completed: completed comes to see it, or the results are joined.
EndSeen ==
    \/ ToldEnd \/ Telling \/ dropped # {}
    \/ Pending("OneCompleted") \/ Ending
    \/ work["JoinResults"] > 0 \/ Pending("JoinResults")
    \/ Busy("JoinResults") /\ h["JoinResults"].pc # "settle"

\* The parent was split, or is about to be.
SplitSeen ==
    \/ ToldEnd \/ related # 0 \/ Pending("DecodeMultiple")
    \/ Busy("DecodeMultiple") /\ h["DecodeMultiple"].pc # "settle"

\* What a handler keeps while nothing fails: it returns an error only when there
\* is no work record, and is to save an error only where it found one.
Calm(l) ==
    /\ h[l].set <= 1
    /\ h[l].pc = "work" => h[l].set = 0
    /\ ~h[l].ok => l \in {"OneStatus", "OneCompleted"} /\ h[l].pc = "settle" /\ h[l].set = 0
    /\ l = "OneCompleted" /\ h[l].pc \in {"work", "parent"} => h[l].to = JoinResults
    /\ l = "OneCompleted" /\ h[l].pc \in {"work", "parent", "part", "status"} => ~h[l].bad
    /\ l = "DecodeMultiple" /\ h[l].pc = "publish" => h[l].bad

\* The connection stays open and each handler is calm.
Smooth == up /\ faults = 0 /\ \A l \in Listener : Busy(l) => Calm(l)

\* What then is never lost: the failure of the parent, of a part, the end of the
\* parts, and the parent itself.
Followed ==
    /\ error => Telling
    /\ \A p \in partError : p \in running /\ partStatus[p] # Completed
    /\ \A p \in partError : FailSeen(p)
    /\ AllDone => EndSeen
    /\ SplitSeen

\* The invariant of the service while nothing fails.
CalmInv == ZoomInv /\ Smooth /\ Followed

-----------------------------------------------------------------------------
\* A handler that is not idle has a place.
LEMMA BusyIs ==
    ASSUME ZoomTypes, NEW l \in Listener
    PROVE  /\ Busy(l) => h[l] \in Handler /\ h[l].pc \in PC
           /\ h[l].pc \in PC => Busy(l)
<1>1. h[l] \in Handler \/ h[l] = Idle
  BY DEF ZoomTypes
<1>2. Idle.pc = "idle" /\ "idle" \notin PC
  BY DEF Idle, PC
<1>3. ASSUME NEW r \in Handler PROVE r.pc \in PC
  BY <1>3 DEF Handler
<1>4. QED
  BY <1>1, <1>2, <1>3 DEF Busy

\* One handler moves.
Moved(l) == /\ h' \in [Listener -> Handler \cup {Idle}]
            /\ h'[l] \in Handler
            /\ \A k \in Listener \ {l} : h'[k] = h[k]

\* It keeps what it took and what it is about.
SameTask(l) == /\ h'[l].err = h[l].err /\ h'[l].redelivered = h[l].redelivered
               /\ h'[l].set = h[l].set

\* A handler that goes to another place keeps all else.
LEMMA GotoIs ==
    ASSUME ZoomTypes, NEW l \in Listener, h[l] \in Handler, NEW pc \in PC, Goto(l, pc)
    PROVE  /\ Moved(l) /\ SameTask(l) /\ h'[l].pc = pc
           /\ h'[l].i = h[l].i /\ h'[l].seen = h[l].seen /\ h'[l].to = h[l].to
           /\ h'[l].bad = h[l].bad /\ h'[l].ok = h[l].ok /\ h'[l].again = h[l].again
  BY DEF ZoomTypes, Goto, Moved, SameTask, Handler

\* A handler that returns keeps all but its place and what it returns.
LEMMA ReturnIs ==
    ASSUME ZoomTypes, NEW l \in Listener, h[l] \in Handler, NEW ok \in BOOLEAN, Return(l, ok)
    PROVE  /\ Moved(l) /\ SameTask(l) /\ h'[l].pc = "settle"
           /\ h'[l].i = h[l].i /\ h'[l].seen = h[l].seen /\ h'[l].to = h[l].to
           /\ h'[l].bad = h[l].bad /\ h'[l].ok = ok /\ h'[l].again = h[l].again
  BY DEF ZoomTypes, Return, Moved, SameTask, Handler, PC

\* A handler that is to save an error keeps all but its place and that.
LEMMA ToErrorIs ==
    ASSUME ZoomTypes, NEW l \in Listener, h[l] \in Handler,
           h' = [h EXCEPT ![l].pc = "error", ![l].bad = TRUE]
    PROVE  /\ Moved(l) /\ SameTask(l) /\ h'[l].pc = "error"
           /\ h'[l].i = h[l].i /\ h'[l].seen = h[l].seen /\ h'[l].to = h[l].to
           /\ h'[l].bad = TRUE /\ h'[l].ok = h[l].ok /\ h'[l].again = h[l].again
  BY DEF ZoomTypes, Moved, SameTask, Handler, PC

\* A part that cannot be started: the handler returns, or is to save an error.
LEMMA StartFailsIs ==
    ASSUME ZoomTypes, NEW l \in Listener, h[l] \in Handler, StartFails(l)
    PROVE  /\ Moved(l) /\ SameTask(l) /\ h'[l].pc \in {"error", "settle"}
           /\ h'[l].i = h[l].i /\ h'[l].seen = h[l].seen /\ h'[l].to = h[l].to
           /\ h'[l].pc = "error" => h'[l].bad
           /\ h'[l].ok = FALSE
<1>1. CASE h[l].redelivered
  <2>1. h' = [h EXCEPT ![l].pc = "error", ![l].bad = TRUE, ![l].ok = FALSE, ![l].again = FALSE]
    BY <1>1 DEF StartFails
  <2>2. QED
    BY <2>1 DEF ZoomTypes, Moved, SameTask, Handler, PC
<1>2. CASE ~h[l].redelivered
  BY <1>2, ReturnIs DEF StartFails
<1>3. QED
  BY <1>1, <1>2

\* The ends of a save: it succeeds and the handler goes on, or the owner is told.
LEMMA NotSavedIs ==
    ASSUME ZoomTypes, NEW l \in Listener, h[l] \in Handler,
           h' = [h EXCEPT ![l].pc = "failed", ![l].ok = FALSE]
    PROVE  /\ Moved(l) /\ SameTask(l) /\ h'[l].pc = "failed"
           /\ h'[l].i = h[l].i /\ h'[l].seen = h[l].seen /\ h'[l].to = h[l].to
           /\ h'[l].bad = h[l].bad /\ h'[l].ok = FALSE /\ h'[l].again = h[l].again
  BY DEF ZoomTypes, Moved, SameTask, Handler, PC

\* What a step of a handler does to its message and to the count of faults: it
\* costs nothing, or a fault, and with a fault the connection may be lost.
Walks(l) ==
    /\ Moved(l) /\ h'[l].err = h[l].err /\ UNCHANGED attempts
    /\ \/ /\ UNCHANGED <<ready, up, faults>>
          /\ l = "DecodeMultiple" => h'[l].ok \/ ~h[l].ok
       \/ UNCHANGED <<ready, up>> /\ faults' = faults + 1 /\ faults' \in 0 .. MaxFaults
       \/ /\ up' = FALSE /\ faults' = faults + 1 /\ faults' \in 0 .. MaxFaults
          /\ IF up THEN Requeue ELSE UNCHANGED ready

\* A fault is counted.
LEMMA FaultIs == ASSUME ZoomTypes, NEW kind, Fault(kind)
                 PROVE  faults' = faults + 1 /\ faults' \in 0 .. MaxFaults
  BY ZoomAssumption DEF Fault, ZoomTypes

\* A send is no more than that.
LEMMA SendIs ==
    ASSUME ZoomTypes, NEW out, SendOver(out)
    PROVE  \/ out = "sent" /\ UNCHANGED <<up, ready, faults>>
           \/ /\ out # "sent" /\ up' = FALSE
              /\ faults' = faults + 1 /\ faults' \in 0 .. MaxFaults
              /\ IF up THEN Requeue ELSE UNCHANGED ready
  BY FaultIs DEF SendOver

\* What is requeued is what the busy handlers hold.
LEMMA RequeueIs ==
    ASSUME ZoomTypes, Requeue
    PROVE  /\ ready' \in [Msg -> Nat]
           /\ \A m \in Msg : IF Requeued(m) THEN ready'[m] = ready[m] + 1 ELSE ready'[m] = ready[m]
  BY DEF ZoomTypes, Requeue

\* Types after a step of a handler.
LEMMA WalkTypes ==
    ASSUME ZoomTypes, NEW l \in Listener, Walks(l)
    PROVE  ready' \in [Msg -> Nat] /\ up' \in BOOLEAN /\ attempts' \in Nat /\ faults' \in 0 .. MaxFaults
  BY RequeueIs DEF Walks, ZoomTypes

\* A step of a handler keeps the shape when it keeps its own.
LEMMA ShapeFrom ==
    ASSUME Shape, NEW l \in Listener, Moved(l), Handles(l)', ZoomTypes'
    PROVE  Shape'
<1>1. ASSUME NEW k \in Listener \ {l}, Busy(k)' PROVE Handles(k)'
  <2>1. h'[k] = h[k] /\ Busy(k)
    BY <1>1 DEF Moved, Busy
  <2>2. Handles(k)
    BY <2>1 DEF Shape
  <2>3. QED
    BY <2>1, <2>2 DEF Handles
<1>2. QED
  BY <1>1 DEF Shape

\* The messages of decode are these two.
LEMMA DecodingIs ==
    /\ \A b \in BOOLEAN : Decoding(b) \in Msg /\ Decoding(b).q = "DecodeMultiple" /\ ~Decoding(b).err
    /\ \A m \in Msg : m.q = "DecodeMultiple" /\ ~m.err => m = Decoding(m.redelivered)
    /\ Decoding(TRUE) # Decoding(FALSE)
<1>1. \A b \in BOOLEAN : Decoding(b) \in Msg /\ Decoding(b).q = "DecodeMultiple" /\ ~Decoding(b).err
  BY DEF Decoding, Msg, Listener, Work
<1>2. \A m \in Msg : m.q = "DecodeMultiple" /\ ~m.err => m = Decoding(m.redelivered)
  BY DEF Decoding, Msg
<1>3. Decoding(TRUE) # Decoding(FALSE)
  BY DEF Decoding
<1>4. QED
  BY <1>1, <1>2, <1>3

\* How many messages of decode wait is a number.
LEMMA DecodingReady ==
    ASSUME ZoomTypes
    PROVE  ready[Decoding(FALSE)] \in Nat /\ ready[Decoding(TRUE)] \in Nat
  BY DecodingIs DEF ZoomTypes

\* A requeue puts back the message of decode at most, and with no error in it.
LEMMA RequeueDecoding ==
    ASSUME ZoomTypes, Budget, Requeue
    PROVE  /\ \A m \in Msg : m.q = "DecodeMultiple" /\ m.err => ready'[m] = 0
           /\ ready'[Decoding(FALSE)] = ready[Decoding(FALSE)]
           /\ ready'[Decoding(TRUE)] \in {ready[Decoding(TRUE)], ready[Decoding(TRUE)] + 1}
<1>1. \A m \in Msg : m.q = "DecodeMultiple" /\ Requeued(m) => ~m.err /\ m.redelivered
  BY DEF Requeued, HeldBy, Budget
<1>2. ~Requeued(Decoding(FALSE))
  BY <1>1, DecodingIs DEF Decoding
<1>3. QED
  BY <1>1, <1>2, RequeueIs, DecodingIs DEF Budget

\* A step of a handler keeps Budget.
LEMMA BudgetWalk ==
    ASSUME ZoomTypes, Budget, NEW l \in Listener, Busy(l), Walks(l)
    PROVE  Budget'
<1>1. Busy("DecodeMultiple")' => Busy("DecodeMultiple") /\ h'["DecodeMultiple"].err = h["DecodeMultiple"].err
  BY DEF Walks, Moved, Busy, Listener, Work
<1>2. ready[Decoding(FALSE)] \in Nat /\ ready[Decoding(TRUE)] \in Nat
  BY DecodingIs DEF ZoomTypes
<1>3. attempts' = attempts /\ attempts \in Nat /\ faults \in Nat
  BY DEF Walks, ZoomTypes
<1>4. CASE UNCHANGED <<ready, up, faults>> /\ (l = "DecodeMultiple" => h'[l].ok \/ ~h[l].ok)
  <2>1. Again' => Again
    BY <1>4, <1>1 DEF Again, Walks, Moved, Listener, Work
  <2>2. Sets' = Sets
    BY <1>3, <1>4 DEF Sets, Decoding
  <2>3. QED
    BY <1>1, <1>4, <2>1, <2>2 DEF Budget
<1>5. CASE UNCHANGED <<ready, up>> /\ faults' = faults + 1
  <2>1. Sets' = Sets /\ Sets \in Nat
    BY <1>2, <1>3, <1>5 DEF Sets, Decoding
  <2>2. Sets <= 1 + faults
    BY DEF Budget
  <2>3. Sets' <= faults'
    BY <1>3, <1>5, <2>1, <2>2
  <2>4. Sets' <= 1 + faults'
    BY <1>3, <1>5, <2>1, <2>3
  <2>5. QED
    BY <1>1, <1>5, <2>3, <2>4 DEF Budget
<1>6. CASE up' = FALSE /\ faults' = faults + 1 /\ up /\ Requeue
  <2>1. ~Again'
    BY <1>6 DEF Again
  <2>2. Sets' <= Sets + 1 /\ Sets \in Nat /\ Sets' \in Nat
    <3>1. /\ ready'[Decoding(FALSE)] = ready[Decoding(FALSE)]
          /\ \/ ready'[Decoding(TRUE)] = ready[Decoding(TRUE)]
             \/ ready'[Decoding(TRUE)] = ready[Decoding(TRUE)] + 1
      BY <1>6, RequeueDecoding
    <3>2. QED
      BY <1>2, <1>3, <3>1 DEF Sets, Decoding
  <2>3. \A m \in Msg : m.q = "DecodeMultiple" /\ m.err => ready'[m] = 0
    BY <1>6, RequeueDecoding
  <2>4. Sets <= 1 + faults
    BY DEF Budget
  <2>5. Sets' <= 1 + faults'
    BY <1>3, <1>6, <2>2, <2>4
  <2>6. QED
    BY <1>1, <2>1, <2>3, <2>5 DEF Budget
<1>7. CASE up' = FALSE /\ faults' = faults + 1 /\ UNCHANGED ready
  <2>1. ~Again'
    BY <1>7 DEF Again
  <2>2. Sets' = Sets /\ Sets \in Nat
    BY <1>2, <1>3, <1>7 DEF Sets, Decoding
  <2>3. Sets <= 1 + faults
    BY DEF Budget
  <2>4. Sets' <= 1 + faults'
    BY <1>3, <1>7, <2>2, <2>3
  <2>5. QED
    BY <1>1, <1>7, <2>1, <2>4 DEF Budget
<1>8. QED
  BY <1>4, <1>5, <1>6, <1>7 DEF Walks

\* Which parts are completed does not change.
SameEnds == \A p \in Part : partStatus'[p] = Completed <=> partStatus[p] = Completed

\* The parts of a set are parts.
LEMMA PartsIs ==
    ASSUME NEW a \in Attempt
    PROVE  /\ \A n \in 1 .. Files : <<a, n>> \in Parts(a) /\ <<a, n>> \in Part
           /\ \A p \in Parts(a) : p \in Part /\ p = <<a, p[2]>> /\ p[2] \in 1 .. Files
  BY DEF Parts, Part

\* Then the same sets are.
LEMMA SameDone == ASSUME SameEnds PROVE AllDone <=> AllDone'
  BY PartsIs DEF SameEnds, AllDone, SetDone

\* A step of one handler leaves what the others have read and are about to do.
LEMMA ReadingStays ==
    ASSUME Shape, Reading, SameEnds,
           \A k \in {"OneStatus", "OneCompleted"} : Busy(k)' => h'[k] = h[k]
    PROVE  Reading'
<1>1. Busy("OneStatus")' => h'["OneStatus"] = h["OneStatus"] /\ Busy("OneStatus")
  BY DEF Busy
<1>2. Busy("OneCompleted")' => h'["OneCompleted"] = h["OneCompleted"] /\ Busy("OneCompleted")
  BY DEF Busy
<1>3. ASSUME Busy("OneCompleted"), h["OneCompleted"].pc = "part", h["OneCompleted"].to = JoinResults,
             NEW n \in 1 .. (h["OneCompleted"].i - 1),
             partStatus[<<h["OneCompleted"].set, n>>] = Completed
      PROVE  partStatus'[<<h["OneCompleted"].set, n>>] = Completed
  <2>1. h["OneCompleted"].set \in Attempt /\ h["OneCompleted"].i \in 1 .. Files
    BY <1>3 DEF Shape, Handles, Listener, Work
  <2>2. n \in 1 .. Files
    BY <2>1, ZoomAssumption
  <2>3. QED
    BY <1>3, <2>1, <2>2, PartsIs DEF SameEnds
<1>4. QED
  BY <1>1, <1>2, <1>3, SameDone DEF Reading

\* What a requeue adds for joinResults is what its handler holds.
LEMMA JoiningFrom ==
    ASSUME ZoomTypes, Joining, AllDone => AllDone',
           Busy("JoinResults")' => Busy("JoinResults"),
           UNCHANGED ready \/ Requeue,
           status' = JoinResults \/ work'["JoinResults"] > 0 \/ result' => AllDone'
    PROVE  Joining'
<1>1. ASSUME NEW m \in Msg, m.q = "JoinResults", ready'[m] > 0 PROVE AllDone
  <2>1. CASE UNCHANGED ready
    BY <1>1, <2>1 DEF Joining
  <2>2. CASE Requeue
    BY <1>1, <2>2, RequeueIs DEF Joining, Requeued
  <2>3. QED
    BY <2>1, <2>2
<1>2. JoinAfterParts'
  BY DEF JoinAfterParts, AllDone, SetDone
<1>3. QED
  BY <1>1, <1>2 DEF Joining

\* The handler that joins the results keeps what it saved.
LEMMA SavingStays ==
    ASSUME Saving, \A k \in {"OneStatus", "JoinResults"} : Busy(k)' => h'[k] = h[k],
           result => result', available => available',
           "Finished" \in told' => "Finished" \in told, status' = Completed => status = Completed
    PROVE  Saving'
  BY DEF Saving, Busy, ResultBeforeFinished

\* What another handler does leaves what decode has started.
LEMMA StartingStays ==
    ASSUME Starting, UNCHANGED <<running, related, attempts>>,
           Busy("DecodeMultiple")' => h'["DecodeMultiple"] = h["DecodeMultiple"]
    PROVE  Starting'
<1>1. Busy("DecodeMultiple")' => Busy("DecodeMultiple") /\ h'["DecodeMultiple"] = h["DecodeMultiple"]
  BY DEF Busy
<1>2. QED
  BY <1>1 DEF Starting, RelatedAreStarted

\* The invariant after a step of a handler, from what is special to its queue.
LEMMA WalkKeeps ==
    ASSUME ZoomInv, NEW l \in Listener, Busy(l), Walks(l), ZoomTypes', Handles(l)',
           SameEnds, running \subseteq running',
           l = "DecodeMultiple" => Starting',
           l # "DecodeMultiple" => UNCHANGED <<running, related>>,
           l \in {"OneStatus", "OneCompleted"} => Reading',
           status' = JoinResults \/ work'["JoinResults"] > 0 \/ result' => AllDone,
           l \in {"OneStatus", "JoinResults"} => Saving',
           l \notin {"OneStatus", "JoinResults"} =>
              /\ result => result'
              /\ available => available'
              /\ "Finished" \in told' => "Finished" \in told
              /\ status' = Completed => status = Completed
    PROVE  ZoomInv'
<1>1. \A k \in Listener \ {l} : h'[k] = h[k]
  BY DEF Walks, Moved
<1>2. Shape'
  BY ShapeFrom DEF ZoomInv, Walks
<1>3. Budget'
  BY BudgetWalk DEF ZoomInv, Shape
<1>4. Starting'
  <2>1. CASE l # "DecodeMultiple"
    <3>1. h'["DecodeMultiple"] = h["DecodeMultiple"]
      BY <1>1, <2>1 DEF Listener, Work
    <3>2. QED
      BY <2>1, <3>1, StartingStays DEF Walks, ZoomInv
  <2>2. QED
    BY <2>1
<1>5. EndedRan'
  BY DEF EndedRan, SameEnds, ZoomInv
<1>6. Reading'
  <2>1. CASE l \notin {"OneStatus", "OneCompleted"}
    BY <1>1, <2>1, ReadingStays DEF ZoomInv, Listener, Work
  <2>2. QED
    BY <2>1
<1>7. Joining'
  <2>1. UNCHANGED ready \/ Requeue
    BY DEF Walks
  <2>2. Busy("JoinResults")' => Busy("JoinResults")
    BY <1>1 DEF Busy, Listener, Work
  <2>3. QED
    BY <2>1, <2>2, SameDone, JoiningFrom DEF ZoomInv, Shape
<1>8. Saving'
  <2>1. CASE l \notin {"OneStatus", "JoinResults"}
    BY <1>1, <2>1, SavingStays DEF ZoomInv, Listener, Work
  <2>2. QED
    BY <2>1
<1>9. QED
  BY <1>2, <1>3, <1>4, <1>5, <1>6, <1>7, <1>8 DEF ZoomInv

\* The least that a step of decode leaves alone, and what it has to keep.
LEMMA DecodeKeeps ==
    ASSUME ZoomInv, Busy("DecodeMultiple"), Walks("DecodeMultiple"), Handles("DecodeMultiple")',
           UNCHANGED <<status, error, audioReady, result, available, partError>>,
           work' \in [Work -> Nat], work'["JoinResults"] = work["JoinResults"],
           partStatus' \in [Part -> Status \ {JoinResults}], SameEnds,
           running' \subseteq Part, running \subseteq running', related' \in Attempt \cup {0},
           "Finished" \in told' => "Finished" \in told, Starting'
    PROVE  ZoomInv'
<1>1. ZoomTypes'
  BY WalkTypes DEF ZoomInv, Shape, ZoomTypes, Walks, Moved, Listener, Work
<1>2. status' = JoinResults \/ work'["JoinResults"] > 0 \/ result' => AllDone
  BY DEF ZoomInv, Joining, JoinAfterParts, AllDone, SetDone
<1>3. QED
  BY <1>1, <1>2, WalkKeeps DEF Listener, Work

\* Nothing changes of what was started, and the place of the handler fits.
LEMMA DecodeGoes ==
    ASSUME ZoomInv, Busy("DecodeMultiple"), Walks("DecodeMultiple"),
           UNCHANGED <<running, related>>,
           h'["DecodeMultiple"].set = h["DecodeMultiple"].set,
           h'["DecodeMultiple"].i = h["DecodeMultiple"].i,
           \/ h'["DecodeMultiple"].pc \in {"error", "publish", "failed", "settle"}
           \/ /\ h'["DecodeMultiple"].pc \in {"started", "joinAudio", "record"}
              /\ h["DecodeMultiple"].pc \in {"files", "started", "joinAudio"}
           \/ h'["DecodeMultiple"].pc = "send" /\ h["DecodeMultiple"].pc = "record"
    PROVE  Starting'
<1> DEFINE r == h["DecodeMultiple"]
           s == h'["DecodeMultiple"]
<1>1. /\ r.set \in Attempt /\ r.set <= attempts
      /\ r.pc \in {"files", "started", "joinAudio"} => r.i = 1
      /\ r.pc \in {"files", "started", "joinAudio", "record", "send"} =>
            \A n \in 1 .. Files : <<r.set, n>> \in running <=> n < r.i
  BY DEF ZoomInv, Starting
<1>2. /\ s.set = r.set /\ s.i = r.i
      /\ s.pc \in {"files", "started", "joinAudio"} => r.pc \in {"files", "started", "joinAudio"}
      /\ s.pc \in {"files", "started", "joinAudio", "record", "send"} =>
             r.pc \in {"files", "started", "joinAudio", "record", "send"}
      /\ s.pc # "saveWork"
  OBVIOUS
<1>3. UNCHANGED attempts
  BY DEF Walks
<1> HIDE DEF r, s
<1>4. \A a \in Attempt, n \in 1 .. Files : <<a, n>> \in running' => a <= attempts'
  BY <1>3 DEF ZoomInv, Starting
<1>5. RelatedAreStarted'
  BY DEF ZoomInv, Starting, RelatedAreStarted
<1>6. QED
  BY <1>1, <1>2, <1>3, <1>4, <1>5 DEF Starting, r, s

\* The places of decode are those of no other handler.
LEMMA DecodePlaces ==
    ASSUME ZoomInv, NEW l \in Listener,
           h[l].pc \in {"files", "started", "joinAudio", "record", "send", "saveWork"}
    PROVE  l = "DecodeMultiple" /\ h[l] \in Handler /\ Busy(l) /\ Handles(l)
<1>1. h[l] \in Handler /\ Busy(l) /\ Handles(l)
  BY BusyIs DEF ZoomInv, Shape, PC
<1>2. h[l].pc \in Places(l)
  BY <1>1 DEF Handles
<1>3. QED
  BY <1>1, <1>2 DEF Places, Listener, Work

\* decode has read the list of the files.
LEMMA ReadFilesKeeps == ASSUME ZoomInv, NEW l \in Listener, ReadFiles(l) PROVE ZoomInv'
<1>1. l = "DecodeMultiple" /\ h[l] \in Handler /\ Busy(l) /\ Handles(l) /\ h[l].pc = "files"
  BY DecodePlaces DEF ReadFiles
<1>2. UNCHANGED <<ready, work, up, parentVars, partVars, attempts, told>>
  BY DEF ReadFiles
<1>3. /\ Moved(l) /\ SameTask(l) /\ h'[l].i = h[l].i
      /\ \/ UNCHANGED faults /\ h'[l].ok = h[l].ok /\ h'[l].pc = "started"
         \/ UNCHANGED faults /\ h'[l].ok = h[l].ok /\ h'[l].pc = "error" /\ h'[l].bad = TRUE
         \/ faults' = faults + 1 /\ faults' \in 0 .. MaxFaults /\ h'[l].pc = "settle"
  <2>1. ZoomTypes
    BY DEF ZoomInv, Shape
  <2>2. CASE Succeeds /\ Goto(l, "started")
    BY <1>1, <2>1, <2>2, GotoIs DEF Succeeds, PC
  <2>3. CASE Succeeds /\ h' = [h EXCEPT ![l].pc = "error", ![l].bad = TRUE]
    BY <1>1, <2>1, <2>3, ToErrorIs DEF Succeeds
  <2>4. CASE Fault("io") /\ Return(l, FALSE)
    BY <1>1, <2>1, <2>4, ReturnIs, FaultIs
  <2>5. QED
    BY <2>2, <2>3, <2>4 DEF ReadFiles
<1>4. Walks(l)
  BY <1>2, <1>3 DEF Walks, SameTask
<1>5. Starting'
  BY <1>1, <1>2, <1>3, <1>4, DecodeGoes DEF SameTask, parentVars, partVars
<1>6. Handles(l)'
  BY <1>1, <1>3 DEF Handles, SameTask, Places
<1>7. QED
  BY <1>1, <1>2, <1>4, <1>5, <1>6, DecodeKeeps
     DEF parentVars, partVars, SameEnds, ZoomInv, Shape, ZoomTypes

\* A send by a handler costs nothing or a fault.
LEMMA SendWalks ==
    ASSUME ZoomTypes, NEW l \in Listener, NEW out, SendOver(out), Moved(l), SameTask(l),
           UNCHANGED attempts, out = "sent" => h'[l].ok \/ ~h[l].ok
    PROVE  Walks(l)
<1>1. CASE out = "sent"
  BY <1>1, SendIs DEF Walks, SameTask
<1>2. CASE out # "sent"
  BY <1>2, SendIs DEF Walks, SameTask
<1>3. QED
  BY <1>1, <1>2

\* decode has told the owner that it started.
LEMMA InformStartedKeeps ==
    ASSUME ZoomInv, NEW l \in Listener, NEW out \in SendOutcome, InformStarted(l, out)
    PROVE  ZoomInv'
<1>1. l = "DecodeMultiple" /\ h[l] \in Handler /\ Busy(l) /\ Handles(l) /\ h[l].pc = "started"
  BY DecodePlaces DEF InformStarted
<1>2. /\ UNCHANGED <<work, parentVars, partVars, attempts>> /\ SendOver(out)
      /\ told' \subseteq told \cup {"Started"}
  BY DEF InformStarted
<1>3. /\ Moved(l) /\ SameTask(l) /\ h'[l].i = h[l].i
      /\ h'[l].pc \in {"record", "joinAudio", "settle"}
      /\ out = "sent" => h'[l].ok = h[l].ok
  <2>1. CASE out = "failed"
    BY <1>1, <2>1, ReturnIs DEF InformStarted, ZoomInv, Shape
  <2>2. CASE out # "failed"
    <3>1. PICK pc \in {"record", "joinAudio"} : Goto(l, pc)
      BY <2>2 DEF InformStarted
    <3>2. QED
      BY <1>1, <2>2, <3>1, GotoIs DEF PC, ZoomInv, Shape
  <2>3. QED
    BY <2>1, <2>2
<1>4. Walks(l)
  BY <1>2, <1>3, SendWalks DEF ZoomInv, Shape
<1>5. Starting'
  BY <1>1, <1>2, <1>3, <1>4, DecodeGoes DEF SameTask, parentVars, partVars
<1>6. Handles(l)'
  BY <1>1, <1>3 DEF Handles, SameTask, Places
<1>7. QED
  BY <1>1, <1>2, <1>4, <1>5, <1>6, DecodeKeeps
     DEF parentVars, partVars, SameEnds, ZoomInv, Shape, ZoomTypes

\* decode has asked for the audio to be merged.
LEMMA SendJoinAudioKeeps ==
    ASSUME ZoomInv, NEW l \in Listener, NEW out \in SendOutcome, SendJoinAudio(l, out)
    PROVE  ZoomInv'
<1>1. l = "DecodeMultiple" /\ h[l] \in Handler /\ Busy(l) /\ Handles(l) /\ h[l].pc = "joinAudio"
  BY DecodePlaces DEF SendJoinAudio
<1>2. UNCHANGED <<parentVars, partVars, attempts, told>> /\ SendOver(out)
  BY DEF SendJoinAudio
<1>3. /\ Moved(l) /\ SameTask(l) /\ h'[l].i = h[l].i
      /\ h'[l].pc \in {"record", "settle"}
      /\ out = "sent" => h'[l].ok = h[l].ok
  BY <1>1, ReturnIs, GotoIs DEF SendJoinAudio, PC, ZoomInv, Shape
<1>4. work' \in [Work -> Nat] /\ work'["JoinResults"] = work["JoinResults"]
  <2>1. work \in [Work -> Nat] /\ "JoinAudio" \in Work /\ "JoinResults" \in Work
    BY DEF ZoomInv, Shape, ZoomTypes, Work
  <2>2. UNCHANGED work \/ work' = [work EXCEPT !["JoinAudio"] = @ + 1]
    BY DEF SendJoinAudio
  <2>3. work["JoinAudio"] + 1 \in Nat
    BY <2>1
  <2>4. QED
    BY <2>1, <2>2, <2>3
<1>5. Walks(l)
  BY <1>2, <1>3, SendWalks DEF ZoomInv, Shape
<1>6. Starting'
  BY <1>1, <1>2, <1>3, <1>5, DecodeGoes DEF SameTask, parentVars, partVars
<1>7. Handles(l)'
  BY <1>1, <1>3 DEF Handles, SameTask, Places
<1>8. QED
  BY <1>1, <1>2, <1>4, <1>5, <1>6, <1>7, DecodeKeeps
     DEF parentVars, partVars, SameEnds, ZoomInv, Shape, ZoomTypes

\* The part that decode is at was not started before, so its record is new.
LEMMA PartIsNew ==
    ASSUME ZoomInv, Busy("DecodeMultiple"), h["DecodeMultiple"].pc \in {"record", "send"}
    PROVE  LET p == <<h["DecodeMultiple"].set, h["DecodeMultiple"].i>> IN
           p \in Part /\ p \notin running /\ partStatus[p] # Completed
<1> DEFINE a == h["DecodeMultiple"].set
           n == h["DecodeMultiple"].i
<1>1. /\ a \in Attempt /\ \A k \in 1 .. Files : <<a, k>> \in running <=> k < n
  BY DEF ZoomInv, Starting
<1>2. n \in 1 .. Files /\ n \in Nat
  BY ZoomAssumption DEF ZoomInv, Shape, Handles, Listener, Work
<1> HIDE DEF a, n
<1>3. <<a, n>> \in Part /\ <<a, n>> \notin running
  BY <1>1, <1>2, PartsIs
<1>4. partStatus[<<a, n>>] # Completed
  BY <1>3 DEF ZoomInv, EndedRan
<1>5. QED
  BY <1>3, <1>4 DEF a, n

\* decode has recorded a part, which changes no other.
LEMMA RecordPartKeeps == ASSUME ZoomInv, NEW l \in Listener, RecordPart(l) PROVE ZoomInv'
<1> DEFINE p == <<h[l].set, h[l].i>>
<1>1. l = "DecodeMultiple" /\ h[l] \in Handler /\ Busy(l) /\ Handles(l) /\ h[l].pc = "record"
  BY DecodePlaces DEF RecordPart
<1>2. /\ UNCHANGED <<ready, work, up, parentVars, partError, running, attempts, told>>
      /\ partStatus' = [partStatus EXCEPT ![p] = Uploaded] \/ UNCHANGED partStatus
  BY DEF RecordPart
<1>3. p \in Part /\ partStatus[p] # Completed
  BY <1>1, PartIsNew
<1>4. /\ Moved(l) /\ SameTask(l) /\ h'[l].i = h[l].i
      /\ h'[l].pc = "error" => h'[l].bad
      /\ \/ UNCHANGED faults /\ h'[l].ok = h[l].ok /\ h'[l].pc = "send"
         \/ faults' = faults + 1 /\ faults' \in 0 .. MaxFaults /\ h'[l].pc \in {"error", "settle"}
  <2>1. CASE Succeeds /\ Goto(l, "send")
    BY <1>1, <2>1, GotoIs DEF Succeeds, PC, ZoomInv, Shape, Handles
  <2>2. CASE Fault("io") /\ StartFails(l)
    BY <1>1, <2>2, StartFailsIs, FaultIs DEF ZoomInv, Shape
  <2>3. QED
    BY <2>1, <2>2 DEF RecordPart
<1>5. Walks(l)
  BY <1>2, <1>4 DEF Walks, SameTask
<1>6. Starting'
  BY <1>1, <1>2, <1>4, <1>5, DecodeGoes DEF SameTask, parentVars
<1>7. Handles(l)'
  BY <1>1, <1>4 DEF Handles, SameTask, Places
<1>8. partStatus' \in [Part -> Status \ {JoinResults}] /\ SameEnds
  <2>1. partStatus \in [Part -> Status \ {JoinResults}]
    BY DEF ZoomInv, Shape, ZoomTypes
  <2>2. Uploaded \in Status \ {JoinResults} /\ Uploaded # Completed
    BY DEF Uploaded, Status, JoinResults, Completed
  <2>3. QED
    BY <1>2, <1>3, <2>1, <2>2 DEF SameEnds
<1>9. QED
  BY <1>1, <1>2, <1>5, <1>6, <1>7, <1>8, DecodeKeeps
     DEF parentVars, ZoomInv, Shape, ZoomTypes

\* decode has started a part: those up to it are running.
LEMMA SendPartKeeps ==
    ASSUME ZoomInv, NEW l \in Listener, NEW out \in SendOutcome, SendPart(l, out)
    PROVE  ZoomInv'
<1> DEFINE a == h[l].set
           n == h[l].i
<1>1. l = "DecodeMultiple" /\ h[l] \in Handler /\ Busy(l) /\ Handles(l) /\ h[l].pc = "send"
  BY DecodePlaces DEF SendPart
<1>2. UNCHANGED <<work, parentVars, partStatus, partError, attempts, told>> /\ SendOver(out)
  BY DEF SendPart
<1>3. CASE out = "failed"
  <2>1. StartFails(l) /\ UNCHANGED running
    BY <1>3 DEF SendPart
  <2>2. /\ Moved(l) /\ SameTask(l) /\ h'[l].i = h[l].i
        /\ h'[l].pc = "error" => h'[l].bad
        /\ h'[l].pc \in {"error", "settle"}
    BY <1>1, <2>1, StartFailsIs DEF ZoomInv, Shape
  <2>3. Walks(l)
    BY <1>2, <1>3, <2>2, SendWalks DEF ZoomInv, Shape
  <2>4. Starting'
    BY <1>1, <1>2, <2>1, <2>2, <2>3, DecodeGoes DEF SameTask, parentVars
  <2>5. Handles(l)'
    BY <1>1, <2>2 DEF Handles, SameTask, Places
  <2>6. QED
    BY <1>1, <1>2, <2>1, <2>3, <2>4, <2>5, DecodeKeeps
       DEF parentVars, SameEnds, ZoomInv, Shape, ZoomTypes
<1>4. CASE out # "failed"
  <2>1. /\ running' = running \cup {<<a, n>>}
        /\ IF n = Files THEN Goto(l, "saveWork")
                        ELSE h' = [h EXCEPT ![l].pc = "record", ![l].i = @ + 1]
    BY <1>4 DEF SendPart
  <2>2. n \in 1 .. Files /\ a \in Attempt /\ a <= attempts
        /\ \A k \in 1 .. Files : <<a, k>> \in running <=> k < n
    BY <1>1 DEF Handles, ZoomInv, Starting
  <2>3. n # Files => n + 1 \in 1 .. Files /\ n + 1 \in Nat
    BY <2>2, ZoomAssumption
  <2>4. /\ Moved(l) /\ SameTask(l) /\ h'[l].ok = h[l].ok
        /\ \/ n = Files /\ h'[l].pc = "saveWork" /\ h'[l].i = n
           \/ n # Files /\ h'[l].pc = "record" /\ h'[l].i = n + 1
    <3>1. CASE n = Files
      BY <1>1, <2>1, <3>1, GotoIs DEF PC, ZoomInv, Shape
    <3>2. CASE n # Files
      BY <1>1, <2>1, <2>3, <3>2 DEF ZoomInv, Shape, ZoomTypes, Moved, SameTask, Handler, PC
    <3>3. QED
      BY <3>1, <3>2
  <2>5. Walks(l)
    BY <1>2, <2>4, SendWalks DEF ZoomInv, Shape
  <2>6. Handles(l)'
    BY <1>1, <2>2, <2>3, <2>4 DEF Handles, SameTask, Places
  <2>7. <<a, n>> \in Part
    BY <2>2, PartsIs
  <2> HIDE DEF a, n
  <2>8. \A k \in 1 .. Files : <<a, k>> \in running' <=> k < n + 1
    BY <2>1, <2>2
  <2>9. n = Files => Parts(a) \subseteq running'
    BY <2>2, <2>8, PartsIs, ZoomAssumption
  <2>10. \A b \in Attempt, k \in 1 .. Files : <<b, k>> \in running' => b <= attempts'
    BY <1>2, <2>1, <2>2 DEF ZoomInv, Starting
  <2>11. RelatedAreStarted'
    BY <1>2, <2>1 DEF parentVars, ZoomInv, Starting, RelatedAreStarted
  <2>12. h'[l].set = a
    BY <2>4 DEF SameTask, a
  <2>13. Starting'
    BY <1>1, <1>2, <2>2, <2>4, <2>8, <2>9, <2>10, <2>11, <2>12 DEF Starting
  <2>14. QED
    BY <1>1, <1>2, <2>1, <2>5, <2>6, <2>7, <2>13, DecodeKeeps
       DEF parentVars, SameEnds, ZoomInv, Shape, ZoomTypes
<1>5. QED
  BY <1>3, <1>4

\* decode has recorded its set, all parts of which are running.
LEMMA SaveWorkKeeps == ASSUME ZoomInv, NEW l \in Listener, SaveWork(l) PROVE ZoomInv'
<1>1. l = "DecodeMultiple" /\ h[l] \in Handler /\ Busy(l) /\ Handles(l) /\ h[l].pc = "saveWork"
  BY DecodePlaces DEF SaveWork
<1>2. UNCHANGED <<ready, work, up, status, error, audioReady, result, available, partVars,
                  attempts, told>>
  BY DEF SaveWork, FailsAndReturns, parentVars
<1>3. /\ Moved(l) /\ SameTask(l) /\ h'[l].i = h[l].i /\ h'[l].pc = "settle"
      /\ \/ UNCHANGED faults /\ h'[l].ok = TRUE /\ related' = h[l].set
         \/ faults' = faults + 1 /\ faults' \in 0 .. MaxFaults /\ UNCHANGED related
  <2>1. CASE Succeeds /\ related' = h[l].set /\ Return(l, TRUE)
    BY <1>1, <2>1, ReturnIs DEF Succeeds, ZoomInv, Shape
  <2>2. CASE FailsAndReturns(l)
    BY <1>1, <2>2, ReturnIs, FaultIs DEF FailsAndReturns, parentVars, ZoomInv, Shape
  <2>3. QED
    BY <2>1, <2>2 DEF SaveWork
<1>4. Walks(l)
  BY <1>2, <1>3 DEF Walks, SameTask
<1>5. h[l].set \in Attempt /\ h[l].set <= attempts /\ Parts(h[l].set) \subseteq running
  BY <1>1 DEF ZoomInv, Starting
<1>6. RelatedAreStarted'
  BY <1>2, <1>3, <1>5 DEF partVars, ZoomInv, Starting, RelatedAreStarted
<1>7. Starting'
  <2>1. h'[l].set \in Attempt /\ h'[l].set <= attempts' /\ h'[l].pc = "settle"
    BY <1>2, <1>3, <1>5 DEF SameTask
  <2>2. \A a \in Attempt, n \in 1 .. Files : <<a, n>> \in running' => a <= attempts'
    BY <1>2 DEF partVars, ZoomInv, Starting
  <2>3. QED
    BY <1>1, <1>6, <2>1, <2>2 DEF Starting
<1>8. Handles(l)'
  BY <1>1, <1>3 DEF Handles, SameTask, Places
<1>9. QED
  BY <1>1, <1>2, <1>3, <1>4, <1>5, <1>7, <1>8, DecodeKeeps
     DEF partVars, SameEnds, ZoomInv, Shape, ZoomTypes

\* A step that only moves a handler keeps what is not about its place.
LEMMA PlaceKeeps ==
    ASSUME ZoomInv, NEW l \in Listener, Busy(l), Walks(l), Handles(l)',
           UNCHANGED <<work, status, audioReady, result, available, related, partVars>>,
           error' \in BOOLEAN, "Finished" \in told' => "Finished" \in told,
           l = "DecodeMultiple" => Starting',
           l \in {"OneStatus", "OneCompleted"} => Reading',
           l \in {"OneStatus", "JoinResults"} => Saving'
    PROVE  ZoomInv'
<1>1. ZoomTypes'
  BY WalkTypes DEF ZoomInv, Shape, ZoomTypes, Walks, Moved, partVars
<1>2. status' = JoinResults \/ work'["JoinResults"] > 0 \/ result' => AllDone
  BY DEF ZoomInv, Joining, JoinAfterParts, AllDone, SetDone
<1>3. SameEnds /\ running \subseteq running' /\ UNCHANGED <<running, related>>
  BY DEF SameEnds, partVars
<1>4. QED
  BY <1>1, <1>2, <1>3, WalkKeeps

\* A step of gotStatus leaves what completed has read.
LEMMA StatusReads ==
    ASSUME Shape, Reading, SameEnds, Moved("OneStatus"), h'["OneStatus"].to # JoinResults
    PROVE  Reading'
<1>1. h'["OneCompleted"] = h["OneCompleted"]
  BY DEF Moved, Listener, Work
<1>2. CASE Busy("OneCompleted")
  <2>1. h["OneCompleted"].pc = "part" => h["OneCompleted"].set \in Attempt /\ h["OneCompleted"].i \in 1 .. Files
    BY <1>2 DEF Shape, Handles, Listener, Work
  <2>2. ASSUME NEW n \in 1 .. (h["OneCompleted"].i - 1), h["OneCompleted"].pc = "part",
               h["OneCompleted"].to = JoinResults
        PROVE  partStatus'[<<h["OneCompleted"].set, n>>] = Completed
    <3>1. partStatus[<<h["OneCompleted"].set, n>>] = Completed
      BY <1>2, <2>2 DEF Reading
    <3>2. n \in 1 .. Files
      BY <2>1, <2>2, ZoomAssumption
    <3>3. QED
      BY <2>1, <2>2, <3>1, <3>2, PartsIs DEF SameEnds
  <2>3. QED
    BY <1>1, <1>2, <2>2, SameDone DEF Reading
<1>3. CASE ~Busy("OneCompleted")
  BY <1>1, <1>3 DEF Reading, Busy
<1>4. QED
  BY <1>2, <1>3

\* What the handlers of the parts keep when one of them comes to its end.
LEMMA ReadingEnds ==
    ASSUME Shape, Reading, SameEnds, NEW l \in {"OneStatus", "OneCompleted"}, Busy(l), Moved(l),
           h'[l].set = h[l].set, h'[l].to = h[l].to,
           \/ h'[l].pc \in {"settle", "failed"}
           \/ h'[l].pc \in {"publish", "error"} /\ h'[l].bad
    PROVE  Reading'
<1>1. CASE l = "OneStatus"
  BY <1>1, StatusReads DEF Reading
<1>2. CASE l = "OneCompleted"
  <2>1. h'["OneStatus"] = h["OneStatus"]
    BY <1>2 DEF Moved, Listener, Work
  <2>2. h'["OneCompleted"].to \in {0, JoinResults}
    BY <1>2 DEF Reading
  <2>3. h'["OneCompleted"].pc \notin {"part", "status", "join"}
    BY <1>2
  <2>4. h'["OneCompleted"].pc = "publish" => h'["OneCompleted"].bad
    BY <1>2
  <2>5. QED
    BY <2>1, <2>2, <2>3, <2>4 DEF Reading, Busy
<1>3. QED
  BY <1>1, <1>2

\* And the one that joins the results.
LEMMA SavingEnds ==
    ASSUME Saving, NEW l \in {"OneStatus", "JoinResults"}, Busy(l), Moved(l),
           UNCHANGED <<status, result, available>>, "Finished" \in told' => "Finished" \in told,
           h'[l].to = h[l].to,
           \/ h'[l].pc \in {"settle", "failed"}
           \/ h'[l].pc \in {"publish", "error"} /\ h'[l].bad
    PROVE  Saving'
<1>1. ResultBeforeFinished'
  BY DEF Saving, ResultBeforeFinished
<1>2. CASE l = "OneStatus"
  <2>1. h'["JoinResults"] = h["JoinResults"]
    BY <1>2 DEF Moved, Listener, Work
  <2>2. h'["OneStatus"].pc # "status"
    BY <1>2
  <2>3. QED
    BY <1>1, <2>1, <2>2 DEF Saving, Busy
<1>3. CASE l = "JoinResults"
  <2>1. h'["OneStatus"] = h["OneStatus"]
    BY <1>3 DEF Moved, Listener, Work
  <2>2. /\ h'["JoinResults"].pc \notin {"available", "status", "finished"}
        /\ h'["JoinResults"].pc = "publish" => h'["JoinResults"].bad
        /\ h'["JoinResults"].to = Completed
    BY <1>3 DEF Saving
  <2>3. QED
    BY <1>1, <2>1, <2>2 DEF Saving, Busy
<1>4. QED
  BY <1>2, <1>3

\* A handler comes to its end.
LEMMA EndKeeps ==
    ASSUME ZoomInv, NEW l \in Listener, Busy(l), Walks(l), Handles(l)',
           UNCHANGED <<work, status, audioReady, result, available, related, partVars>>,
           error' \in BOOLEAN, "Finished" \in told' => "Finished" \in told,
           h'[l].set = h[l].set, h'[l].i = h[l].i, h'[l].to = h[l].to,
           \/ h'[l].pc \in {"settle", "failed"}
           \/ h'[l].pc \in {"publish", "error"} /\ h'[l].bad
    PROVE  ZoomInv'
<1>1. l = "DecodeMultiple" => Starting'
  BY DecodeGoes DEF partVars
<1>2. l \in {"OneStatus", "OneCompleted"} => Reading'
  BY ReadingEnds DEF ZoomInv, SameEnds, partVars, Walks
<1>3. l \in {"OneStatus", "JoinResults"} => Saving'
  BY SavingEnds DEF ZoomInv, Walks
<1>4. QED
  BY <1>1, <1>2, <1>3, PlaceKeeps

\* A call fails and its handler returns.
LEMMA FailsKeeps ==
    ASSUME ZoomInv, NEW l \in Listener, Busy(l), FailsAndReturns(l),
           UNCHANGED <<ready, work, up, attempts, told>>
    PROVE  ZoomInv'
<1>1. h[l] \in Handler /\ Handles(l)
  BY BusyIs DEF ZoomInv, Shape
<1>2. /\ faults' = faults + 1 /\ faults' \in 0 .. MaxFaults
      /\ Moved(l) /\ SameTask(l) /\ h'[l].pc = "settle" /\ h'[l].i = h[l].i /\ h'[l].to = h[l].to
  BY <1>1, FaultIs, ReturnIs DEF FailsAndReturns, ZoomInv, Shape
<1>3. Walks(l)
  BY <1>2 DEF Walks, SameTask
<1>4. Handles(l)'
  BY <1>1, <1>2 DEF Handles, SameTask, Places, Listener, Work
<1>5. QED
  BY <1>2, <1>3, <1>4, EndKeeps DEF FailsAndReturns, parentVars, SameTask, ZoomInv, Shape, ZoomTypes

\* The places of the handlers of the parts.
LEMMA PartPlaces ==
    ASSUME ZoomInv, NEW l \in Listener, h[l].pc \in {"work", "part"}
    PROVE  /\ l \in {"OneStatus", "OneCompleted"} /\ h[l] \in Handler /\ Busy(l) /\ Handles(l)
           /\ h[l].pc = "part" => h[l].set \in Attempt
<1>1. h[l] \in Handler /\ Busy(l) /\ Handles(l)
  BY BusyIs DEF ZoomInv, Shape, PC
<1>2. h[l].pc \in Places(l)
  BY <1>1 DEF Handles
<1>3. l \in {"OneStatus", "OneCompleted"}
  BY <1>2 DEF Places, Listener, Work
<1>4. QED
  BY <1>1, <1>3 DEF Handles

\* A step of another handler leaves what joinResults has saved.
LEMMA SavingReads ==
    ASSUME Saving, NEW l \in Listener, l # "JoinResults", Moved(l),
           UNCHANGED <<status, result, available, told>>,
           l = "OneStatus" /\ h'[l].pc = "status" => h'[l].to # Completed
    PROVE  Saving'
<1>1. h'["JoinResults"] = h["JoinResults"]
  BY DEF Moved, Listener, Work
<1>2. l # "OneStatus" => h'["OneStatus"] = h["OneStatus"]
  BY DEF Moved, Listener, Work
<1>3. Busy("OneStatus")' /\ h'["OneStatus"].pc = "status" => h'["OneStatus"].to # Completed
  BY <1>2 DEF Saving, Busy
<1>4. QED
  BY <1>1, <1>3 DEF Saving, Busy, ResultBeforeFinished

\* gotStatus and completed have found the set of parts.
LEMMA ReadWorkKeeps == ASSUME ZoomInv, NEW l \in Listener, ReadWork(l) PROVE ZoomInv'
<1>1. /\ l \in {"OneStatus", "OneCompleted"} /\ h[l] \in Handler /\ Busy(l) /\ Handles(l)
      /\ h[l].pc = "work"
  BY PartPlaces DEF ReadWork
<1>2. UNCHANGED <<ready, work, up, parentVars, partVars, attempts, told>>
  BY DEF ReadWork
<1>3. CASE /\ Return(l, FALSE)
           /\ UNCHANGED faults \/ (faults' = faults + 1 /\ faults' \in 0 .. MaxFaults)
  <2>1. /\ Moved(l) /\ SameTask(l) /\ h'[l].pc = "settle" /\ h'[l].i = h[l].i
        /\ h'[l].to = h[l].to
    BY <1>1, <1>3, ReturnIs DEF ZoomInv, Shape
  <2>2. Walks(l)
    BY <1>1, <1>2, <1>3, <2>1 DEF Walks, SameTask
  <2>3. Handles(l)'
    BY <1>1, <2>1 DEF Handles, SameTask, Places
  <2>4. QED
    BY <1>1, <1>2, <2>1, <2>2, <2>3, EndKeeps DEF SameTask, parentVars, ZoomInv, Shape, ZoomTypes
<1>4. CASE UNCHANGED faults /\ related # 0 /\ h' = [h EXCEPT ![l].pc = "parent", ![l].set = related]
  <2>1. related \in Attempt /\ related \in Nat
    BY <1>4, ZoomAssumption DEF ZoomInv, Shape, ZoomTypes, Attempt
  <2>2. /\ Moved(l) /\ h'[l].err = h[l].err /\ h'[l].set = related /\ h'[l].pc = "parent"
        /\ h'[l].i = h[l].i /\ h'[l].to = h[l].to
    BY <1>1, <1>4, <2>1 DEF ZoomInv, Shape, ZoomTypes, Moved, Handler, PC
  <2>3. Walks(l)
    BY <1>1, <1>2, <1>4, <2>2 DEF Walks
  <2>4. Handles(l)'
    BY <1>1, <2>1, <2>2 DEF Handles, Places
  <2>5. SameEnds
    BY <1>2 DEF SameEnds, partVars
  <2>6. Reading'
    <3>1. CASE l = "OneStatus"
      BY <1>1, <2>2, <2>5, <3>1, StatusReads DEF ZoomInv, Reading
    <3>2. CASE l = "OneCompleted"
      BY <1>1, <2>2, <3>2 DEF ZoomInv, Reading, Moved, Listener, Work, Busy
    <3>3. QED
      BY <1>1, <3>1, <3>2
  <2>7. Saving'
    BY <1>1, <1>2, <2>2, SavingReads DEF parentVars, ZoomInv
  <2>8. QED
    BY <1>1, <1>2, <2>3, <2>4, <2>6, <2>7, PlaceKeeps DEF parentVars, ZoomInv, Shape, ZoomTypes
<1>5. QED
  BY <1>3, <1>4, FaultIs DEF ReadWork, Succeeds, ZoomInv, Shape

\* gotStatus, completed and mergedAudio have read the parent.
LEMMA ReadParentKeeps == ASSUME ZoomInv, NEW l \in Listener, ReadParent(l) PROVE ZoomInv'
<1>1. h[l] \in Handler /\ Busy(l) /\ Handles(l) /\ h[l].pc = "parent"
  BY BusyIs DEF ZoomInv, Shape, PC, ReadParent
<1>2. l \in {"OneStatus", "OneCompleted", "JoinAudio"}
  BY <1>1 DEF Handles, Places, Listener, Work
<1>3. UNCHANGED <<ready, work, up, parentVars, partVars, attempts, told>>
  BY DEF ReadParent
<1>4. CASE /\ \E ok \in BOOLEAN : Return(l, ok)
           /\ UNCHANGED faults \/ (faults' = faults + 1 /\ faults' \in 0 .. MaxFaults)
  <2>1. /\ Moved(l) /\ SameTask(l) /\ h'[l].pc = "settle" /\ h'[l].i = h[l].i
        /\ h'[l].to = h[l].to
    BY <1>1, <1>4, ReturnIs DEF ZoomInv, Shape
  <2>2. Walks(l)
    BY <1>2, <1>3, <1>4, <2>1 DEF Walks, SameTask
  <2>3. Handles(l)'
    BY <1>1, <1>2, <2>1 DEF Handles, SameTask, Places
  <2>4. QED
    BY <1>1, <1>3, <2>1, <2>2, <2>3, EndKeeps DEF SameTask, parentVars, ZoomInv, Shape, ZoomTypes
<1>5. CASE /\ UNCHANGED faults
           /\ h' = [h EXCEPT ![l].pc = AfterParent(l), ![l].seen = status,
                             ![l].bad = l = "JoinAudio" /\ h[l].err, ![l].again = l # "JoinAudio"]
  <2>1. /\ AfterParent(l) \in {"part", "error", "audioReady"}
        /\ AfterParent(l) = "part" <=> l # "JoinAudio"
        /\ AfterParent(l) = "error" => l = "JoinAudio" /\ h[l].err
    BY <1>2 DEF AfterParent
  <2>2. /\ Moved(l) /\ SameTask(l) /\ h'[l].pc = AfterParent(l) /\ h'[l].i = h[l].i
        /\ h'[l].to = h[l].to /\ h'[l].bad = (l = "JoinAudio" /\ h[l].err)
    <3>1. status \in Status /\ (l = "JoinAudio" /\ h[l].err) \in BOOLEAN /\ (l # "JoinAudio") \in BOOLEAN
      BY <1>1 DEF ZoomInv, Shape, ZoomTypes, Handler
    <3>2. AfterParent(l) \in PC
      BY <2>1 DEF PC
    <3>3. ZoomTypes
      BY DEF ZoomInv, Shape
    <3>4. h' = [h EXCEPT ![l].pc = AfterParent(l), ![l].seen = status,
                         ![l].bad = l = "JoinAudio" /\ h[l].err,
                         ![l].again = l # "JoinAudio"]
      BY <1>5
    <3>5. h[l] \in Handler
      BY <1>1
    <3>6. Moved(l)
      <4>1. h \in [Listener -> Handler \cup {Idle}]
        BY <3>3 DEF ZoomTypes
      <4>2. h'[l] \in Handler
        BY <3>1, <3>2, <3>4, <3>5, <4>1 DEF Handler
      <4>3. \A k \in Listener \ {l} : h'[k] = h[k]
        BY <3>4, <4>1
      <4>4. \A k \in Listener : h'[k] \in Handler \cup {Idle}
        BY <4>1, <4>2, <4>3
      <4>5. DOMAIN h' = Listener /\ h' = [k \in Listener |-> h'[k]]
        BY <3>4, <4>1
      <4>6. QED
        BY <4>2, <4>3, <4>4, <4>5 DEF Moved
    <3>7. SameTask(l) /\ h'[l].pc = AfterParent(l) /\ h'[l].i = h[l].i /\ h'[l].to = h[l].to
      BY <3>3, <3>4, <3>5 DEF ZoomTypes, SameTask, Handler
    <3>8. h'[l].bad = (l = "JoinAudio" /\ h[l].err)
      BY <3>3, <3>4, <3>5 DEF ZoomTypes, Handler
    <3>9. QED
      BY <3>6, <3>7, <3>8
  <2>3. Walks(l)
    BY <1>2, <1>3, <1>5, <2>2 DEF Walks, SameTask
  <2>4. Handles(l)'
    BY <1>1, <1>2, <2>1, <2>2 DEF Handles, SameTask, Places
  <2>5. SameEnds
    BY <1>3 DEF SameEnds, partVars
  <2>6. l \in {"OneStatus", "OneCompleted"} => Reading'
    <3>1. CASE l = "OneStatus"
      BY <1>1, <2>2, <2>5, <3>1, StatusReads DEF ZoomInv, Reading
    <3>2. CASE l = "OneCompleted"
      <4>1. h'[l].pc = "part" /\ h'[l].i = 1 /\ h'[l].to \in {0, JoinResults}
        BY <1>1, <2>1, <2>2, <3>2 DEF Handles, ZoomInv, Reading
      <4>2. h'["OneStatus"] = h["OneStatus"]
        BY <2>2, <3>2 DEF Moved, Listener, Work
      <4>3. QED
        BY <3>2, <4>1, <4>2 DEF ZoomInv, Reading, Busy
    <3>3. QED
      BY <3>1, <3>2
  <2>7. l \in {"OneStatus", "JoinResults"} => Saving'
    BY <1>2, <1>3, <2>1, <2>2, SavingReads DEF parentVars, ZoomInv
  <2>8. QED
    BY <1>1, <1>2, <1>3, <2>3, <2>4, <2>6, <2>7, PlaceKeeps DEF parentVars, ZoomInv, Shape, ZoomTypes
<1>6. QED
  BY <1>4, <1>5, FaultIs DEF ReadParent, Succeeds, AlreadyFailed, ZoomInv, Shape

\* What a handler finds in the next part.
LEMMA PartSaysIs ==
    ASSUME ZoomInv, NEW l \in {"OneStatus", "OneCompleted"}, h[l] \in Handler, Busy(l), NEW st \in Status,
           st # JoinResults
    PROVE  /\ PartSays(l, st) \in Status
           /\ l = "OneStatus" => PartSays(l, st) # JoinResults
           /\ l = "OneCompleted" =>
                /\ PartSays(l, st) \in {0, JoinResults}
                /\ PartSays(l, st) = JoinResults => st = Completed /\ h[l].to = JoinResults
<1>1. h[l].to \in Status
  BY DEF Handler
<1>2. CASE l = "OneStatus"
  <2>1. PartSays(l, st) \in {h[l].to, st}
    BY <1>2 DEF PartSays, Lesser
  <2>2. h[l].to # JoinResults
    BY <1>2 DEF ZoomInv, Reading
  <2>3. QED
    BY <1>1, <1>2, <2>1, <2>2
<1>3. CASE l = "OneCompleted"
  <2>1. PartSays(l, st) = IF st = Completed THEN h[l].to ELSE 0
    BY <1>3 DEF PartSays
  <2>2. h[l].to \in {0, JoinResults}
    BY <1>3 DEF ZoomInv, Reading
  <2>3. JoinResults # 0 /\ 0 \in Status /\ JoinResults \in Status
    BY DEF JoinResults, Status
  <2>4. QED
    BY <1>3, <2>1, <2>2, <2>3
<1>4. QED
  BY <1>2, <1>3

\* gotStatus and completed have read a part: what completed found so far is
\* completed, and stays so.
LEMMA ReadPartKeeps == ASSUME ZoomInv, NEW l \in Listener, ReadPart(l) PROVE ZoomInv'
<1> DEFINE p == <<h[l].set, h[l].i>>
           least == PartSays(l, partStatus[p])
<1>1. /\ l \in {"OneStatus", "OneCompleted"} /\ h[l] \in Handler /\ Busy(l) /\ Handles(l)
      /\ h[l].pc = "part" /\ h[l].set \in Attempt /\ h[l].i \in 1 .. Files
  BY PartPlaces DEF ReadPart, Handles
<1>2. UNCHANGED <<ready, work, up, parentVars, partVars, attempts, told, faults>>
  BY DEF ReadPart, Succeeds
<1>3. \/ p \in partError /\ h' = [h EXCEPT ![l].pc = "error", ![l].bad = TRUE]
      \/ h[l].i < Files /\ h' = [h EXCEPT ![l].i = @ + 1, ![l].to = least]
      \/ /\ h[l].i = Files
         /\ h' = [h EXCEPT ![l].to = least,
                           ![l].pc = IF MustSave(l, least) THEN "status" ELSE "settle"]
  <2>1. CASE p \in partError
    BY <2>1 DEF ReadPart
  <2>2. CASE p \notin partError /\ h[l].i < Files
    BY <2>2 DEF ReadPart
  <2>3. CASE p \notin partError /\ h[l].i = Files
    <3>1. ~(h[l].i < Files)
      BY <2>3, ZoomAssumption
    <3>2. QED
      BY <2>3, <3>1 DEF ReadPart
  <2>4. h[l].i < Files \/ h[l].i = Files
    BY <1>1, ZoomAssumption
  <2>5. QED
    BY <2>1, <2>2, <2>3, <2>4
<1>4. p \in Part /\ partStatus[p] \in Status /\ partStatus[p] # JoinResults
  BY <1>1, PartsIs DEF ZoomInv, Shape, ZoomTypes
<1>5. /\ least \in Status
      /\ l = "OneStatus" => least # JoinResults
      /\ l = "OneCompleted" =>
           /\ least \in {0, JoinResults}
           /\ least = JoinResults => partStatus[p] = Completed /\ h[l].to = JoinResults
  BY <1>1, <1>4, PartSaysIs
<1>6. SameEnds
  BY <1>2 DEF SameEnds, partVars
<1>7. l = "OneCompleted" /\ least = JoinResults =>
         \A n \in 1 .. h[l].i : partStatus[<<h[l].set, n>>] = Completed
  <2>1. SUFFICES ASSUME l = "OneCompleted", least = JoinResults, NEW n \in 1 .. h[l].i
                 PROVE  partStatus[<<h[l].set, n>>] = Completed
    OBVIOUS
  <2>2. CASE n = h[l].i
    BY <1>5, <2>1, <2>2
  <2>3. CASE n # h[l].i
    <3>1. n \in 1 .. (h[l].i - 1)
      BY <1>1, <2>3, ZoomAssumption
    <3>2. h[l].to = JoinResults
      BY <1>5, <2>1
    <3>3. QED
      BY <1>1, <2>1, <3>1, <3>2 DEF ZoomInv, Reading
  <2>4. QED
    BY <2>2, <2>3
<1> HIDE DEF least, p
<1>8. CASE h' = [h EXCEPT ![l].pc = "error", ![l].bad = TRUE]
  <2>1. /\ Moved(l) /\ SameTask(l) /\ h'[l].pc = "error" /\ h'[l].bad /\ h'[l].i = h[l].i
        /\ h'[l].to = h[l].to
    BY <1>1, <1>8, ToErrorIs DEF ZoomInv, Shape
  <2>2. Walks(l)
    BY <1>1, <1>2, <2>1 DEF Walks, SameTask
  <2>3. Handles(l)'
    BY <1>1, <2>1 DEF Handles, SameTask, Places
  <2>4. QED
    BY <1>1, <1>2, <2>1, <2>2, <2>3, EndKeeps DEF SameTask, parentVars, ZoomInv, Shape, ZoomTypes
<1>9. CASE h[l].i < Files /\ h' = [h EXCEPT ![l].i = @ + 1, ![l].to = least]
  <2>1. h[l].i + 1 \in 1 .. Files /\ h[l].i + 1 \in Nat
    BY <1>1, <1>9, ZoomAssumption
  <2>2. /\ Moved(l) /\ SameTask(l) /\ h'[l].pc = "part" /\ h'[l].i = h[l].i + 1
        /\ h'[l].to = least
    BY <1>1, <1>5, <1>9, <2>1 DEF ZoomInv, Shape, ZoomTypes, Moved, SameTask, Handler
  <2>3. Walks(l)
    BY <1>1, <1>2, <2>2 DEF Walks, SameTask
  <2>4. Handles(l)'
    BY <1>1, <2>1, <2>2 DEF Handles, SameTask, Places
  <2>5. Reading'
    <3>1. CASE l = "OneStatus"
      BY <1>5, <1>6, <2>2, <3>1, StatusReads DEF ZoomInv
    <3>2. CASE l = "OneCompleted"
      <4>1. least = JoinResults =>
               \A n \in 1 .. (h'[l].i - 1) : partStatus'[<<h'[l].set, n>>] = Completed
        BY <1>1, <1>2, <1>7, <2>2, <3>2 DEF SameTask, partVars
      <4>2. h'["OneStatus"] = h["OneStatus"]
        BY <2>2, <3>2 DEF Moved, Listener, Work
      <4>3. QED
        BY <1>5, <2>2, <3>2, <4>1, <4>2 DEF ZoomInv, Reading, Busy
    <3>3. QED
      BY <1>1, <3>1, <3>2
  <2>6. Saving'
    BY <1>1, <1>2, <2>2, SavingReads DEF parentVars, ZoomInv
  <2>7. QED
    BY <1>1, <1>2, <2>3, <2>4, <2>5, <2>6, PlaceKeeps DEF parentVars, ZoomInv, Shape, ZoomTypes
<1>10. CASE /\ h[l].i = Files
            /\ h' = [h EXCEPT ![l].to = least,
                              ![l].pc = IF MustSave(l, least) THEN "status" ELSE "settle"]
  <2>1. /\ Moved(l) /\ SameTask(l) /\ h'[l].pc = (IF MustSave(l, least) THEN "status" ELSE "settle")
        /\ h'[l].i = h[l].i /\ h'[l].to = least
    BY <1>1, <1>5, <1>10 DEF ZoomInv, Shape, ZoomTypes, Moved, SameTask, Handler, PC
  <2>2. h'[l].pc \in {"status", "settle"} /\ (h'[l].pc = "status" => MustSave(l, least))
    BY <2>1
  <2>3. Walks(l)
    BY <1>1, <1>2, <2>1 DEF Walks, SameTask
  <2>4. Handles(l)'
    BY <1>1, <2>1, <2>2 DEF Handles, SameTask, Places
  <2>5. Reading'
    <3>1. CASE l = "OneStatus"
      BY <1>5, <1>6, <2>1, <3>1, StatusReads DEF ZoomInv
    <3>2. CASE l = "OneCompleted"
      <4>1. h'[l].pc = "status" => AllDone
        <5>1. SUFFICES ASSUME MustSave(l, least) PROVE SetDone(h[l].set)
          BY <1>1, <2>2 DEF AllDone
        <5>2. least = JoinResults
          BY <3>2, <5>1 DEF MustSave
        <5>3. QED
          BY <1>1, <1>7, <1>10, <3>2, <5>2, PartsIs DEF SetDone
      <4>2. h'["OneStatus"] = h["OneStatus"]
        BY <2>1, <3>2 DEF Moved, Listener, Work
      <4>3. h'[l].pc \notin {"part", "join", "publish"}
        BY <2>2
      <4>4. h'[l].pc = "status" => AllDone'
        BY <4>1, <1>6, SameDone
      <4>5. QED
        BY <1>5, <2>1, <3>2, <4>4, <4>2, <4>3 DEF ZoomInv, Reading, Busy
    <3>3. QED
      BY <1>1, <3>1, <3>2
  <2>6. Saving'
    <3>1. l = "OneStatus" /\ h'[l].pc = "status" => h'[l].to # Completed
      BY <2>1, <2>2 DEF MustSave
    <3>2. QED
      BY <1>1, <1>2, <2>1, <3>1, SavingReads DEF parentVars, ZoomInv
  <2>7. QED
    BY <1>1, <1>2, <2>3, <2>4, <2>5, <2>6, PlaceKeeps DEF parentVars, ZoomInv, Shape, ZoomTypes
<1>11. QED
  BY <1>3, <1>8, <1>9, <1>10

\* A service that ends has its messages in the queues again, and counts a fault
\* unless the connection was lost before.
LEMMA RestartKeeps ==
    ASSUME ZoomInv, up' \in BOOLEAN, h' = [l \in Listener |-> Idle],
           UNCHANGED <<work, parentVars, partVars, attempts, told>>,
           \/ UNCHANGED <<ready, faults>>
           \/ /\ faults' = faults + 1 /\ faults' \in 0 .. MaxFaults
              /\ Requeue \/ UNCHANGED ready
    PROVE  ZoomInv'
<1>1. \A l \in Listener : ~Busy(l)'
  BY DEF Busy
<1>2. h' \in [Listener -> Handler \cup {Idle}]
  OBVIOUS
<1>3. ready' \in [Msg -> Nat] /\ faults' \in 0 .. MaxFaults
  BY RequeueIs DEF ZoomInv, Shape, ZoomTypes
<1>4. Shape'
  BY <1>1, <1>2, <1>3 DEF ZoomInv, Shape, ZoomTypes, parentVars, partVars
<1>5. Budget'
  <2>1. ~Again' /\ ~Busy("DecodeMultiple")'
    BY <1>1 DEF Again, Listener
  <2>2. /\ attempts' = attempts /\ attempts \in Nat /\ faults \in Nat
        /\ ready[Decoding(FALSE)] \in Nat /\ ready[Decoding(TRUE)] \in Nat
    <3>1. attempts' = attempts /\ attempts \in Nat
      BY DEF ZoomInv, Shape, ZoomTypes
    <3>2. faults \in Nat
      BY ZoomAssumption DEF ZoomInv, Shape, ZoomTypes
    <3>3. ready[Decoding(FALSE)] \in Nat /\ ready[Decoding(TRUE)] \in Nat
      BY DecodingReady DEF ZoomInv, Shape
    <3>4. QED
      BY <3>1, <3>2, <3>3
  <2>3. Sets <= 1 + faults
    BY DEF ZoomInv, Budget
  <2>4. CASE UNCHANGED ready
    <3>1. Sets' = Sets /\ Sets \in Nat
      BY <2>2, <2>4 DEF Sets, Decoding
    <3>2. Sets' <= 1 + faults'
      BY <2>2, <2>3, <3>1
    <3>3. QED
      BY <2>1, <2>4, <3>2 DEF ZoomInv, Budget
  <2>5. CASE Requeue /\ faults' = faults + 1
    <3>1. /\ ready'[Decoding(FALSE)] = ready[Decoding(FALSE)]
          /\ \/ ready'[Decoding(TRUE)] = ready[Decoding(TRUE)]
             \/ ready'[Decoding(TRUE)] = ready[Decoding(TRUE)] + 1
      BY <2>5, RequeueDecoding DEF ZoomInv, Shape
    <3>2. Sets' <= Sets + 1 /\ Sets \in Nat /\ Sets' \in Nat
      BY <2>2, <3>1 DEF Sets, Decoding
    <3>3. Sets' <= 1 + faults'
      BY <2>2, <2>3, <2>5, <3>2
    <3>4. \A m \in Msg : m.q = "DecodeMultiple" /\ m.err => ready'[m] = 0
      BY <2>5, RequeueDecoding DEF ZoomInv, Shape
    <3>5. QED
      BY <2>1, <3>3, <3>4 DEF Budget
  <2>6. QED
    BY <2>4, <2>5
<1>6. SameEnds
  BY DEF SameEnds, partVars
<1>7. Starting' /\ EndedRan'
  <2>1. Starting'
    BY <1>1, StartingStays DEF ZoomInv, parentVars, partVars, Listener
  <2>2. QED
    BY <2>1 DEF ZoomInv, EndedRan, partVars
<1>8. Reading' /\ Saving'
  BY <1>1 DEF Reading, ZoomInv, Saving, ResultBeforeFinished, parentVars, Listener, Work
<1>9. Joining'
  <2>1. status' = JoinResults \/ work'["JoinResults"] > 0 \/ result' => AllDone'
    <3>1. status = JoinResults \/ work["JoinResults"] > 0 \/ result => AllDone
      BY DEF ZoomInv, Joining, JoinAfterParts, AllDone, SetDone
    <3>2. QED
      BY <1>6, <3>1, SameDone DEF parentVars
  <2>2. ~Busy("JoinResults")'
    BY <1>1 DEF Listener, Work
  <2>3. QED
    BY <1>6, <2>1, <2>2, SameDone, JoiningFrom DEF ZoomInv, Shape
<1>10. QED
  BY <1>4, <1>5, <1>7, <1>8, <1>9 DEF ZoomInv

\* The service starts again.
LEMMA ServiceRestarts == ASSUME ZoomInv, Restart PROVE ZoomInv'
  BY RestartKeeps, FaultIs DEF Restart, ZoomInv, Shape

\* The read of a part fails: completed returns, or gotStatus takes the service down.
LEMMA PartReadFailsKeeps == ASSUME ZoomInv, NEW l \in Listener, PartReadFails(l) PROVE ZoomInv'
<1>1. /\ l \in {"OneStatus", "OneCompleted"} /\ h[l] \in Handler /\ Busy(l) /\ Handles(l)
      /\ h[l].pc = "part"
  BY PartPlaces DEF PartReadFails
<1>2. UNCHANGED <<work, parentVars, partVars, attempts, told>>
  BY DEF PartReadFails
<1>3. faults' = faults + 1 /\ faults' \in 0 .. MaxFaults
  BY FaultIs DEF PartReadFails, ZoomInv, Shape
<1>4. CASE Return(l, FALSE) /\ UNCHANGED <<ready, up>>
  <2>1. /\ Moved(l) /\ SameTask(l) /\ h'[l].pc = "settle" /\ h'[l].i = h[l].i
        /\ h'[l].to = h[l].to
    BY <1>1, <1>4, ReturnIs DEF ZoomInv, Shape
  <2>2. Walks(l)
    BY <1>2, <1>3, <1>4, <2>1 DEF Walks, SameTask
  <2>3. Handles(l)'
    BY <1>1, <2>1 DEF Handles, SameTask, Places
  <2>4. QED
    BY <1>1, <1>2, <2>1, <2>2, <2>3, EndKeeps DEF SameTask, parentVars, ZoomInv, Shape, ZoomTypes
<1>5. CASE /\ h' = [k \in Listener |-> Idle] /\ up' = TRUE
           /\ IF up THEN Requeue ELSE UNCHANGED ready
  BY <1>2, <1>3, <1>5, RestartKeeps
<1>6. QED
  BY <1>4, <1>5 DEF PartReadFails

\* mergedAudio has marked the audio.
LEMMA SaveAudioReadyKeeps == ASSUME ZoomInv, NEW l \in Listener, SaveAudioReady(l) PROVE ZoomInv'
<1>1. h[l] \in Handler /\ Busy(l) /\ Handles(l) /\ h[l].pc = "audioReady"
  BY BusyIs DEF ZoomInv, Shape, PC, SaveAudioReady
<1>2. l = "JoinAudio"
  BY <1>1 DEF Handles, Places, Listener, Work
<1>3. /\ UNCHANGED <<ready, work, up, status, error, result, available, related, partVars,
                     attempts, told>>
      /\ audioReady' \in BOOLEAN
  BY DEF SaveAudioReady, ZoomInv, Shape, ZoomTypes
<1>4. /\ Moved(l) /\ SameTask(l) /\ h'[l].i = h[l].i /\ h'[l].pc \in {"publish", "failed"}
      /\ UNCHANGED faults \/ (faults' = faults + 1 /\ faults' \in 0 .. MaxFaults)
  BY <1>1, GotoIs, NotSavedIs, FaultIs DEF SaveAudioReady, Succeeds, PC, ZoomInv, Shape
<1>5. Walks(l)
  BY <1>2, <1>3, <1>4 DEF Walks, SameTask
<1>6. Handles(l)'
  BY <1>1, <1>2, <1>4 DEF Handles, SameTask, Places
<1>7. ZoomTypes'
  BY <1>3, <1>5, WalkTypes DEF ZoomInv, Shape, ZoomTypes, Walks, Moved, partVars
<1>8. status' = JoinResults \/ work'["JoinResults"] > 0 \/ result' => AllDone
  BY <1>3 DEF ZoomInv, Joining, JoinAfterParts, AllDone, SetDone
<1>9. QED
  BY <1>1, <1>2, <1>3, <1>5, <1>6, <1>7, <1>8, WalkKeeps DEF SameEnds, partVars

\* The places of joinResults alone.
LEMMA JoinPlaces ==
    ASSUME ZoomInv, NEW l \in Listener, h[l].pc \in {"result", "available", "finished"}
    PROVE  /\ l = "JoinResults" /\ h[l] \in Handler /\ Busy(l) /\ Handles(l) /\ AllDone
           /\ h[l].to = Completed
<1>1. h[l] \in Handler /\ Busy(l) /\ Handles(l)
  BY BusyIs DEF ZoomInv, Shape, PC
<1>2. h[l].pc \in Places(l)
  BY <1>1 DEF Handles
<1>3. l = "JoinResults"
  BY <1>2 DEF Places, Listener, Work
<1>4. QED
  BY <1>1, <1>3 DEF ZoomInv, Joining, Saving

\* A step of joinResults that saves something and goes on.
LEMMA JoinKeeps ==
    ASSUME ZoomInv, Busy("JoinResults"), Walks("JoinResults"), Handles("JoinResults")',
           UNCHANGED <<work, error, audioReady, related, partVars>>,
           status' \in {status, Completed}, error' \in BOOLEAN, result' \in BOOLEAN, available' \in BOOLEAN,
           AllDone, Saving'
    PROVE  ZoomInv'
<1>1. ZoomTypes'
  <2>1. ready' \in [Msg -> Nat] /\ up' \in BOOLEAN /\ attempts' \in Nat /\ faults' \in 0 .. MaxFaults
    BY WalkTypes DEF ZoomInv, Shape, Listener, Work
  <2>2. status' \in Status
    BY DEF ZoomInv, Shape, ZoomTypes, Status, Completed
  <2>3. QED
    BY <2>1, <2>2 DEF ZoomInv, Shape, ZoomTypes, Walks, Moved, partVars
<1>2. SameEnds /\ running \subseteq running' /\ UNCHANGED <<running, related>>
  BY DEF SameEnds, partVars
<1>3. "JoinResults" \in Listener /\ "JoinResults" \notin {"DecodeMultiple", "OneStatus", "OneCompleted"}
  BY DEF Listener, Work
<1>4. QED
  BY <1>1, <1>2, <1>3, WalkKeeps

\* joinResults has saved the joined result.
LEMMA SaveResultKeeps == ASSUME ZoomInv, NEW l \in Listener, SaveResult(l) PROVE ZoomInv'
<1>1. /\ l = "JoinResults" /\ h[l] \in Handler /\ Busy(l) /\ Handles(l) /\ AllDone
      /\ h[l].to = Completed /\ h[l].pc = "result"
  BY JoinPlaces DEF SaveResult
<1>2. CASE FailsAndReturns(l)
  BY <1>1, <1>2, FailsKeeps DEF SaveResult
<1>3. CASE ~FailsAndReturns(l)
  <2>1. /\ UNCHANGED <<ready, work, up, status, error, audioReady, available, related,
                       partVars, attempts, told, faults>>
        /\ result' = TRUE /\ Goto(l, "available")
    BY <1>3 DEF SaveResult, Succeeds
  <2>2. Moved(l) /\ SameTask(l) /\ h'[l].pc = "available" /\ h'[l].i = h[l].i
        /\ h'[l].to = h[l].to /\ h'[l].ok = h[l].ok
    BY <1>1, <2>1, GotoIs DEF PC, ZoomInv, Shape
  <2>3. Walks(l)
    BY <1>1, <2>1, <2>2 DEF Walks, SameTask
  <2>4. Handles(l)'
    BY <1>1, <2>2 DEF Handles, SameTask, Places
  <2>5. Saving'
    <3>1. h'["OneStatus"] = h["OneStatus"]
      BY <1>1, <2>2 DEF Moved, Listener, Work
    <3>2. ResultBeforeFinished'
      BY <2>1 DEF ZoomInv, Saving, ResultBeforeFinished
    <3>3. QED
      BY <1>1, <2>1, <2>2, <3>1, <3>2 DEF ZoomInv, Saving, Busy
  <2>6. QED
    BY <1>1, <2>1, <2>3, <2>4, <2>5, JoinKeeps DEF ZoomInv, Shape, ZoomTypes
<1>4. QED
  BY <1>2, <1>3

\* joinResults has saved the list of its files, after the result.
LEMMA SaveAvailableKeeps == ASSUME ZoomInv, NEW l \in Listener, SaveAvailable(l) PROVE ZoomInv'
<1>1. /\ l = "JoinResults" /\ h[l] \in Handler /\ Busy(l) /\ Handles(l) /\ AllDone
      /\ h[l].to = Completed /\ h[l].pc = "available"
  BY JoinPlaces DEF SaveAvailable
<1>2. CASE FailsAndReturns(l)
  BY <1>1, <1>2, FailsKeeps DEF SaveAvailable
<1>3. CASE ~FailsAndReturns(l)
  <2>1. /\ UNCHANGED <<ready, work, up, status, error, audioReady, result, related,
                       partVars, attempts, told, faults>>
        /\ available' = TRUE /\ Goto(l, "status")
    BY <1>3 DEF SaveAvailable, Succeeds
  <2>2. Moved(l) /\ SameTask(l) /\ h'[l].pc = "status" /\ h'[l].i = h[l].i
        /\ h'[l].to = h[l].to /\ h'[l].ok = h[l].ok
    BY <1>1, <2>1, GotoIs DEF PC, ZoomInv, Shape
  <2>3. Walks(l)
    BY <1>1, <2>1, <2>2 DEF Walks, SameTask
  <2>4. Handles(l)'
    BY <1>1, <2>2 DEF Handles, SameTask, Places
  <2>5. Saving'
    <3>1. h'["OneStatus"] = h["OneStatus"]
      BY <1>1, <2>2 DEF Moved, Listener, Work
    <3>2. result
      BY <1>1 DEF ZoomInv, Saving
    <3>3. ResultBeforeFinished'
      BY <2>1, <3>2 DEF ResultBeforeFinished
    <3>4. QED
      BY <1>1, <2>1, <2>2, <3>1, <3>2, <3>3 DEF ZoomInv, Saving, Busy
  <2>6. QED
    BY <1>1, <2>1, <2>3, <2>4, <2>5, JoinKeeps DEF ZoomInv, Shape, ZoomTypes
<1>4. QED
  BY <1>2, <1>3

\* A status is saved: completed by joinResults only, joining when all is done.
LEMMA SaveStatusKeeps == ASSUME ZoomInv, NEW l \in Listener, SaveStatus(l) PROVE ZoomInv'
<1>1. h[l] \in Handler /\ Busy(l) /\ Handles(l) /\ h[l].pc = "status"
  BY BusyIs DEF ZoomInv, Shape, PC, SaveStatus
<1>2. l \in {"OneStatus", "OneCompleted", "JoinResults"}
  BY <1>1 DEF Handles, Places, Listener, Work
<1>3. UNCHANGED <<ready, work, up, audioReady, result, available, related, partVars, attempts, told>>
  BY DEF SaveStatus
<1>4. h[l].to \in Status
  BY <1>1 DEF Handler
<1>5. CASE Succeeds /\ status' = h[l].to /\ error' = FALSE /\ Goto(l, "publish")
  <2>1. Moved(l) /\ SameTask(l) /\ h'[l].pc = "publish" /\ h'[l].i = h[l].i
        /\ h'[l].to = h[l].to /\ h'[l].ok = h[l].ok /\ h'[l].bad = h[l].bad
    BY <1>1, <1>5, GotoIs DEF PC, ZoomInv, Shape
  <2>2. Walks(l)
    BY <1>2, <1>3, <1>5, <2>1 DEF Walks, SameTask, Succeeds
  <2>3. Handles(l)'
    BY <1>1, <1>2, <2>1 DEF Handles, SameTask, Places
  <2>4. ZoomTypes'
    <3>1. ready' \in [Msg -> Nat] /\ up' \in BOOLEAN /\ attempts' \in Nat /\ faults' \in 0 .. MaxFaults
      BY <2>2, WalkTypes DEF ZoomInv, Shape
    <3>2. status' \in Status /\ error' \in BOOLEAN
      BY <1>4, <1>5
    <3>3. QED
      BY <1>3, <2>1, <3>1, <3>2 DEF ZoomInv, Shape, ZoomTypes, Moved, partVars
  <2>5. SameEnds /\ running \subseteq running' /\ UNCHANGED <<running, related>>
    BY <1>3 DEF SameEnds, partVars
  <2>6. status' = JoinResults \/ work'["JoinResults"] > 0 \/ result' => AllDone
    <3>1. status = JoinResults \/ work["JoinResults"] > 0 \/ result => AllDone
      BY DEF ZoomInv, Joining, JoinAfterParts, AllDone, SetDone
    <3>2. status' = JoinResults => AllDone
      <4>1. CASE l = "OneStatus"
        BY <1>1, <1>5, <4>1 DEF ZoomInv, Reading
      <4>2. CASE l = "OneCompleted"
        BY <1>1, <4>2 DEF ZoomInv, Reading
      <4>3. CASE l = "JoinResults"
        BY <1>1, <4>3 DEF ZoomInv, Joining
      <4>4. QED
        BY <1>2, <4>1, <4>2, <4>3
    <3>3. QED
      BY <1>3, <3>1, <3>2
  <2>7. l \in {"OneStatus", "OneCompleted"} => Reading'
    <3>1. CASE l = "OneStatus"
      BY <1>1, <2>1, <2>5, <3>1, StatusReads DEF ZoomInv, Reading
    <3>2. CASE l = "OneCompleted"
      <4>1. h'["OneStatus"] = h["OneStatus"] /\ AllDone /\ AllDone'
        BY <1>1, <2>1, <2>5, <3>2, SameDone DEF ZoomInv, Reading, Moved, Listener, Work
      <4>2. QED
        BY <1>1, <2>1, <3>2, <4>1 DEF ZoomInv, Reading, Busy
    <3>3. QED
      BY <3>1, <3>2
  <2>8. status' = Completed => l = "JoinResults" /\ result /\ available
    <3>1. CASE l = "OneStatus"
      BY <1>1, <1>5, <3>1 DEF ZoomInv, Saving
    <3>2. CASE l = "OneCompleted"
      BY <1>1, <1>5, <3>2 DEF ZoomInv, Reading, JoinResults, Completed
    <3>3. CASE l = "JoinResults"
      BY <1>1, <3>3 DEF ZoomInv, Saving
    <3>4. QED
      BY <1>2, <3>1, <3>2, <3>3
  <2>9. l \in {"OneStatus", "JoinResults"} => Saving'
    <3>1. ResultBeforeFinished'
      BY <1>3, <2>8 DEF ZoomInv, Saving, ResultBeforeFinished
    <3>2. CASE l = "OneStatus"
      <4>1. h'["JoinResults"] = h["JoinResults"] /\ h'[l].pc # "status"
        BY <2>1, <3>2 DEF Moved, Listener, Work
      <4>2. QED
        BY <1>3, <3>1, <3>2, <4>1 DEF ZoomInv, Saving, Busy
    <3>3. CASE l = "JoinResults"
      <4>1. h'["OneStatus"] = h["OneStatus"] /\ result /\ available
        BY <1>1, <2>1, <3>3 DEF Moved, Listener, Work, ZoomInv, Saving
      <4>2. QED
        BY <1>1, <1>3, <2>1, <3>1, <3>3, <4>1 DEF ZoomInv, Saving, Busy
    <3>4. QED
      BY <3>2, <3>3
  <2>10. l # "DecodeMultiple"
    BY <1>2
  <2>11. QED
    BY <1>1, <1>3, <2>2, <2>3, <2>4, <2>5, <2>6, <2>7, <2>8, <2>9, <2>10, WalkKeeps
<1>6. CASE Fault("io") /\ UNCHANGED <<status, error>> /\ h' = [h EXCEPT ![l].pc = "failed", ![l].ok = FALSE]
  <2>1. /\ Moved(l) /\ SameTask(l) /\ h'[l].pc = "failed" /\ h'[l].i = h[l].i /\ h'[l].to = h[l].to
        /\ faults' = faults + 1 /\ faults' \in 0 .. MaxFaults
    BY <1>1, <1>6, NotSavedIs, FaultIs DEF ZoomInv, Shape
  <2>2. Walks(l)
    BY <1>3, <2>1 DEF Walks, SameTask
  <2>3. Handles(l)'
    BY <1>1, <1>2, <2>1 DEF Handles, SameTask, Places
  <2>4. QED
    BY <1>1, <1>3, <1>6, <2>1, <2>2, <2>3, EndKeeps DEF SameTask, ZoomInv, Shape, ZoomTypes
<1>7. QED
  BY <1>5, <1>6 DEF SaveStatus

\* An error is saved.
LEMMA SaveErrorKeeps == ASSUME ZoomInv, NEW l \in Listener, SaveError(l) PROVE ZoomInv'
<1>1. h[l] \in Handler /\ Busy(l) /\ Handles(l) /\ h[l].pc = "error" /\ h[l].bad
  BY BusyIs DEF ZoomInv, Shape, PC, SaveError, Handles
<1>2. CASE FailsAndReturns(l)
  BY <1>1, <1>2, FailsKeeps DEF SaveError
<1>3. CASE ~FailsAndReturns(l)
  <2>1. /\ UNCHANGED <<ready, work, up, status, audioReady, result, available, related,
                       partVars, attempts, told, faults>>
        /\ error' = TRUE /\ Goto(l, "publish")
    BY <1>3 DEF SaveError, Succeeds
  <2>2. Moved(l) /\ SameTask(l) /\ h'[l].pc = "publish" /\ h'[l].i = h[l].i
        /\ h'[l].to = h[l].to /\ h'[l].ok = h[l].ok /\ h'[l].bad
    BY <1>1, <2>1, GotoIs DEF PC, ZoomInv, Shape
  <2>3. Walks(l)
    BY <2>1, <2>2 DEF Walks, SameTask
  <2>4. Handles(l)'
    BY <1>1, <2>2 DEF Handles, SameTask, Places, Listener, Work
  <2>5. QED
    BY <1>1, <2>1, <2>2, <2>3, <2>4, EndKeeps DEF SameTask
<1>4. QED
  BY <1>2, <1>3

\* The change of the status is published.
LEMMA PublishKeeps ==
    ASSUME ZoomInv, NEW l \in Listener, NEW out \in SendOutcome, Publish(l, out)
    PROVE  ZoomInv'
<1>1. h[l] \in Handler /\ Busy(l) /\ Handles(l) /\ h[l].pc = "publish"
  BY BusyIs DEF ZoomInv, Shape, PC, Publish
<1>2. UNCHANGED <<work, parentVars, partVars, attempts, told>> /\ SendOver(out) /\ Goto(l, AfterPublish(l))
  BY DEF Publish
<1>3. /\ AfterPublish(l) \in {"failed", "join", "finished", "settle"}
      /\ AfterPublish(l) = "join" => ~h[l].bad /\ l = "OneCompleted"
      /\ AfterPublish(l) = "finished" => ~h[l].bad /\ l = "JoinResults"
  <2>1. h[l].bad \in BOOLEAN
    BY <1>1 DEF Handler
  <2>2. CASE h[l].bad
    BY <2>2 DEF AfterPublish
  <2>3. CASE ~h[l].bad /\ l = "OneCompleted"
    BY <2>3 DEF AfterPublish
  <2>4. CASE ~h[l].bad /\ l = "JoinResults"
    BY <2>4 DEF AfterPublish
  <2>5. CASE ~h[l].bad /\ l \notin {"OneCompleted", "JoinResults"}
    BY <2>5 DEF AfterPublish
  <2>6. QED
    BY <2>2, <2>3, <2>4, <2>5
<1>4. Moved(l) /\ SameTask(l) /\ h'[l].pc = AfterPublish(l) /\ h'[l].i = h[l].i
      /\ h'[l].to = h[l].to /\ h'[l].ok = h[l].ok /\ h'[l].bad = h[l].bad
  BY <1>1, <1>2, <1>3, GotoIs DEF PC, ZoomInv, Shape
<1>5. Walks(l)
  BY <1>2, <1>4, SendWalks DEF ZoomInv, Shape
<1>6. Handles(l)'
  BY <1>1, <1>3, <1>4 DEF Handles, SameTask, Places, Listener, Work
<1>7. CASE AfterPublish(l) \in {"failed", "settle"}
  BY <1>1, <1>2, <1>4, <1>5, <1>6, <1>7, EndKeeps DEF SameTask, parentVars, ZoomInv, Shape, ZoomTypes
<1>8. CASE AfterPublish(l) = "join"
  <2>1. l = "OneCompleted" /\ ~h[l].bad
    BY <1>3, <1>8
  <2>2. SameEnds
    BY <1>2 DEF SameEnds, partVars
  <2>3. AllDone' /\ h'[l].to \in {0, JoinResults} /\ h'["OneStatus"] = h["OneStatus"]
    BY <1>1, <1>4, <2>1, <2>2, SameDone DEF ZoomInv, Reading, Moved, Listener, Work
  <2>4. Reading'
    BY <1>4, <1>8, <2>1, <2>3 DEF ZoomInv, Reading, Busy
  <2>5. QED
    BY <1>1, <1>2, <1>5, <1>6, <2>1, <2>4, PlaceKeeps DEF parentVars, ZoomInv, Shape, ZoomTypes
<1>9. CASE AfterPublish(l) = "finished"
  <2>1. l = "JoinResults" /\ ~h[l].bad
    BY <1>3, <1>9
  <2>2. result /\ available /\ AllDone /\ h'["OneStatus"] = h["OneStatus"] /\ h[l].to = Completed
    BY <1>1, <1>4, <2>1 DEF ZoomInv, Saving, Joining, Moved, Listener, Work
  <2>3. Saving'
    <3>1. ResultBeforeFinished'
      BY <1>2, <2>2 DEF ResultBeforeFinished, parentVars
    <3>2. QED
      BY <1>2, <1>4, <1>9, <2>1, <2>2, <3>1 DEF ZoomInv, Saving, Busy, parentVars
  <2>4. QED
    BY <1>1, <1>2, <1>5, <1>6, <2>1, <2>3, PlaceKeeps DEF parentVars, ZoomInv, Shape, ZoomTypes
<1>10. QED
  BY <1>3, <1>7, <1>8, <1>9

\* The owner is told of a failure.
LEMMA InformFailedKeeps ==
    ASSUME ZoomInv, NEW l \in Listener, NEW out \in SendOutcome, InformFailed(l, out)
    PROVE  ZoomInv'
<1>1. h[l] \in Handler /\ Busy(l) /\ Handles(l) /\ h[l].pc = "failed"
  BY BusyIs DEF ZoomInv, Shape, PC, InformFailed
<1>2. /\ UNCHANGED <<work, parentVars, partVars, attempts>> /\ SendOver(out) /\ Goto(l, "settle")
      /\ told' \subseteq told \cup {"Failed"}
  BY DEF InformFailed
<1>3. Moved(l) /\ SameTask(l) /\ h'[l].pc = "settle" /\ h'[l].i = h[l].i
      /\ h'[l].to = h[l].to /\ h'[l].ok = h[l].ok
  BY <1>1, <1>2, GotoIs DEF PC, ZoomInv, Shape
<1>4. Walks(l)
  BY <1>2, <1>3, SendWalks DEF ZoomInv, Shape
<1>5. Handles(l)'
  BY <1>1, <1>3 DEF Handles, SameTask, Places, Listener, Work
<1>6. QED
  BY <1>1, <1>2, <1>3, <1>4, <1>5, EndKeeps DEF SameTask, parentVars, ZoomInv, Shape, ZoomTypes

\* completed has asked for the results to be joined, when all is done.
LEMMA SendJoinResultsKeeps ==
    ASSUME ZoomInv, NEW l \in Listener, NEW out \in SendOutcome, SendJoinResults(l, out)
    PROVE  ZoomInv'
<1>1. h[l] \in Handler /\ Busy(l) /\ Handles(l) /\ h[l].pc = "join"
  BY BusyIs DEF ZoomInv, Shape, PC, SendJoinResults
<1>2. l = "OneCompleted"
  BY <1>1 DEF Handles, Places, Listener, Work
<1>3. UNCHANGED <<parentVars, partVars, attempts, told>> /\ SendOver(out)
  BY DEF SendJoinResults
<1>4. /\ Moved(l) /\ SameTask(l) /\ h'[l].i = h[l].i /\ h'[l].pc = "settle" /\ h'[l].to = h[l].to
      /\ out # "failed" => h'[l].ok
  BY <1>1, ReturnIs DEF SendJoinResults, ZoomInv, Shape
<1>5. work' \in [Work -> Nat]
  <2>1. work \in [Work -> Nat] /\ "JoinResults" \in Work
    BY DEF ZoomInv, Shape, ZoomTypes, Work
  <2>2. UNCHANGED work \/ work' = [work EXCEPT !["JoinResults"] = @ + 1]
    BY DEF SendJoinResults
  <2>3. work["JoinResults"] + 1 \in Nat
    BY <2>1
  <2>4. QED
    BY <2>1, <2>2, <2>3
<1>6. Walks(l)
  BY <1>3, <1>4, SendWalks DEF ZoomInv, Shape
<1>7. Handles(l)'
  BY <1>1, <1>2, <1>4 DEF Handles, SameTask, Places
<1>8. AllDone
  BY <1>1, <1>2 DEF ZoomInv, Reading
<1>9. SameEnds
  BY <1>3 DEF SameEnds, partVars
<1>10. Reading'
  BY <1>1, <1>2, <1>4, <1>6, <1>9, ReadingEnds DEF ZoomInv, SameTask, Walks
<1>11. ZoomTypes'
  <2>1. ready' \in [Msg -> Nat] /\ up' \in BOOLEAN /\ attempts' \in Nat /\ faults' \in 0 .. MaxFaults
    BY <1>6, WalkTypes DEF ZoomInv, Shape
  <2>2. QED
    BY <1>3, <1>4, <1>5, <2>1 DEF ZoomInv, Shape, ZoomTypes, Moved, parentVars, partVars
<1>12. QED
  BY <1>1, <1>2, <1>3, <1>6, <1>7, <1>8, <1>9, <1>10, <1>11, WalkKeeps DEF parentVars, partVars

\* The owner is told of the end, with the result and the list saved.
LEMMA InformFinishedKeeps ==
    ASSUME ZoomInv, NEW l \in Listener, NEW out \in SendOutcome, InformFinished(l, out)
    PROVE  ZoomInv'
<1>1. /\ l = "JoinResults" /\ h[l] \in Handler /\ Busy(l) /\ Handles(l) /\ AllDone
      /\ h[l].to = Completed /\ h[l].pc = "finished"
  BY JoinPlaces DEF InformFinished
<1>2. UNCHANGED <<work, parentVars, partVars, attempts>> /\ SendOver(out)
  BY DEF InformFinished
<1>3. /\ Moved(l) /\ SameTask(l) /\ h'[l].i = h[l].i /\ h'[l].pc = "settle" /\ h'[l].to = h[l].to
      /\ out # "failed" => h'[l].ok
  BY <1>1, ReturnIs DEF InformFinished, ZoomInv, Shape
<1>4. Walks(l)
  BY <1>2, <1>3, SendWalks DEF ZoomInv, Shape
<1>5. Handles(l)'
  BY <1>1, <1>3 DEF Handles, SameTask, Places
<1>6. result /\ available /\ h'["OneStatus"] = h["OneStatus"]
  BY <1>1, <1>3 DEF ZoomInv, Saving, Moved, Listener, Work
<1>7. Saving'
  <2>1. ResultBeforeFinished'
    BY <1>2, <1>6 DEF ResultBeforeFinished, parentVars
  <2>2. QED
    BY <1>1, <1>2, <1>3, <1>6, <2>1 DEF ZoomInv, Saving, Busy, parentVars
<1>8. QED
  BY <1>1, <1>2, <1>4, <1>5, <1>7, JoinKeeps DEF parentVars, ZoomInv, Shape, ZoomTypes

\* The parts of the invariant that a step without an effect on the records keeps.
LEMMA DataKeeps ==
    ASSUME ZoomInv, UNCHANGED <<work, parentVars, partVars, told>>,
           Shape', Budget', Starting', Reading',
           \A m \in Msg : m.q = "JoinResults" /\ ready'[m] > 0 => AllDone,
           Busy("JoinResults")' => AllDone,
           Busy("OneStatus")' /\ h'["OneStatus"].pc = "status" => h'["OneStatus"].to # Completed,
           Busy("JoinResults")' =>
              \/ Busy("JoinResults") /\ h'["JoinResults"] = h["JoinResults"]
              \/ /\ h'["JoinResults"].to = Completed
                 /\ h'["JoinResults"].pc \in {"result", "error"}
    PROVE  ZoomInv'
<1>1. SameEnds
  BY DEF SameEnds, partVars
<1>2. AllDone <=> AllDone'
  BY <1>1, SameDone
<1>3. EndedRan'
  BY DEF ZoomInv, EndedRan, partVars
<1>4. Joining'
  <2>1. status = JoinResults \/ work["JoinResults"] > 0 \/ result => AllDone
    BY DEF ZoomInv, Joining, JoinAfterParts, AllDone, SetDone
  <2>2. JoinAfterParts'
    BY <1>2, <2>1 DEF JoinAfterParts, AllDone, SetDone, parentVars
  <2>3. QED
    BY <1>2, <2>2 DEF Joining
<1>5. Saving'
  <2>1. ResultBeforeFinished'
    BY DEF ZoomInv, Saving, ResultBeforeFinished, parentVars
  <2>2. QED
    BY <2>1 DEF ZoomInv, Saving, parentVars
<1>6. QED
  BY <1>3, <1>4, <1>5 DEF ZoomInv

\* A handler ends: with an error its message comes again, which costs no new set.
LEMMA SettleKeeps == ASSUME ZoomInv, NEW l \in Listener, Settle(l) PROVE ZoomInv'
<1>1. h[l] \in Handler /\ Busy(l) /\ Handles(l) /\ h[l].pc = "settle"
  BY BusyIs DEF ZoomInv, Shape, PC, Settle
<1>2. /\ UNCHANGED <<work, up, parentVars, partVars, attempts, told, faults>>
      /\ h' = [h EXCEPT ![l] = Idle]
      /\ UNCHANGED ready \/ (MustRequeue(l) /\ ready' = [ready EXCEPT ![HeldBy(l)] = @ + 1])
  BY DEF Settle
<1>3. HeldBy(l) \in Msg /\ HeldBy(l).q = l /\ HeldBy(l).err = h[l].err /\ HeldBy(l).redelivered
  BY <1>1 DEF HeldBy, Msg, Handler
<1>4. /\ h' \in [Listener -> Handler \cup {Idle}] /\ ~Busy(l)'
      /\ \A k \in Listener \ {l} : h'[k] = h[k]
  BY <1>2 DEF ZoomInv, Shape, ZoomTypes, Busy
<1>5. /\ ready' \in [Msg -> Nat]
      /\ \A m \in Msg : m # HeldBy(l) => ready'[m] = ready[m]
      /\ ready'[HeldBy(l)] = ready[HeldBy(l)] \/ (MustRequeue(l) /\ ready'[HeldBy(l)] = ready[HeldBy(l)] + 1)
  <2>1. ready \in [Msg -> Nat]
    BY DEF ZoomInv, Shape, ZoomTypes
  <2>2. ready[HeldBy(l)] + 1 \in Nat
    BY <1>3, <2>1
  <2>3. QED
    BY <1>2, <1>3, <2>1, <2>2
<1>6. Shape'
  <2>1. ZoomTypes'
    BY <1>2, <1>4, <1>5 DEF ZoomInv, Shape, ZoomTypes, parentVars, partVars
  <2>2. ASSUME NEW k \in Listener, Busy(k)' PROVE Handles(k)'
    BY <1>4, <2>2 DEF ZoomInv, Shape, Handles, Busy
  <2>3. QED
    BY <2>1, <2>2 DEF Shape
<1>7. Budget'
  <2>1. /\ ready[Decoding(FALSE)] \in Nat /\ ready[Decoding(TRUE)] \in Nat
        /\ attempts \in Nat /\ attempts' = attempts
    BY <1>2, DecodingReady DEF ZoomInv, Shape, ZoomTypes
  <2>2. faults \in Nat
    BY ZoomAssumption DEF ZoomInv, Shape, ZoomTypes
  <2>3. CASE l = "DecodeMultiple"
    <3>1. ~Busy("DecodeMultiple")' /\ ~Again' /\ ~h[l].err
      BY <1>1, <1>4, <2>3 DEF Again, ZoomInv, Budget
    <3>2. HeldBy(l) = Decoding(TRUE)
      BY <2>3, <3>1, <1>1 DEF HeldBy, Decoding, Handler
    <3>3. ready'[Decoding(FALSE)] = ready[Decoding(FALSE)]
      BY <1>5, <3>2, DecodingIs
    <3>4. \A m \in Msg : m.q = "DecodeMultiple" /\ m.err => ready'[m] = 0
      BY <1>3, <1>5, <3>1 DEF ZoomInv, Budget
    <3>5. CASE ready'[HeldBy(l)] = ready[HeldBy(l)]
      <4>1. Sets' = Sets /\ Sets <= 1 + faults
        BY <2>1, <3>2, <3>3, <3>5 DEF Sets, Decoding, ZoomInv, Budget
      <4>2. QED
        BY <1>2, <3>1, <3>4, <4>1 DEF Budget
    <3>6. CASE MustRequeue(l) /\ ready'[HeldBy(l)] = ready[HeldBy(l)] + 1
      <4>1. Again
        BY <1>1, <2>3, <3>6 DEF MustRequeue, Again
      <4>2. Sets <= faults
        BY <4>1 DEF ZoomInv, Budget
      <4>3. Sets' = Sets + 1 /\ Sets \in Nat
        BY <2>1, <3>2, <3>3, <3>6 DEF Sets, Decoding
      <4>4. Sets' <= 1 + faults
        BY <2>2, <4>2, <4>3
      <4>5. QED
        BY <1>2, <3>1, <3>4, <4>4 DEF Budget
    <3>7. QED
      BY <1>5, <3>5, <3>6
  <2>4. CASE l # "DecodeMultiple"
    <3>1. \A m \in Msg : m.q = "DecodeMultiple" => ready'[m] = ready[m]
      BY <1>3, <1>5, <2>4
    <3>2. h'["DecodeMultiple"] = h["DecodeMultiple"]
      BY <1>4, <2>4 DEF Listener
    <3>3. ready'[Decoding(FALSE)] = ready[Decoding(FALSE)] /\ ready'[Decoding(TRUE)] = ready[Decoding(TRUE)]
      BY <3>1, DecodingIs
    <3>4. Sets' = Sets
      BY <2>1, <3>3 DEF Sets, Decoding
    <3>5. Again' = Again
      BY <1>2, <3>2 DEF Again, Busy
    <3>6. QED
      BY <1>2, <3>1, <3>2, <3>4, <3>5 DEF ZoomInv, Budget, Busy
  <2>5. QED
    BY <2>3, <2>4
<1>8. Starting'
  <2>1. Busy("DecodeMultiple")' => h'["DecodeMultiple"] = h["DecodeMultiple"]
    BY <1>4 DEF Listener
  <2>2. QED
    BY <1>2, <2>1, StartingStays DEF ZoomInv, parentVars, partVars
<1>9. Reading'
  <2>1. SameEnds
    BY <1>2 DEF SameEnds, partVars
  <2>2. \A k \in {"OneStatus", "OneCompleted"} : Busy(k)' => h'[k] = h[k]
    BY <1>4 DEF Listener
  <2>3. QED
    BY <2>1, <2>2, ReadingStays DEF ZoomInv
<1>10. \A m \in Msg : m.q = "JoinResults" /\ ready'[m] > 0 => AllDone
  <2>1. SUFFICES ASSUME NEW m \in Msg, m.q = "JoinResults", ready'[m] > 0 PROVE AllDone
    OBVIOUS
  <2>2. CASE m # HeldBy(l)
    BY <1>5, <2>1, <2>2 DEF ZoomInv, Joining
  <2>3. CASE m = HeldBy(l)
    BY <1>1, <1>3, <2>1, <2>3 DEF ZoomInv, Joining
  <2>4. QED
    BY <2>2, <2>3
<1>11. \A k \in Listener : Busy(k)' => Busy(k) /\ h'[k] = h[k]
  BY <1>4 DEF Busy
<1>12. "OneStatus" \in Listener /\ "JoinResults" \in Listener
  BY DEF Listener, Work
<1>13. /\ Busy("JoinResults")' => AllDone /\ Busy("JoinResults") /\ h'["JoinResults"] = h["JoinResults"]
       /\ Busy("OneStatus")' /\ h'["OneStatus"].pc = "status" => h'["OneStatus"].to # Completed
  BY <1>11, <1>12 DEF ZoomInv, Joining, Saving
<1>14. QED
  BY <1>2, <1>6, <1>7, <1>8, <1>9, <1>10, <1>13, DataKeeps

\* Where the handler of a message starts.
LEMMA EntryIs ==
    ASSUME NEW q \in Listener, NEW err \in BOOLEAN
    PROVE  /\ Entry(q, err) \in Places(q) \cap PC
           /\ q = "DecodeMultiple" => Entry(q, err) = "files"
           /\ q \in {"OneStatus", "OneCompleted"} => Entry(q, err) = "work"
           /\ q = "JoinAudio" => Entry(q, err) = "parent"
           /\ q = "JoinResults" /\ err => Entry(q, err) = "error"
           /\ q = "JoinResults" /\ ~err => Entry(q, err) = "result"
<1>1. CASE q = "DecodeMultiple"
  BY <1>1 DEF Entry, Places, PC
<1>2. CASE q \in {"OneStatus", "OneCompleted"}
  BY <1>2 DEF Entry, Places, PC
<1>3. CASE q = "JoinAudio"
  BY <1>3 DEF Entry, Places, PC
<1>4. CASE q = "JoinResults"
  BY <1>4 DEF Entry, Places, PC
<1>5. QED
  BY <1>1, <1>2, <1>3, <1>4 DEF Listener, Work

\* A message is taken; that of decode begins a set, for which there is room.
LEMMA TakeKeeps == ASSUME ZoomInv, NEW m \in Msg, Take(m) PROVE ZoomInv'
<1> DEFINE l == m.q
           dec == m.q = "DecodeMultiple"
           r == [err |-> m.err, redelivered |-> m.redelivered,
                 pc |-> Entry(m.q, m.err),
                 set |-> IF dec THEN attempts + 1 ELSE 0,
                 i |-> 1, seen |-> 0, to |-> Target(m.q),
                 bad |-> m.q = "JoinResults" /\ m.err,
                 ok |-> TRUE, again |-> TRUE]
<1>1. /\ UNCHANGED <<work, up, parentVars, partVars, told, faults>>
      /\ ready[m] > 0 /\ h[l] = Idle
      /\ ready' = [ready EXCEPT ![m] = @ - 1]
      /\ attempts' = IF dec THEN attempts + 1 ELSE attempts
      /\ h' = [h EXCEPT ![l] = r]
  BY DEF Take
<1>2. l \in Listener /\ m.err \in BOOLEAN /\ m.redelivered \in BOOLEAN
  BY DEF Msg
<1>3. /\ Entry(l, m.err) \in Places(l) \cap PC
      /\ l = "DecodeMultiple" => Entry(l, m.err) = "files"
      /\ l \in {"OneStatus", "OneCompleted"} => Entry(l, m.err) = "work"
      /\ l = "JoinAudio" => Entry(l, m.err) = "parent"
      /\ l = "JoinResults" /\ m.err => Entry(l, m.err) = "error"
      /\ l = "JoinResults" /\ ~m.err => Entry(l, m.err) = "result"
  BY <1>2, EntryIs
<1>4. /\ Target(l) \in Status
      /\ l = "OneCompleted" => Target(l) = JoinResults
      /\ l # "OneCompleted" => Target(l) = Completed
  BY DEF Target, Status, JoinResults, Completed
<1>5. /\ attempts \in Nat /\ faults \in Nat /\ faults <= MaxFaults /\ MaxFaults \in Nat
      /\ ready \in [Msg -> Nat] /\ h \in [Listener -> Handler \cup {Idle}]
  BY ZoomAssumption DEF ZoomInv, Shape, ZoomTypes
<1>6. dec => attempts + 1 \in Attempt
  <2>1. SUFFICES ASSUME dec PROVE attempts <= faults
    BY <1>5 DEF Attempt
  <2>2. Sets <= 1 + faults
    BY DEF ZoomInv, Budget
  <2>3. ready[Decoding(FALSE)] \in Nat /\ ready[Decoding(TRUE)] \in Nat
    BY DecodingReady DEF ZoomInv, Shape
  <2>4. m = Decoding(FALSE) \/ m = Decoding(TRUE)
    <3>1. ~m.err
      BY <1>1, <2>1 DEF ZoomInv, Budget
    <3>2. QED
      BY <1>2, <2>1, <3>1, DecodingIs
  <2>5. ready[Decoding(FALSE)] + ready[Decoding(TRUE)] >= 1
    <3>1. ready[m] > 0
      BY <1>1
    <3>2. ready[Decoding(FALSE)] > 0 \/ ready[Decoding(TRUE)] > 0
      BY <2>4, <3>1
    <3>3. QED
      BY <2>3, <3>2 DEF Decoding
  <2>6. QED
    <3>1. attempts \in Nat /\ faults \in Nat
      BY <1>5
    <3>2. QED
      BY <2>2, <2>3, <2>5, <3>1 DEF Sets, Decoding
<1>7. r \in Handler
  <2>1. (IF dec THEN attempts + 1 ELSE 0) \in Nat /\ 0 \in Status /\ 1 \in Nat
    BY <1>5 DEF Status
  <2>2. QED
    BY <1>2, <1>3, <1>4, <2>1 DEF Handler
<1>8. r.set = (IF dec THEN attempts + 1 ELSE 0) /\ r.i = 1 /\ r.to = Target(l) /\ r.ok = TRUE /\ r.err = m.err
      /\ r.pc = Entry(l, m.err) /\ r.bad = (l = "JoinResults" /\ m.err)
  OBVIOUS
<1> HIDE DEF r
<1>9. /\ h' \in [Listener -> Handler \cup {Idle}] /\ h'[l] = r
      /\ \A k \in Listener \ {l} : h'[k] = h[k]
  BY <1>1, <1>2, <1>5, <1>7
<1>10. /\ ready' \in [Msg -> Nat] /\ ready'[m] = ready[m] - 1
       /\ \A n \in Msg : n # m => ready'[n] = ready[n]
  <2>1. ready[m] - 1 \in Nat
    BY <1>1, <1>5
  <2>2. QED
    BY <1>1, <1>5, <2>1
<1>11. r.set \in Attempt \cup {0} /\ r.i \in 1 .. Files
  BY <1>6, <1>8, ZoomAssumption
<1>12. Shape'
  <2>1. ZoomTypes'
    <3>1. attempts' \in Nat
      BY <1>1, <1>5
    <3>2. QED
      BY <1>1, <1>9, <1>10, <3>1 DEF ZoomInv, Shape, ZoomTypes, parentVars, partVars
  <2>2. Handles(l)'
    BY <1>2, <1>3, <1>8, <1>9, <1>11 DEF Handles, Listener, Work
  <2>3. ASSUME NEW k \in Listener \ {l}, Busy(k)' PROVE Handles(k)'
    BY <1>9, <2>3 DEF ZoomInv, Shape, Handles, Busy
  <2>4. QED
    BY <2>1, <2>2, <2>3 DEF Shape
<1>13. Budget'
  <2>1. ready[Decoding(FALSE)] \in Nat /\ ready[Decoding(TRUE)] \in Nat
    BY DecodingReady DEF ZoomInv, Shape
  <2>2. \A n \in Msg : n.q = "DecodeMultiple" /\ n.err => ready'[n] = 0
    <3>1. SUFFICES ASSUME NEW n \in Msg, n.q = "DecodeMultiple", n.err PROVE n # m
      BY <1>10 DEF ZoomInv, Budget
    <3>2. QED
      BY <1>1, <3>1 DEF ZoomInv, Budget
  <2>3. CASE dec
    <3>1. h'["DecodeMultiple"] = r /\ ~Again'
      BY <1>8, <1>9, <2>3 DEF Again
    <3>2. ~m.err
      BY <1>1, <2>3 DEF ZoomInv, Budget
    <3>3. m = Decoding(FALSE) \/ m = Decoding(TRUE)
      BY <1>2, <2>3, <3>2, DecodingIs
    <3>4. Decoding(FALSE) \in Msg /\ Decoding(TRUE) \in Msg /\ Decoding(TRUE) # Decoding(FALSE)
      BY DecodingIs
    <3>5. ready'[Decoding(FALSE)] + ready'[Decoding(TRUE)] + 1 = ready[Decoding(FALSE)] + ready[Decoding(TRUE)]
      <4>1. CASE m = Decoding(FALSE)
        <5>1. /\ ready'[Decoding(FALSE)] = ready[Decoding(FALSE)] - 1
              /\ ready'[Decoding(TRUE)] = ready[Decoding(TRUE)]
          BY <1>10, <3>4, <4>1
        <5>2. QED
          BY <2>1, <5>1 DEF Decoding
      <4>2. CASE m = Decoding(TRUE)
        <5>1. /\ ready'[Decoding(TRUE)] = ready[Decoding(TRUE)] - 1
              /\ ready'[Decoding(FALSE)] = ready[Decoding(FALSE)]
          BY <1>10, <3>4, <4>2
        <5>2. QED
          BY <2>1, <5>1 DEF Decoding
      <4>3. QED
        BY <3>3, <4>1, <4>2
    <3>6. ready'[Decoding(FALSE)] \in Nat /\ ready'[Decoding(TRUE)] \in Nat
      BY <1>10, <3>4
    <3>7. Sets' = Sets
      BY <1>1, <1>5, <2>1, <2>3, <3>5, <3>6 DEF Sets, Decoding
    <3>8. QED
      BY <1>1, <1>8, <2>2, <3>1, <3>2, <3>7 DEF ZoomInv, Budget
  <2>4. CASE ~dec
    <3>1. h'["DecodeMultiple"] = h["DecodeMultiple"]
      BY <1>9, <2>4 DEF Listener
    <3>2. ready'[Decoding(FALSE)] = ready[Decoding(FALSE)] /\ ready'[Decoding(TRUE)] = ready[Decoding(TRUE)]
      <4>1. Decoding(FALSE) \in Msg /\ Decoding(TRUE) \in Msg /\ Decoding(FALSE) # m /\ Decoding(TRUE) # m
        BY <2>4, DecodingIs
      <4>2. QED
        BY <1>10, <4>1
    <3>3. Sets' = Sets
      BY <1>1, <2>4, <3>2 DEF Sets, Decoding
    <3>4. Again' = Again
      BY <1>1, <3>1 DEF Again, Busy
    <3>5. QED
      BY <1>1, <2>2, <3>1, <3>3, <3>4 DEF ZoomInv, Budget, Busy
  <2>5. QED
    BY <2>3, <2>4
<1>14. Starting'
  <2>1. CASE dec
    <3>1. h'["DecodeMultiple"] = r /\ r.set = attempts + 1 /\ r.set \in Attempt /\ r.i = 1 /\ r.pc = "files"
      BY <1>3, <1>6, <1>8, <1>9, <2>1
    <3>2. \A a \in Attempt, n \in 1 .. Files : <<a, n>> \in running' => a <= attempts /\ a \in Nat
      BY <1>1 DEF ZoomInv, Starting, partVars, Attempt
    <3>3. \A n \in 1 .. Files : <<r.set, n>> \in running' <=> n < r.i
      BY <1>5, <3>1, <3>2, ZoomAssumption
    <3>4. attempts' = attempts + 1
      BY <1>1, <2>1
    <3>5. \A a \in Attempt, n \in 1 .. Files : <<a, n>> \in running' => a <= attempts'
      BY <1>5, <3>2, <3>4
    <3>6. RelatedAreStarted'
      BY <1>1 DEF ZoomInv, Starting, RelatedAreStarted, parentVars, partVars
    <3>7. r.set <= attempts'
      BY <1>5, <3>1, <3>4
    <3>8. QED
      BY <3>1, <3>3, <3>5, <3>6, <3>7 DEF Starting
  <2>2. CASE ~dec
    <3>1. h'["DecodeMultiple"] = h["DecodeMultiple"]
      BY <1>9, <2>2 DEF Listener
    <3>2. QED
      BY <1>1, <2>2, <3>1, StartingStays DEF ZoomInv, parentVars, partVars
  <2>3. QED
    BY <2>1, <2>2
<1>15. SameEnds
  BY <1>1 DEF SameEnds, partVars
<1>16. JoinResults # Completed
  BY DEF JoinResults, Completed
<1>17. Reading'
  <2>1. CASE l \notin {"OneStatus", "OneCompleted"}
    BY <1>9, <1>15, <2>1, ReadingStays DEF ZoomInv, Listener
  <2>2. CASE l = "OneStatus"
    BY <1>4, <1>7, <1>8, <1>9, <1>15, <1>16, <2>2, StatusReads DEF ZoomInv, Moved
  <2>3. CASE l = "OneCompleted"
    <3>1. h'["OneStatus"] = h["OneStatus"] /\ h'["OneCompleted"].pc = "work" /\ h'["OneCompleted"].to = JoinResults
      BY <1>3, <1>4, <1>8, <1>9, <2>3 DEF Listener
    <3>2. QED
      BY <3>1 DEF ZoomInv, Reading, Busy
  <2>4. QED
    BY <2>1, <2>2, <2>3
<1>18. \A n \in Msg : n.q = "JoinResults" /\ ready'[n] > 0 => AllDone
  <2>1. SUFFICES ASSUME NEW n \in Msg, n.q = "JoinResults", ready'[n] > 0 PROVE ready[n] > 0
    BY DEF ZoomInv, Joining
  <2>2. QED
    BY <1>1, <1>10, <2>1
<1>19. "OneStatus" \in Listener /\ "JoinResults" \in Listener
  BY DEF Listener, Work
<1>20. Busy("JoinResults")' => AllDone
  <2>1. CASE l = "JoinResults"
    BY <1>1, <2>1 DEF ZoomInv, Joining
  <2>2. CASE l # "JoinResults"
    BY <1>9, <1>19, <2>2 DEF ZoomInv, Joining, Busy
  <2>3. QED
    BY <2>1, <2>2
<1>21. Busy("OneStatus")' /\ h'["OneStatus"].pc = "status" => h'["OneStatus"].to # Completed
  <2>1. CASE l = "OneStatus"
    BY <1>3, <1>8, <1>9, <2>1
  <2>2. CASE l # "OneStatus"
    BY <1>9, <1>19, <2>2 DEF ZoomInv, Saving, Busy
  <2>3. QED
    BY <2>1, <2>2
<1>22. Busy("JoinResults")' =>
          \/ Busy("JoinResults") /\ h'["JoinResults"] = h["JoinResults"]
          \/ /\ h'["JoinResults"].to = Completed
             /\ h'["JoinResults"].pc \in {"result", "error"}
  <2>1. CASE l = "JoinResults"
    BY <1>3, <1>4, <1>8, <1>9, <2>1
  <2>2. CASE l # "JoinResults"
    BY <1>9, <1>19, <2>2 DEF Busy
  <2>3. QED
    BY <2>1, <2>2
<1>23. QED
  BY <1>1, <1>12, <1>13, <1>14, <1>17, <1>18, <1>20, <1>21, <1>22, DataKeeps

\* Messages that come to other queues than that of decode keep Budget.
LEMMA BudgetArrives ==
    ASSUME ZoomTypes, Budget, UNCHANGED <<h, up, attempts>>,
           \A m \in Msg : m.q = "DecodeMultiple" => ready'[m] = ready[m],
           faults' = faults \/ faults' = faults + 1
    PROVE  Budget'
<1>1. ready'[Decoding(FALSE)] = ready[Decoding(FALSE)] /\ ready'[Decoding(TRUE)] = ready[Decoding(TRUE)]
  BY DecodingIs
<1>2. ready[Decoding(FALSE)] \in Nat /\ ready[Decoding(TRUE)] \in Nat
  BY DecodingReady
<1>3. attempts \in Nat /\ faults \in Nat
  BY DEF ZoomTypes
<1>4. Sets' = Sets /\ Sets \in Nat
  BY <1>1, <1>2, <1>3 DEF Sets, Decoding
<1>5. Again' = Again
  BY DEF Again, Busy
<1>6. Sets <= 1 + faults /\ (Again => Sets <= faults)
  BY DEF Budget
<1>7. Sets' <= 1 + faults' /\ (Again' => Sets' <= faults')
  BY <1>3, <1>4, <1>5, <1>6
<1>8. QED
  BY <1>7 DEF Budget, Busy

\* More completed parts spoil nothing that was read of them.
LEMMA ReadingGrows ==
    ASSUME Shape, Reading, UNCHANGED h,
           \A p \in Part : partStatus[p] = Completed => partStatus'[p] = Completed
    PROVE  Reading' /\ (AllDone => AllDone')
<1>1. AllDone => AllDone'
  BY PartsIs DEF AllDone, SetDone
<1>2. ASSUME Busy("OneCompleted"), h["OneCompleted"].pc = "part", h["OneCompleted"].to = JoinResults,
             NEW n \in 1 .. (h["OneCompleted"].i - 1)
      PROVE  partStatus'[<<h["OneCompleted"].set, n>>] = Completed
  <2>1. h["OneCompleted"].set \in Attempt /\ h["OneCompleted"].i \in 1 .. Files
    BY <1>2 DEF Shape, Handles, Listener, Work
  <2>2. n \in 1 .. Files
    BY <2>1, ZoomAssumption
  <2>3. partStatus[<<h["OneCompleted"].set, n>>] = Completed
    BY <1>2 DEF Reading
  <2>4. QED
    BY <2>1, <2>2, <2>3, PartsIs
<1>3. QED
  BY <1>1, <1>2 DEF Reading, Busy

\* A worker keeps the invariant.
LEMMA WorkerKeeps ==
    ASSUME ZoomInv, NEW w \in Work, NEW err \in BOOLEAN, Worker(w, err)
    PROVE  ZoomInv'
<1>1. /\ UNCHANGED <<h, up, parentVars, partVars, attempts, told>>
      /\ work[w] > 0
      /\ ready' = [ready EXCEPT ![Message(w, err)] = @ + 1]
      /\ \/ work' = [work EXCEPT ![w] = @ - 1] /\ UNCHANGED faults
         \/ Fault("repeat") /\ UNCHANGED work
  BY DEF Worker
<1>2. ready \in [Msg -> Nat] /\ work \in [Work -> Nat] /\ faults \in 0 .. MaxFaults
  BY DEF ZoomInv, Shape, ZoomTypes
<1>3. Message(w, err) \in Msg /\ Message(w, err).q = w
  BY DEF Message, Msg, Listener
<1>4. /\ ready' \in [Msg -> Nat]
      /\ \A m \in Msg : m.q # w => ready'[m] = ready[m]
  BY <1>1, <1>2, <1>3
<1>5. work' \in [Work -> Nat] /\ (work'["JoinResults"] > 0 => work["JoinResults"] > 0)
  <2>1. CASE work' = [work EXCEPT ![w] = @ - 1]
    <3>1. work[w] - 1 \in Nat
      BY <1>1, <1>2
    <3>2. QED
      BY <1>1, <1>2, <2>1, <3>1 DEF Work
  <2>2. CASE UNCHANGED work
    BY <1>2, <2>2
  <2>3. QED
    BY <1>1, <2>1, <2>2
<1>6. faults' \in 0 .. MaxFaults /\ (faults' = faults \/ faults' = faults + 1)
  <2>1. CASE UNCHANGED faults
    BY <1>2, <2>1
  <2>2. CASE Fault("repeat")
    BY <2>2, FaultIs DEF ZoomInv, Shape
  <2>3. QED
    BY <1>1, <2>1, <2>2
<1>7. Shape'
  <2>1. ZoomTypes'
    BY <1>1, <1>4, <1>5, <1>6 DEF ZoomInv, Shape, ZoomTypes, parentVars, partVars
  <2>2. QED
    BY <1>1, <2>1 DEF ZoomInv, Shape, Handles, Busy
<1>8. Budget'
  <2>1. \A m \in Msg : m.q = "DecodeMultiple" => ready'[m] = ready[m]
    BY <1>4 DEF Work
  <2>2. QED
    BY <1>1, <1>6, <2>1, BudgetArrives DEF ZoomInv, Shape
<1>9. Starting'
  BY <1>1, StartingStays DEF ZoomInv, parentVars, partVars
<1>10. Reading' /\ (AllDone => AllDone')
  BY <1>1, ReadingGrows DEF ZoomInv, partVars
<1>11. Joining'
  <2>1. work["JoinResults"] > 0 \/ status = JoinResults \/ result => AllDone
    BY DEF ZoomInv, Joining, JoinAfterParts, AllDone, SetDone
  <2>2. JoinAfterParts'
    BY <1>1, <1>5, <1>10, <2>1 DEF JoinAfterParts, AllDone, SetDone, parentVars
  <2>3. \A m \in Msg : m.q = "JoinResults" /\ ready'[m] > 0 => AllDone
    <3>1. CASE w = "JoinResults"
      BY <1>1, <2>1, <3>1
    <3>2. CASE w # "JoinResults"
      BY <1>4, <3>2 DEF ZoomInv, Joining
    <3>3. QED
      BY <3>1, <3>2
  <2>4. QED
    BY <1>1, <1>10, <2>2, <2>3 DEF ZoomInv, Joining, Busy
<1>12. EndedRan' /\ Saving'
  BY <1>1 DEF ZoomInv, EndedRan, Saving, ResultBeforeFinished, Busy, parentVars, partVars
<1>13. QED
  BY <1>7, <1>8, <1>9, <1>10, <1>11, <1>12 DEF ZoomInv

\* What a part does keeps the invariant: its record changes and messages come.
LEMMA PartKeeps ==
    ASSUME ZoomInv, UNCHANGED <<work, h, up, parentVars, running, attempts, told, faults>>,
           ready' \in [Msg -> Nat],
           \A m \in Msg : m.q \notin {"OneStatus", "OneCompleted"} => ready'[m] = ready[m],
           partStatus' \in [Part -> Status \ {JoinResults}], partError' \subseteq Part,
           \A p \in Part : partStatus[p] = Completed => partStatus'[p] = Completed,
           \A p \in Part : partStatus'[p] = Completed => p \in running
    PROVE  ZoomInv'
<1>1. Shape'
  <2>1. ZoomTypes'
    BY DEF ZoomInv, Shape, ZoomTypes, parentVars
  <2>2. QED
    BY <2>1 DEF ZoomInv, Shape, Handles, Busy
<1>2. Budget'
  <2>1. \A m \in Msg : m.q = "DecodeMultiple" => ready'[m] = ready[m]
    OBVIOUS
  <2>2. QED
    BY <2>1, BudgetArrives DEF ZoomInv, Shape
<1>3. Starting'
  BY StartingStays DEF ZoomInv, parentVars
<1>4. Reading' /\ (AllDone => AllDone')
  BY ReadingGrows DEF ZoomInv
<1>5. Joining'
  <2>1. work["JoinResults"] > 0 \/ status = JoinResults \/ result => AllDone
    BY DEF ZoomInv, Joining, JoinAfterParts, AllDone, SetDone
  <2>2. JoinAfterParts'
    BY <1>4, <2>1 DEF JoinAfterParts, AllDone, SetDone, parentVars
  <2>3. \A m \in Msg : m.q = "JoinResults" => ready'[m] = ready[m]
    OBVIOUS
  <2>4. QED
    BY <1>4, <2>2, <2>3 DEF ZoomInv, Joining, Busy
<1>6. EndedRan' /\ Saving'
  BY DEF ZoomInv, EndedRan, Saving, ResultBeforeFinished, Busy, parentVars
<1>7. QED
  BY <1>1, <1>2, <1>3, <1>4, <1>5, <1>6 DEF ZoomInv

\* A part that is at its stages is not completed, and does not join results.
LEMMA StageIs ==
    ASSUME NEW p \in Part, NEW st \in PartStages[p[2]]
    PROVE  st \in Status \ {JoinResults} /\ st # Completed
<1>1. p[2] \in 1 .. Files
  BY DEF Part
<1>2. st \in 2 .. 7
  BY <1>1, ZoomAssumption
<1>3. QED
  BY <1>2 DEF Status, JoinResults, Completed

\* What a message that comes changes.
LEMMA ArrivesIs ==
    ASSUME ready \in [Msg -> Nat], NEW m \in Msg, ready' = [ready EXCEPT ![m] = @ + 1]
    PROVE  /\ ready' \in [Msg -> Nat] /\ ready'[m] = ready[m] + 1
           /\ \A n \in Msg \ {m} : ready'[n] = ready[n]
  OBVIOUS

\* A part reaches a stage.
LEMMA PartAdvancesKeeps ==
    ASSUME ZoomInv, NEW p \in Part, NEW st \in PartStages[p[2]], PartAdvances(p, st)
    PROVE  ZoomInv'
<1>1. /\ UNCHANGED <<work, h, up, parentVars, partError, running, attempts, told, faults>>
      /\ p \in running /\ partStatus[p] # Completed
      /\ partStatus' = [partStatus EXCEPT ![p] = st]
      /\ ready' = [ready EXCEPT ![Message("OneStatus", FALSE)] = @ + 1]
  BY DEF PartAdvances, Ended
<1>2. ready \in [Msg -> Nat] /\ partStatus \in [Part -> Status \ {JoinResults}] /\ partError \subseteq Part
  BY DEF ZoomInv, Shape, ZoomTypes
<1>3. st \in Status \ {JoinResults} /\ st # Completed
  BY StageIs
<1>4. Message("OneStatus", FALSE) \in Msg /\ Message("OneStatus", FALSE).q = "OneStatus"
  BY DEF Message, Msg, Listener
<1>5. /\ ready' \in [Msg -> Nat]
      /\ \A m \in Msg : m.q # "OneStatus" => ready'[m] = ready[m]
  BY <1>1, <1>2, <1>4, ArrivesIs
<1>6. partStatus' \in [Part -> Status \ {JoinResults}]
  BY <1>1, <1>2, <1>3
<1>7. \A q \in Part : partStatus'[q] = Completed <=> partStatus[q] = Completed
  BY <1>1, <1>2, <1>3
<1>8. \A q \in Part : partStatus[q] = Completed => q \in running
  BY DEF ZoomInv, EndedRan
<1>9. /\ \A m \in Msg : m.q \notin {"OneStatus", "OneCompleted"} => ready'[m] = ready[m]
      /\ \A q \in Part : partStatus[q] = Completed => partStatus'[q] = Completed
      /\ \A q \in Part : partStatus'[q] = Completed => q \in running
  BY <1>5, <1>7, <1>8
<1>10. partError' \subseteq Part
  BY <1>1, <1>2
<1>11. QED
  BY <1>1, <1>5, <1>6, <1>9, <1>10, PartKeeps

\* A part ends.
LEMMA PartEndsKeeps ==
    ASSUME ZoomInv, NEW p \in Part, NEW err \in BOOLEAN, PartEnds(p, err)
    PROVE  ZoomInv'
<1> DEFINE one == Message("OneStatus", FALSE)
           two == Message("OneCompleted", FALSE)
<1>1. /\ UNCHANGED <<work, h, up, parentVars, running, attempts, told, faults>>
      /\ p \in running
      /\ IF err THEN partError' = partError \cup {p} /\ UNCHANGED partStatus
         ELSE partStatus' = [partStatus EXCEPT ![p] = Completed] /\ UNCHANGED partError
      /\ ready' = [ready EXCEPT ![one] = @ + 1, ![two] = @ + 1]
  BY DEF PartEnds
<1>2. ready \in [Msg -> Nat] /\ partStatus \in [Part -> Status \ {JoinResults}] /\ partError \subseteq Part
  BY DEF ZoomInv, Shape, ZoomTypes
<1>3. one \in Msg /\ one.q = "OneStatus" /\ two \in Msg /\ two.q = "OneCompleted" /\ one # two
  BY DEF Message, Msg, Listener
<1> HIDE DEF one, two
<1>5. /\ ready' \in [Msg -> Nat]
      /\ \A m \in Msg : m.q \notin {"OneStatus", "OneCompleted"} => ready'[m] = ready[m]
  BY <1>1, <1>2, <1>3
<1>6. Completed \in Status \ {JoinResults}
  BY DEF Completed, Status, JoinResults
<1>7. partStatus' \in [Part -> Status \ {JoinResults}] /\ partError' \subseteq Part
  BY <1>1, <1>2, <1>6
<1>8. /\ \A q \in Part : partStatus[q] = Completed => partStatus'[q] = Completed
      /\ \A q \in Part : partStatus'[q] = Completed => q \in running
  BY <1>1, <1>2 DEF ZoomInv, EndedRan
<1>9. QED
  BY <1>1, <1>5, <1>7, <1>8, PartKeeps
\* The service starts with the invariant.
LEMMA ZoomStarts == Init => ZoomInv
<1> SUFFICES ASSUME Init PROVE ZoomInv
  OBVIOUS
<1>1. \A l \in Listener : ~Busy(l)
  BY DEF Init, Busy
<1>2. "DecodeMultiple" \in Listener /\ "OneStatus" \in Listener /\ "OneCompleted" \in Listener
      /\ "JoinResults" \in Listener
  BY DEF Listener, Work
<1>3. ready \in [Msg -> Nat] /\ \A m \in Msg : m # Decoding(FALSE) => ready[m] = 0
  BY DEF Init, Message, Decoding
<1>4. ready[Decoding(FALSE)] = 1 /\ ready[Decoding(TRUE)] = 0
  BY DecodingIs DEF Init, Message, Decoding
<1>5. Uploaded \in Status \ {JoinResults} /\ Uploaded # Completed /\ 0 \in Status \ {JoinResults} /\ 0 # Completed
  BY DEF Uploaded, Status, JoinResults, Completed
<1>6. \A p \in Part : partStatus[p] # Completed
  BY <1>5 DEF Init
<1>7. Shape
  <2>1. faults \in 0 .. MaxFaults
    BY ZoomAssumption DEF Init
  <2>2. h \in [Listener -> Handler \cup {Idle}]
    BY DEF Init
  <2>3. ZoomTypes
    BY <1>3, <1>5, <2>1, <2>2 DEF Init, ZoomTypes
  <2>4. QED
    BY <1>1, <2>3 DEF Shape
<1>8. Budget
  <2>1. attempts = 0 /\ faults = 0
    BY DEF Init
  <2>2. Sets = 1
    BY <1>4, <2>1 DEF Sets, Decoding
  <2>3. \A m \in Msg : m.q = "DecodeMultiple" /\ m.err => ready[m] = 0
    BY <1>3 DEF Decoding
  <2>4. QED
    BY <1>1, <1>2, <2>1, <2>2, <2>3 DEF Budget, Again
<1>9. Starting
  BY <1>1, <1>2 DEF Init, Starting, RelatedAreStarted
<1>10. EndedRan
  BY <1>6 DEF EndedRan
<1>11. Reading
  BY <1>1, <1>2 DEF Reading
<1>12. Joining
  <2>1. \A m \in Msg : m.q = "JoinResults" => ready[m] = 0
    BY <1>3 DEF Decoding
  <2>2. ~(status = JoinResults \/ work["JoinResults"] > 0 \/ result)
    BY <1>5 DEF Init, Work
  <2>3. QED
    BY <1>1, <1>2, <2>1, <2>2 DEF Joining, JoinAfterParts
<1>13. Saving
  BY <1>1, <1>2, <1>5 DEF Init, Saving, ResultBeforeFinished
<1>14. QED
  BY <1>7, <1>8, <1>9, <1>10, <1>11, <1>12, <1>13 DEF ZoomInv

\* Each step of a handler keeps the invariant.
LEMMA HandleKeeps == ASSUME ZoomInv, NEW l \in Listener, Handle(l) PROVE ZoomInv'
<1>1. CASE ReadFiles(l) \/ RecordPart(l) \/ SaveWork(l) \/ ReadWork(l) \/ ReadParent(l)
  BY <1>1, ReadFilesKeeps, RecordPartKeeps, SaveWorkKeeps, ReadWorkKeeps, ReadParentKeeps
<1>2. CASE ReadPart(l) \/ PartReadFails(l) \/ SaveAudioReady(l) \/ SaveResult(l) \/ SaveAvailable(l)
  BY <1>2, ReadPartKeeps, PartReadFailsKeeps, SaveAudioReadyKeeps, SaveResultKeeps, SaveAvailableKeeps
<1>3. CASE SaveStatus(l) \/ SaveError(l) \/ Settle(l)
  BY <1>3, SaveStatusKeeps, SaveErrorKeeps, SettleKeeps
<1>4. ASSUME NEW out \in SendOutcome,
             InformStarted(l, out) \/ SendJoinAudio(l, out) \/ SendPart(l, out) \/ Publish(l, out)
      PROVE  ZoomInv'
  BY <1>4, InformStartedKeeps, SendJoinAudioKeeps, SendPartKeeps, PublishKeeps
<1>5. ASSUME NEW out \in SendOutcome,
             InformFailed(l, out) \/ SendJoinResults(l, out) \/ InformFinished(l, out)
      PROVE  ZoomInv'
  BY <1>5, InformFailedKeeps, SendJoinResultsKeeps, InformFinishedKeeps
<1>6. QED
  BY <1>1, <1>2, <1>3, <1>4, <1>5 DEF Handle

\* The same state has the same invariant.
LEMMA ZoomStutters == ASSUME ZoomInv, UNCHANGED vars PROVE ZoomInv'
<1>1. UNCHANGED <<ready, work, h, up, told, attempts, faults, parentVars, partVars>>
  BY DEF vars
<1>2. Shape'
  BY <1>1 DEF ZoomInv, Shape, ZoomTypes, Handles, Busy, parentVars, partVars
<1>3. Budget'
  BY <1>1, BudgetArrives DEF ZoomInv, Shape
<1>4. Starting'
  BY <1>1, StartingStays DEF ZoomInv, parentVars, partVars
<1>5. Reading' /\ (AllDone => AllDone')
  BY <1>1, ReadingGrows DEF ZoomInv, partVars
<1>6. EndedRan' /\ Saving'
  BY <1>1 DEF ZoomInv, EndedRan, Saving, ResultBeforeFinished, Busy, parentVars, partVars
<1>7. Joining'
  <2>1. JoinAfterParts'
    BY <1>1 DEF ZoomInv, Joining, JoinAfterParts, parentVars, partVars
  <2>2. QED
    BY <1>1, <1>5, <2>1 DEF ZoomInv, Joining, Busy
<1>8. QED
  BY <1>2, <1>3, <1>4, <1>5, <1>6, <1>7 DEF ZoomInv

\* Each step keeps the invariant.
LEMMA ZoomSteps == ASSUME ZoomInv, [Next]_vars PROVE ZoomInv'
<1>1. ASSUME NEW m \in Msg, Take(m) PROVE ZoomInv'
  BY <1>1, TakeKeeps
<1>2. ASSUME NEW l \in Listener, Handle(l) PROVE ZoomInv'
  BY <1>2, HandleKeeps
<1>3. ASSUME NEW w \in Work, NEW err \in BOOLEAN, Worker(w, err) PROVE ZoomInv'
  BY <1>3, WorkerKeeps
<1>4. ASSUME NEW p \in Part, PartStep(p) PROVE ZoomInv'
  BY <1>4, PartAdvancesKeeps, PartEndsKeeps DEF PartStep
<1>5. CASE Restart
  BY <1>5, ServiceRestarts
<1>6. CASE UNCHANGED vars
  BY <1>6, ZoomStutters
<1>7. QED
  BY <1>1, <1>2, <1>3, <1>4, <1>5, <1>6 DEF Next

\* Whatever fails ZoomInv holds: the parts are started in turn, the results are joined
\* when all parts of a set are completed, and the records say what was saved.
THEOREM ZoomInvariant == Spec => []ZoomInv
<1>1. QED
  BY ZoomStarts, ZoomSteps, PTL DEF Spec

\* The records say only what was done, whatever fails, is repeated or interleaved:
\* the parts that the work record names were started, and the owner hears that the
\* parent is finished only with its result and the list of its files saved.
THEOREM ZoomRecordsAreTrue == Spec => []RecordsAreTrue
<1>1. ZoomInv => RecordsAreTrue
  BY DEF ZoomInv, Starting, Saving, RecordsAreTrue
<1>2. QED
  BY <1>1, ZoomInvariant, PTL

\* The results are joined only when each part of a set is completed, although
\* completed reads the records of the parts one after another while they change.
THEOREM ZoomJoinAfterParts == Spec => []JoinAfterParts
<1>1. ZoomInv => JoinAfterParts
  BY DEF ZoomInv, Joining
<1>2. QED
  BY <1>1, ZoomInvariant, PTL
-----------------------------------------------------------------------------
\* While nothing fails there is one set of parts.
LEMMA OneSet ==
    ASSUME CalmInv
    PROVE  /\ attempts \in Nat /\ attempts <= 1
           /\ \A p \in running : p[1] = 1
           /\ related \in {0, 1}
           /\ AllDone => SetDone(1) /\ partError = {}
           /\ \A m \in Msg : m.q = "DecodeMultiple" /\ ready[m] > 0 => attempts = 0
<1>1. faults = 0 /\ ZoomTypes /\ Sets <= 1 + faults
  BY DEF CalmInv, Smooth, ZoomInv, Shape, Budget
<1>2. ready[Decoding(FALSE)] \in Nat /\ ready[Decoding(TRUE)] \in Nat
  BY <1>1, DecodingReady
<1>3. attempts \in Nat
  BY <1>1 DEF ZoomTypes
<1>4. /\ attempts <= 1
      /\ ready[Decoding(FALSE)] > 0 \/ ready[Decoding(TRUE)] > 0 => attempts = 0
  BY <1>1, <1>2, <1>3 DEF Sets, Decoding
<1>5. ASSUME NEW m \in Msg, m.q = "DecodeMultiple", ready[m] > 0 PROVE attempts = 0
  <2>1. ~m.err /\ m.redelivered \in BOOLEAN
    BY <1>5 DEF CalmInv, ZoomInv, Budget, Msg
  <2>2. m = Decoding(FALSE) \/ m = Decoding(TRUE)
    BY <1>5, <2>1, DecodingIs
  <2>3. QED
    BY <1>4, <1>5, <2>2
<1>6. \A a \in Attempt, n \in 1 .. Files : <<a, n>> \in running => a = 1
  BY <1>3, <1>4 DEF CalmInv, ZoomInv, Starting, Attempt
<1>7. \A p \in running : p[1] = 1 /\ p \in Part /\ p = <<p[1], p[2]>>
  BY <1>1, <1>6 DEF ZoomTypes, Part
<1>8. 1 \in 1 .. Files
  BY ZoomAssumption
<1>9. ASSUME NEW a \in Attempt, Parts(a) \subseteq running PROVE a = 1
  BY <1>6, <1>8, <1>9, PartsIs
<1>10. related \in {0, 1}
  BY <1>1, <1>9 DEF ZoomTypes, CalmInv, ZoomInv, Starting, RelatedAreStarted
<1>11. ASSUME AllDone PROVE SetDone(1) /\ partError = {}
  <2>1. PICK a \in Attempt : SetDone(a)
    BY <1>11 DEF AllDone
  <2>2. \A p \in Parts(a) : p \in running
    BY <2>1, PartsIs DEF SetDone, CalmInv, ZoomInv, EndedRan
  <2>3. a = 1 /\ SetDone(1)
    BY <1>9, <2>1, <2>2
  <2>4. ASSUME NEW p \in partError PROVE FALSE
    <3>1. p \in running /\ partStatus[p] # Completed
      BY <2>4 DEF CalmInv, Followed
    <3>2. p \in Parts(1)
      BY <1>7, <3>1 DEF Parts, Part
    <3>3. QED
      BY <2>3, <3>1, <3>2 DEF SetDone
  <2>5. QED
    BY <2>3, <2>4
<1>12. QED
  BY <1>3, <1>4, <1>5, <1>7, <1>10, <1>11

\* What a step of a handler has to keep for CalmInv, for each queue what is its own.
LEMMA StepFollows ==
    ASSUME CalmInv, ZoomInv', NEW l \in Listener, Busy(l), Moved(l),
           UNCHANGED <<up, faults, ready, dropped, partError>>,
           told \subseteq told', running \subseteq running', SameEnds,
           work["JoinResults"] > 0 => work'["JoinResults"] > 0,
           related # 0 => related' # 0,
           l # "OneStatus" /\ error => error' \/ partError = {},
           error' => error \/ (h'[l].bad /\ h'[l].pc = "publish"),
           h[l].bad /\ h[l].pc \in {"publish", "failed"} =>
              "Failed" \in told' \/ (h'[l].bad /\ h'[l].pc \in {"publish", "failed"}),
           Calm(l)',
           l = "OneStatus" =>
              \A p \in partError : Seeing(p) \/ Steady => Seeing(p)' \/ Steady',
           l = "OneCompleted" /\ Ending /\ AllDone =>
              Ending' \/ Telling' \/ ToldEnd' \/ work'["JoinResults"] > 0,
           l = "JoinResults" /\ h[l].pc # "settle" => h'[l].pc # "settle" \/ ToldEnd',
           l = "DecodeMultiple" /\ h[l].pc # "settle" =>
              h'[l].pc # "settle" \/ ToldEnd' \/ related' # 0
    PROVE  CalmInv'
<1>1. \A k \in Listener \ {l} : h'[k] = h[k] /\ (Busy(k)' <=> Busy(k))
  BY DEF Moved, Busy
<1>2. Busy(l)'
  BY DEF Moved, Busy, Handler, Idle, PC
<1>3. Smooth'
  BY <1>1 DEF CalmInv, Smooth, Calm
<1>4. Telling => Telling'
  BY <1>1, <1>2 DEF Telling
<1>5. error' => Telling'
  BY <1>2, <1>4 DEF CalmInv, Followed, Telling
<1>6. \A p \in partError' : p \in running' /\ partStatus'[p] # Completed
  <2>1. \A p \in partError : p \in Part
    BY DEF CalmInv, ZoomInv, Shape, ZoomTypes
  <2>2. QED
    BY <2>1 DEF CalmInv, Followed, SameEnds
<1>7. ASSUME NEW p \in partError' PROVE FailSeen(p)'
  <2>1. FailSeen(p) /\ p \in partError
    BY <1>7 DEF CalmInv, Followed
  <2>2. CASE l = "OneStatus"
    BY <2>1, <2>2 DEF FailSeen, Pending
  <2>3. CASE l # "OneStatus"
    <3>1. h'["OneStatus"] = h["OneStatus"] /\ (Busy("OneStatus")' <=> Busy("OneStatus"))
      BY <1>1, <2>3 DEF Listener
    <3>2. error => error'
      BY <2>1, <2>3
    <3>3. QED
      BY <2>1, <3>1, <3>2 DEF FailSeen, Pending, Seeing, Steady
  <2>4. QED
    BY <2>2, <2>3
<1>8. ToldEnd => ToldEnd'
  BY DEF ToldEnd
<1>9. ASSUME AllDone' PROVE EndSeen'
  <2>1. AllDone /\ EndSeen
    BY <1>9, SameDone DEF CalmInv, Followed
  <2>2. Ending => Ending' \/ Telling' \/ ToldEnd' \/ work'["JoinResults"] > 0
    <3>1. CASE l = "OneCompleted"
      BY <2>1, <3>1
    <3>2. CASE l # "OneCompleted"
      <4>1. h'["OneCompleted"] = h["OneCompleted"] /\ (Busy("OneCompleted")' <=> Busy("OneCompleted"))
        BY <1>1, <3>2 DEF Listener
      <4>2. QED
        BY <4>1 DEF Ending
    <3>3. QED
      BY <3>1, <3>2
  <2>3. Busy("JoinResults") /\ h["JoinResults"].pc # "settle" =>
           ToldEnd' \/ (Busy("JoinResults")' /\ h'["JoinResults"].pc # "settle")
    <3>1. CASE l = "JoinResults"
      BY <1>2, <3>1
    <3>2. CASE l # "JoinResults"
      BY <1>1, <3>2 DEF Listener, Work
    <3>3. QED
      BY <3>1, <3>2
  <2>4. \A q \in Listener : Pending(q) => Pending(q)'
    BY DEF Pending
  <2>5. QED
    BY <1>4, <1>8, <2>1, <2>2, <2>3, <2>4 DEF EndSeen, Listener, Work
<1>10. SplitSeen'
  <2>1. Busy("DecodeMultiple") /\ h["DecodeMultiple"].pc # "settle" =>
           ToldEnd' \/ related' # 0 \/ (Busy("DecodeMultiple")' /\ h'["DecodeMultiple"].pc # "settle")
    <3>1. CASE l = "DecodeMultiple"
      BY <1>2, <3>1
    <3>2. CASE l # "DecodeMultiple"
      BY <1>1, <3>2 DEF Listener
    <3>3. QED
      BY <3>1, <3>2
  <2>2. QED
    BY <1>8, <2>1 DEF CalmInv, Followed, SplitSeen, Pending
<1>11. QED
  BY <1>3, <1>5, <1>6, <1>7, <1>9, <1>10 DEF CalmInv, Followed
\* While nothing fails no call does.
LEMMA NothingFails ==
    ASSUME Faults = {}
    PROVE  /\ \A kind : ~Fault(kind)
           /\ \A out : SendOver(out) => out = "sent" /\ UNCHANGED <<up, ready, faults>>
  BY DEF Fault, SendOver

\* What is known of a handler at a place.
LEMMA CalmAt ==
    ASSUME CalmInv, NEW l \in Listener, h[l].pc \in PC
    PROVE  /\ h[l] \in Handler /\ Busy(l) /\ h[l].pc \in Places(l) /\ Calm(l)
           /\ ZoomTypes /\ Handles(l)
  BY BusyIs DEF CalmInv, ZoomInv, Shape, Handles, Smooth

\* A step of decode on its way: it goes on, nothing else changes for the others.
LEMMA DecodeFollows ==
    ASSUME CalmInv, ZoomInv', Busy("DecodeMultiple"), Calm("DecodeMultiple"),
           Moved("DecodeMultiple"), SameTask("DecodeMultiple"),
           h["DecodeMultiple"].pc \notin {"publish", "failed"},
           UNCHANGED <<up, faults, ready, dropped, partError, error, related>>,
           told \subseteq told', running \subseteq running', SameEnds,
           work["JoinResults"] > 0 => work'["JoinResults"] > 0,
           h["DecodeMultiple"].ok => h'["DecodeMultiple"].ok,
           h'["DecodeMultiple"].pc \notin {"work", "publish", "settle"}
    PROVE  CalmInv'
<1>1. h'["DecodeMultiple"].ok /\ h'["DecodeMultiple"].set <= 1
  BY DEF Calm, SameTask
<1>2. Calm("DecodeMultiple")'
  BY <1>1 DEF Calm
<1>3. "DecodeMultiple" \in Listener
  BY DEF Listener
<1>4. QED
  BY <1>2, <1>3, StepFollows

\* decode goes on to start, or to save the error of files of different lengths.
LEMMA ReadFilesFollows ==
    ASSUME Faults = {}, CalmInv, ZoomInv', NEW l \in Listener, ReadFiles(l)
    PROVE  CalmInv'
<1>1. l = "DecodeMultiple" /\ h[l] \in Handler /\ Busy(l) /\ Calm(l) /\ ZoomTypes /\ h[l].pc = "files"
  BY DecodePlaces, CalmAt DEF ReadFiles, PC, CalmInv
<1>2. /\ UNCHANGED <<up, faults, ready, work, dropped, parentVars, partVars, told>>
      /\ \/ Goto(l, "started")
         \/ h' = [h EXCEPT ![l].pc = "error", ![l].bad = TRUE]
  BY NothingFails DEF ReadFiles, Succeeds
<1>3. /\ Moved(l) /\ SameTask(l) /\ h'[l].ok = h[l].ok
      /\ h'[l].pc \in {"started", "error"}
  <2>1. CASE Goto(l, "started")
    BY <1>1, <2>1, GotoIs DEF PC
  <2>2. CASE h' = [h EXCEPT ![l].pc = "error", ![l].bad = TRUE]
    BY <1>1, <2>2, ToErrorIs
  <2>3. QED
    BY <1>2, <2>1, <2>2
<1>4. QED
  BY <1>1, <1>2, <1>3, DecodeFollows DEF parentVars, partVars, SameEnds

\* decode goes on to the parts.
LEMMA InformStartedFollows ==
    ASSUME Faults = {}, CalmInv, ZoomInv', NEW l \in Listener, NEW out \in SendOutcome,
           InformStarted(l, out)
    PROVE  CalmInv'
<1>1. l = "DecodeMultiple" /\ h[l] \in Handler /\ Busy(l) /\ Calm(l) /\ ZoomTypes /\ h[l].pc = "started"
  BY DecodePlaces, CalmAt DEF InformStarted, PC, CalmInv
<1>2. UNCHANGED <<up, faults, ready, work, dropped, parentVars, partVars>> /\ out = "sent"
  BY NothingFails DEF InformStarted
<1>3. told \subseteq told' /\ \E pc \in {"record", "joinAudio"} : Goto(l, pc)
  BY <1>2 DEF InformStarted
<1>4. /\ Moved(l) /\ SameTask(l) /\ h'[l].ok = h[l].ok
      /\ h'[l].pc \in {"record", "joinAudio"}
  BY <1>1, <1>3, GotoIs DEF PC
<1>5. QED
  BY <1>1, <1>2, <1>3, <1>4, DecodeFollows DEF parentVars, partVars, SameEnds

\* decode goes on to the parts, the audio is to be merged.
LEMMA SendJoinAudioFollows ==
    ASSUME Faults = {}, CalmInv, ZoomInv', NEW l \in Listener, NEW out \in SendOutcome,
           SendJoinAudio(l, out)
    PROVE  CalmInv'
<1>1. l = "DecodeMultiple" /\ h[l] \in Handler /\ Busy(l) /\ Calm(l) /\ ZoomTypes /\ h[l].pc = "joinAudio"
  BY DecodePlaces, CalmAt DEF SendJoinAudio, PC, CalmInv
<1>2. UNCHANGED <<up, faults, ready, dropped, parentVars, partVars, told>> /\ out = "sent"
  BY NothingFails DEF SendJoinAudio
<1>3. Goto(l, "record") /\ work' = [work EXCEPT !["JoinAudio"] = @ + 1]
  BY <1>2 DEF SendJoinAudio
<1>4. Moved(l) /\ SameTask(l) /\ h'[l].ok = h[l].ok /\ h'[l].pc = "record"
  BY <1>1, <1>3, GotoIs DEF PC
<1>5. work'["JoinResults"] = work["JoinResults"]
  BY <1>1, <1>3 DEF ZoomTypes, Work
<1>6. QED
  BY <1>1, <1>2, <1>4, <1>5, DecodeFollows DEF parentVars, partVars, SameEnds

\* decode goes on to send the part, whose record is new.
LEMMA RecordPartFollows ==
    ASSUME Faults = {}, CalmInv, ZoomInv', NEW l \in Listener, RecordPart(l)
    PROVE  CalmInv'
<1> DEFINE p == <<h[l].set, h[l].i>>
<1>1. l = "DecodeMultiple" /\ h[l] \in Handler /\ Busy(l) /\ Calm(l) /\ ZoomTypes /\ h[l].pc = "record"
  BY DecodePlaces, CalmAt DEF RecordPart, PC, CalmInv
<1>2. /\ UNCHANGED <<up, faults, ready, work, dropped, parentVars, partError, running, told>>
      /\ Goto(l, "send") /\ partStatus' = [partStatus EXCEPT ![p] = Uploaded]
  BY NothingFails DEF RecordPart, Succeeds
<1>3. Moved(l) /\ SameTask(l) /\ h'[l].ok = h[l].ok /\ h'[l].pc = "send"
  BY <1>1, <1>2, GotoIs DEF PC
<1>4. SameEnds
  <2>1. p \in Part /\ partStatus[p] # Completed
    BY <1>1, PartIsNew DEF CalmInv
  <2>2. Uploaded # Completed
    BY DEF Uploaded, Completed
  <2>3. QED
    BY <1>1, <1>2, <2>1, <2>2 DEF ZoomTypes, SameEnds
<1>5. QED
  BY <1>1, <1>2, <1>3, <1>4, DecodeFollows DEF parentVars

\* decode goes on to the next part or to the work record.
LEMMA SendPartFollows ==
    ASSUME Faults = {}, CalmInv, ZoomInv', NEW l \in Listener, NEW out \in SendOutcome,
           SendPart(l, out)
    PROVE  CalmInv'
<1>1. l = "DecodeMultiple" /\ h[l] \in Handler /\ Busy(l) /\ Calm(l) /\ ZoomTypes /\ h[l].pc = "send"
  BY DecodePlaces, CalmAt DEF SendPart, PC, CalmInv
<1>2. /\ UNCHANGED <<up, faults, ready, work, dropped, parentVars, partError, partStatus, told>>
      /\ out = "sent"
  BY NothingFails DEF SendPart
<1>3. /\ running \subseteq running'
      /\ \/ Goto(l, "saveWork")
         \/ h' = [h EXCEPT ![l].pc = "record", ![l].i = @ + 1]
  BY <1>2 DEF SendPart
<1>4. /\ Moved(l) /\ SameTask(l) /\ h'[l].ok = h[l].ok
      /\ h'[l].pc \in {"saveWork", "record"}
  <2>1. CASE Goto(l, "saveWork")
    BY <1>1, <2>1, GotoIs DEF PC
  <2>2. CASE h' = [h EXCEPT ![l].pc = "record", ![l].i = @ + 1]
    <3>1. h[l].i + 1 \in Nat
      BY <1>1 DEF Handler
    <3>2. QED
      BY <1>1, <2>2, <3>1 DEF ZoomTypes, Moved, SameTask, Handler, PC
  <2>3. QED
    BY <1>3, <2>1, <2>2
<1>5. QED
  BY <1>1, <1>2, <1>3, <1>4, DecodeFollows DEF parentVars, SameEnds

\* decode ends with the work record saved: the parent is split.
LEMMA SaveWorkFollows ==
    ASSUME Faults = {}, CalmInv, ZoomInv', NEW l \in Listener, SaveWork(l)
    PROVE  CalmInv'
<1>1. l = "DecodeMultiple" /\ h[l] \in Handler /\ Busy(l) /\ Calm(l) /\ ZoomTypes /\ h[l].pc = "saveWork"
  BY DecodePlaces, CalmAt DEF SaveWork, PC, CalmInv
<1>2. /\ UNCHANGED <<up, faults, ready, work, dropped, error, partVars, told>>
      /\ related' = h[l].set /\ Return(l, TRUE)
  BY NothingFails DEF SaveWork, FailsAndReturns, Succeeds
<1>3. Moved(l) /\ SameTask(l) /\ h'[l].ok = TRUE /\ h'[l].pc = "settle"
  BY <1>1, <1>2, ReturnIs
<1>4. related' # 0
  BY <1>1, <1>2 DEF CalmInv, ZoomInv, Starting, Attempt
<1>5. Calm(l)'
  BY <1>1, <1>3 DEF Calm, SameTask
<1>6. QED
  BY <1>1, <1>2, <1>3, <1>4, <1>5, StepFollows DEF partVars, SameEnds
\* A step of gotStatus or completed that reads: nothing but its handler changes.
LEMMA ReaderFollows ==
    ASSUME CalmInv, ZoomInv', NEW l \in {"OneStatus", "OneCompleted"}, Busy(l), Moved(l),
           h[l].pc \notin {"publish", "failed"},
           UNCHANGED <<up, faults, ready, work, dropped, parentVars, partVars, told>>,
           Calm(l)',
           l = "OneStatus" => \A p \in partError : Seeing(p) => Seeing(p)' \/ Steady',
           l = "OneStatus" /\ Steady => h'[l].pc \notin {"part", "status"},
           l = "OneCompleted" /\ Ending /\ AllDone => Ending' \/ Telling' \/ ToldEnd'
    PROVE  CalmInv'
<1>1. l \in Listener
  BY DEF Listener
<1>2. l = "OneStatus" => \A p \in partError : Seeing(p) \/ Steady => Seeing(p)' \/ Steady'
  BY DEF Steady, parentVars
<1>3. UNCHANGED <<error, related, partError, running>> /\ SameEnds
  BY DEF parentVars, partVars, SameEnds
<1>4. l # "JoinResults" /\ l # "DecodeMultiple"
  OBVIOUS
<1>5. QED
  BY <1>1, <1>2, <1>3, <1>4, StepFollows

\* There is a work record and the handler goes on, or it returns an error.
LEMMA ReadWorkFollows ==
    ASSUME Faults = {}, CalmInv, ZoomInv', NEW l \in Listener, ReadWork(l)
    PROVE  CalmInv'
<1>1. /\ l \in {"OneStatus", "OneCompleted"} /\ h[l] \in Handler /\ Busy(l) /\ Calm(l)
      /\ ZoomTypes /\ h[l].pc = "work"
  BY PartPlaces, CalmAt DEF ReadWork, PC, CalmInv
<1>2. /\ UNCHANGED <<up, faults, ready, work, dropped, parentVars, partVars, told>>
      /\ IF related = 0 THEN Return(l, FALSE)
         ELSE h' = [h EXCEPT ![l].pc = "parent", ![l].set = related]
  BY NothingFails DEF ReadWork, Succeeds
<1>3. related \in {0, 1}
  BY OneSet
<1>4. CASE related = 0
  <2>1. Moved(l) /\ h'[l].pc = "settle" /\ h'[l].ok = FALSE /\ h'[l].set = 0
    BY <1>1, <1>2, <1>4, ReturnIs DEF SameTask, Calm
  <2>2. Calm(l)' /\ Busy(l)'
    BY <1>1, <2>1 DEF Calm, Moved, Busy, Handler, Idle, PC
  <2>3. /\ l = "OneStatus" => \A p \in partError : Seeing(p)'
        /\ l = "OneCompleted" => Ending'
    BY <2>1, <2>2 DEF Seeing, Ending
  <2>4. QED
    BY <1>1, <1>2, <2>1, <2>2, <2>3, ReaderFollows
<1>5. CASE related = 1
  <2>1. h' = [h EXCEPT ![l].pc = "parent", ![l].set = 1]
    BY <1>2, <1>5
  <2>2. /\ Moved(l) /\ h'[l].pc = "parent" /\ h'[l].set = 1
        /\ h'[l].ok = h[l].ok /\ h'[l].to = h[l].to /\ h'[l].bad = h[l].bad
    BY <1>1, <2>1 DEF ZoomTypes, Moved, Handler, PC
  <2>3. Calm(l)' /\ Busy(l)'
    BY <1>1, <2>2 DEF Calm, Moved, Busy, Handler, Idle, PC
  <2>4. /\ l = "OneStatus" => \A p \in partError : Seeing(p)'
        /\ l = "OneCompleted" => Ending'
    BY <2>2, <2>3 DEF Seeing, Ending
  <2>5. QED
    BY <1>1, <1>2, <2>2, <2>3, <2>4, ReaderFollows
<1>6. QED
  BY <1>3, <1>4, <1>5

\* The parent has failed, so its owner is told, or the parts are read from the first.
LEMMA ReadParentFollows ==
    ASSUME Faults = {}, CalmInv, ZoomInv', NEW l \in Listener, ReadParent(l)
    PROVE  CalmInv'
<1>1. /\ h[l] \in Handler /\ Busy(l) /\ Calm(l) /\ ZoomTypes /\ h[l].pc = "parent"
      /\ l \in {"OneStatus", "OneCompleted", "JoinAudio"}
      /\ h[l].i = 1
  BY CalmAt DEF ReadParent, PC, Places, Listener, Work, Handles
<1>2. /\ UNCHANGED <<up, faults, ready, work, dropped, parentVars, partVars, told>>
      /\ IF error THEN Return(l, TRUE)
         ELSE h' = [h EXCEPT ![l].pc = AfterParent(l), ![l].seen = status,
                             ![l].bad = l = "JoinAudio" /\ h[l].err,
                             ![l].again = l # "JoinAudio"]
  BY NothingFails DEF ReadParent, Succeeds, AlreadyFailed
<1>3. h[l].ok
  BY <1>1 DEF Calm
<1>4. CASE error
  <2>1. Moved(l) /\ SameTask(l) /\ h'[l].pc = "settle" /\ h'[l].ok = TRUE
    BY <1>1, <1>2, <1>4, ReturnIs
  <2>2. Calm(l)' /\ Busy(l)'
    BY <1>1, <2>1 DEF Calm, SameTask, Moved, Busy, Handler, Idle, PC
  <2>3. Telling'
    <3>1. Telling
      BY <1>4 DEF CalmInv, Followed
    <3>2. QED
      BY <1>1, <1>2, <2>1, <3>1 DEF Telling, Moved, Busy
  <2>4. CASE l = "JoinAudio"
    <3>1. UNCHANGED <<error, related, partError, running>> /\ SameEnds
      BY <1>2 DEF parentVars, partVars, SameEnds
    <3>2. QED
      BY <1>1, <1>2, <2>1, <2>2, <2>4, <3>1, StepFollows
  <2>5. CASE l = "OneStatus"
    <3>1. Steady'
      BY <1>2, <1>4, <2>1, <2>5 DEF Steady, parentVars
    <3>2. QED
      BY <1>1, <1>2, <2>1, <2>2, <2>5, <3>1, ReaderFollows
  <2>6. CASE l = "OneCompleted"
    BY <1>1, <1>2, <2>1, <2>2, <2>3, <2>6, ReaderFollows
  <2>7. QED
    BY <1>1, <2>4, <2>5, <2>6
<1>5. CASE ~error
  <2>1. /\ AfterParent(l) \in {"part", "error", "audioReady"}
        /\ l # "JoinAudio" => AfterParent(l) = "part"
    BY <1>1 DEF AfterParent, Handler
  <2>2. /\ Moved(l) /\ SameTask(l) /\ h'[l].pc = AfterParent(l)
        /\ h'[l].ok = h[l].ok /\ h'[l].to = h[l].to /\ h'[l].i = h[l].i
        /\ h'[l].bad = (l = "JoinAudio" /\ h[l].err)
    <3>1. status \in Status /\ (l = "JoinAudio" /\ h[l].err) \in BOOLEAN /\ (l # "JoinAudio") \in BOOLEAN
      BY <1>1 DEF ZoomTypes, Handler
    <3>2. AfterParent(l) \in PC
      BY <2>1 DEF PC
    <3>3. QED
      BY <1>1, <1>2, <1>5, <3>1, <3>2 DEF ZoomTypes, Moved, SameTask, Handler
  <2>3. Calm(l)' /\ Busy(l)'
    BY <1>1, <1>3, <2>1, <2>2 DEF Calm, SameTask, Moved, Busy, Handler, Idle, PC
  <2>4. CASE l = "JoinAudio"
    <3>1. UNCHANGED <<error, related, partError, running>> /\ SameEnds
      BY <1>2 DEF parentVars, partVars, SameEnds
    <3>2. QED
      BY <1>1, <1>2, <1>5, <2>2, <2>3, <2>4, <3>1, StepFollows
  <2>5. CASE l = "OneStatus"
    <3>1. \A p \in partError : p[2] \in 1 .. Files
      BY <1>1 DEF ZoomTypes, Part
    <3>2. \A p \in partError : Seeing(p)'
      BY <1>1, <2>1, <2>2, <2>3, <2>5, <3>1 DEF Seeing
    <3>3. QED
      BY <1>1, <1>2, <1>5, <2>2, <2>3, <2>5, <3>2, ReaderFollows DEF Steady
  <2>6. CASE l = "OneCompleted"
    <3>1. Ending'
      BY <1>1, <2>1, <2>2, <2>3, <2>6 DEF Ending, Calm
    <3>2. QED
      BY <1>1, <1>2, <2>2, <2>3, <2>6, <3>1, ReaderFollows
  <2>7. QED
    BY <1>1, <2>4, <2>5, <2>6
<1>6. QED
  BY <1>1, <1>4, <1>5 DEF ZoomTypes

\* gotStatus does not pass a part that has failed, and completed passes each one that
\* is completed.
LEMMA ReadPartFollows ==
    ASSUME Faults = {}, CalmInv, ZoomInv', NEW l \in Listener, ReadPart(l)
    PROVE  CalmInv'
<1> DEFINE p == <<h[l].set, h[l].i>>
           least == PartSays(l, partStatus[p])
<1>1. /\ l \in {"OneStatus", "OneCompleted"} /\ h[l] \in Handler /\ Busy(l) /\ Calm(l)
      /\ ZoomTypes /\ h[l].pc = "part" /\ h[l].set \in Attempt /\ h[l].i \in 1 .. Files
  BY PartPlaces, CalmAt DEF ReadPart, PC, CalmInv, Handles
<1>2. UNCHANGED <<up, faults, ready, work, dropped, parentVars, partVars, told>>
  BY DEF ReadPart, Succeeds
<1>3. h[l].ok /\ h[l].set = 1 /\ p = <<1, h[l].i>> /\ p \in Part
  BY <1>1, PartsIs DEF Calm, Attempt
<1>4. ~Steady \/ l # "OneStatus"
  BY <1>1 DEF Steady
<1>5. CASE p \in partError
  <2>1. h' = [h EXCEPT ![l].pc = "error", ![l].bad = TRUE]
    BY <1>5 DEF ReadPart
  <2>2. Moved(l) /\ SameTask(l) /\ h'[l].pc = "error" /\ h'[l].ok = h[l].ok
    BY <1>1, <2>1, ToErrorIs
  <2>3. Calm(l)' /\ Busy(l)'
    BY <1>1, <1>3, <2>2 DEF Calm, SameTask, Moved, Busy, Handler, Idle, PC
  <2>4. l = "OneStatus" => \A q \in partError : Seeing(q)'
    BY <2>2, <2>3 DEF Seeing
  <2>5. ~AllDone
    BY <1>5, OneSet
  <2>6. QED
    BY <1>1, <1>2, <1>4, <2>2, <2>3, <2>4, <2>5, ReaderFollows
<1>6. partStatus[p] \in Status /\ partStatus[p] # JoinResults
  BY <1>1, <1>3 DEF ZoomTypes
<1>7. least \in Status
  BY <1>1, <1>6, PartSaysIs DEF CalmInv
<1>8. l = "OneCompleted" /\ Ending /\ AllDone => least = JoinResults
  <2>1. SUFFICES ASSUME l = "OneCompleted", Ending, AllDone PROVE least = JoinResults
    OBVIOUS
  <2>2. h[l].to = JoinResults
    BY <1>1, <1>3, <2>1 DEF Ending
  <2>3. partStatus[p] = Completed
    <3>1. SetDone(1) /\ p \in Parts(1)
      BY <1>1, <1>3, <2>1, OneSet, PartsIs
    <3>2. QED
      BY <3>1 DEF SetDone
  <2>4. QED
    BY <2>1, <2>2, <2>3 DEF PartSays
<1> HIDE DEF least
<1>9. CASE p \notin partError /\ h[l].i < Files
  <2>1. h' = [h EXCEPT ![l].i = @ + 1, ![l].to = least]
    <3>1. h[l].i # Files
      BY <1>1, <1>9, ZoomAssumption
    <3>2. QED
      BY <1>9, <3>1 DEF ReadPart, least
  <2>2. /\ Moved(l) /\ SameTask(l) /\ h'[l].pc = "part" /\ h'[l].ok = h[l].ok
        /\ h'[l].bad = h[l].bad /\ h'[l].i = h[l].i + 1 /\ h'[l].to = least
    <3>1. h[l].i + 1 \in Nat
      BY <1>1 DEF Handler
    <3>2. QED
      BY <1>1, <1>7, <2>1, <3>1 DEF ZoomTypes, Moved, SameTask, Handler
  <2>3. Calm(l)' /\ Busy(l)'
    BY <1>1, <1>3, <2>2 DEF Calm, SameTask, Moved, Busy, Handler, Idle, PC
  <2>4. ASSUME l = "OneStatus", NEW q \in partError, Seeing(q) PROVE Seeing(q)'
    <3>1. h[l].i <= q[2]
      BY <1>1, <1>3, <2>4 DEF Seeing
    <3>2. q = <<1, q[2]>> /\ q[2] \in 1 .. Files
      BY <1>1, OneSet DEF ZoomTypes, Part, CalmInv, Followed
    <3>3. h[l].i # q[2]
      BY <1>3, <1>9, <3>2
    <3>4. h[l].i + 1 <= q[2]
      BY <1>1, <3>1, <3>2, <3>3, ZoomAssumption
    <3>5. QED
      BY <2>2, <2>3, <2>4, <3>4 DEF Seeing
  <2>5. l = "OneCompleted" /\ Ending /\ AllDone => Ending'
    BY <1>8, <2>2, <2>3 DEF Ending
  <2>6. QED
    BY <1>1, <1>2, <1>4, <2>2, <2>3, <2>4, <2>5, ReaderFollows
<1>10. CASE p \notin partError /\ h[l].i = Files
  <2>1. h' = [h EXCEPT ![l].to = least, ![l].pc = IF MustSave(l, least) THEN "status" ELSE "settle"]
    <3>1. ~(h[l].i < Files)
      BY <1>10, ZoomAssumption
    <3>2. QED
      BY <1>10, <3>1 DEF ReadPart, least
  <2>2. /\ Moved(l) /\ SameTask(l) /\ h'[l].ok = h[l].ok /\ h'[l].bad = h[l].bad
        /\ h'[l].pc = IF MustSave(l, least) THEN "status" ELSE "settle"
    BY <1>1, <1>7, <2>1 DEF ZoomTypes, Moved, SameTask, Handler, PC
  <2>3. Calm(l)' /\ Busy(l)'
    BY <1>1, <1>3, <2>2 DEF Calm, SameTask, Moved, Busy, Handler, Idle, PC
  <2>4. ASSUME l = "OneStatus", NEW q \in partError, Seeing(q) PROVE FALSE
    <3>1. h[l].i <= q[2]
      BY <1>1, <1>3, <2>4 DEF Seeing
    <3>2. q = <<1, q[2]>> /\ q[2] \in 1 .. Files
      BY <1>1, OneSet DEF ZoomTypes, Part, CalmInv, Followed
    <3>3. h[l].i # q[2]
      BY <1>3, <1>10, <3>2
    <3>4. QED
      BY <1>10, <3>1, <3>2, <3>3, ZoomAssumption
  <2>5. l = "OneCompleted" /\ Ending /\ AllDone => Ending'
    <3>1. SUFFICES ASSUME l = "OneCompleted", Ending, AllDone PROVE Ending'
      OBVIOUS
    <3>2. MustSave(l, least)
      BY <1>8, <3>1 DEF MustSave
    <3>3. QED
      BY <2>2, <2>3, <3>1, <3>2 DEF Ending
  <2>6. QED
    BY <1>1, <1>2, <1>4, <2>2, <2>3, <2>4, <2>5, ReaderFollows
<1>11. QED
  <2>1. h[l].i < Files \/ h[l].i = Files
    BY <1>1, ZoomAssumption
  <2>2. QED
    BY <1>5, <1>9, <1>10, <2>1
\* mergedAudio has marked the audio.
LEMMA SaveAudioReadyFollows ==
    ASSUME Faults = {}, CalmInv, ZoomInv', NEW l \in Listener, SaveAudioReady(l)
    PROVE  CalmInv'
<1>1. /\ h[l] \in Handler /\ Busy(l) /\ Calm(l) /\ ZoomTypes /\ h[l].pc = "audioReady"
      /\ l = "JoinAudio"
  BY CalmAt DEF SaveAudioReady, PC, Places, Listener, Work
<1>2. UNCHANGED <<up, faults, ready, work, dropped, error, related, partVars, told>> /\ Goto(l, "publish")
  BY NothingFails DEF SaveAudioReady, Succeeds
<1>3. Moved(l) /\ SameTask(l) /\ h'[l].pc = "publish" /\ h'[l].ok = h[l].ok
  BY <1>1, <1>2, GotoIs DEF PC
<1>4. Calm(l)'
  BY <1>1, <1>3 DEF Calm, SameTask
<1>5. QED
  BY <1>1, <1>2, <1>3, <1>4, StepFollows DEF partVars, SameEnds

\* A step of joinResults that does not end it.
LEMMA JoinFollows ==
    ASSUME CalmInv, ZoomInv', NEW pc \in PC \ {"work", "publish", "failed", "settle"}, Goto("JoinResults", pc),
           h["JoinResults"].pc \in PC \ {"publish", "failed"},
           UNCHANGED <<up, faults, ready, work, dropped, error, related, partVars, told>>
    PROVE  CalmInv'
<1> DEFINE l == "JoinResults"
<1>1. l \in Listener
  BY DEF Listener, Work
<1>2. h[l] \in Handler /\ Busy(l) /\ Calm(l) /\ ZoomTypes
  BY <1>1, CalmAt
<1>3. Moved(l) /\ SameTask(l) /\ h'[l].pc = pc /\ h'[l].ok = h[l].ok
  BY <1>1, <1>2, GotoIs
<1>4. Calm(l)'
  BY <1>2, <1>3 DEF Calm, SameTask
<1>5. QED
  BY <1>1, <1>2, <1>3, <1>4, StepFollows DEF partVars, SameEnds

\* joinResults goes on to the list of the files.
LEMMA SaveResultFollows ==
    ASSUME Faults = {}, CalmInv, ZoomInv', NEW l \in Listener, SaveResult(l)
    PROVE  CalmInv'
<1>1. l = "JoinResults" /\ h[l].pc = "result"
  BY JoinPlaces DEF SaveResult, CalmInv
<1>2. /\ UNCHANGED <<up, faults, ready, work, dropped, error, related, partVars, told>>
      /\ Goto(l, "available")
  BY NothingFails DEF SaveResult, FailsAndReturns, Succeeds
<1>3. QED
  BY <1>1, <1>2, JoinFollows DEF PC

\* joinResults goes on to the status.
LEMMA SaveAvailableFollows ==
    ASSUME Faults = {}, CalmInv, ZoomInv', NEW l \in Listener, SaveAvailable(l)
    PROVE  CalmInv'
<1>1. l = "JoinResults" /\ h[l].pc = "available"
  BY JoinPlaces DEF SaveAvailable, CalmInv
<1>2. /\ UNCHANGED <<up, faults, ready, work, dropped, error, related, partVars, told>>
      /\ Goto(l, "status")
  BY NothingFails DEF SaveAvailable, FailsAndReturns, Succeeds
<1>3. QED
  BY <1>1, <1>2, JoinFollows DEF PC

\* Saving a status unsets the error, which no part has then, or gotStatus sees
\* that one has when it is there again.
LEMMA SaveStatusFollows ==
    ASSUME Faults = {}, CalmInv, ZoomInv', NEW l \in Listener, SaveStatus(l)
    PROVE  CalmInv'
<1>1. /\ h[l] \in Handler /\ Busy(l) /\ Calm(l) /\ ZoomTypes /\ h[l].pc = "status"
      /\ l \in {"OneStatus", "OneCompleted", "JoinResults"}
  BY CalmAt DEF SaveStatus, PC, Places, Listener, Work
<1>2. /\ UNCHANGED <<up, faults, ready, work, dropped, related, partVars, told>>
      /\ error' = FALSE /\ Goto(l, "publish")
  BY NothingFails DEF SaveStatus, Succeeds
<1>3. Moved(l) /\ SameTask(l) /\ h'[l].pc = "publish" /\ h'[l].ok = h[l].ok /\ h'[l].bad = h[l].bad
  BY <1>1, <1>2, GotoIs DEF PC
<1>4. Calm(l)' /\ Busy(l)' /\ h[l].ok
  BY <1>1, <1>3 DEF Calm, SameTask, Moved, Busy, Handler, Idle, PC
<1>5. l # "OneStatus" => partError = {}
  BY <1>1, OneSet DEF CalmInv, ZoomInv, Reading, Joining
<1>6. l = "OneStatus" => \A p \in partError : ~Seeing(p) /\ ~Steady
  BY <1>1, <1>4 DEF Seeing, Steady
<1>7. l = "OneCompleted" => Ending'
  BY <1>1, <1>3, <1>4 DEF Ending, Calm
<1>8. QED
  BY <1>1, <1>2, <1>3, <1>4, <1>5, <1>6, <1>7, StepFollows DEF partVars, SameEnds

\* The error is saved, its handler goes on to tell the owner.
LEMMA SaveErrorFollows ==
    ASSUME Faults = {}, CalmInv, ZoomInv', NEW l \in Listener, SaveError(l)
    PROVE  CalmInv'
<1>1. /\ h[l] \in Handler /\ Busy(l) /\ Calm(l) /\ ZoomTypes /\ h[l].pc = "error" /\ h[l].bad
  BY CalmAt DEF SaveError, PC, Handles
<1>2. /\ UNCHANGED <<up, faults, ready, work, dropped, related, partVars, told>>
      /\ error' = TRUE /\ Goto(l, "publish")
  BY NothingFails DEF SaveError, FailsAndReturns, Succeeds
<1>3. Moved(l) /\ SameTask(l) /\ h'[l].pc = "publish" /\ h'[l].ok = h[l].ok /\ h'[l].bad = h[l].bad
  BY <1>1, <1>2, GotoIs DEF PC
<1>4. Calm(l)' /\ h[l].ok
  BY <1>1, <1>3 DEF Calm, SameTask
<1>5. l = "OneStatus" => Steady'
  BY <1>2, <1>3 DEF Steady
<1>6. l = "OneCompleted" => ~Ending
  BY <1>1, <1>4 DEF Ending
<1>7. QED
  BY <1>1, <1>2, <1>3, <1>4, <1>5, <1>6, StepFollows DEF partVars, SameEnds

\* After the status was published the owner is told, or the results are joined.
LEMMA PublishFollows ==
    ASSUME Faults = {}, CalmInv, ZoomInv', NEW l \in Listener, NEW out \in SendOutcome, Publish(l, out)
    PROVE  CalmInv'
<1>1. /\ h[l] \in Handler /\ Busy(l) /\ Calm(l) /\ ZoomTypes /\ h[l].pc = "publish"
  BY CalmAt DEF Publish, PC
<1>2. /\ UNCHANGED <<up, faults, ready, work, dropped, parentVars, partVars, told>>
      /\ Goto(l, AfterPublish(l))
  BY NothingFails DEF Publish
<1>3. /\ AfterPublish(l) \in {"failed", "join", "finished", "settle"}
      /\ h[l].bad => AfterPublish(l) = "failed"
      /\ ~h[l].bad /\ l = "OneCompleted" => AfterPublish(l) = "join"
      /\ ~h[l].bad /\ l = "JoinResults" => AfterPublish(l) = "finished"
  BY <1>1 DEF AfterPublish, Handler
<1>4. /\ Moved(l) /\ SameTask(l) /\ h'[l].pc = AfterPublish(l)
      /\ h'[l].ok = h[l].ok /\ h'[l].bad = h[l].bad
  <2>1. AfterPublish(l) \in PC
    BY <1>3 DEF PC
  <2>2. QED
    BY <1>1, <1>2, <2>1, GotoIs
<1>5. Calm(l)' /\ Busy(l)' /\ h[l].ok
  BY <1>1, <1>3, <1>4 DEF Calm, SameTask, Moved, Busy, Handler, Idle, PC
<1>6. l = "OneStatus" => \A p \in partError : Seeing(p) \/ Steady => Steady'
  BY <1>1, <1>2, <1>3, <1>4, <1>5 DEF Seeing, Steady, parentVars
<1>7. l = "OneCompleted" /\ Ending => Ending'
  BY <1>1, <1>3, <1>4, <1>5 DEF Ending
<1>8. l \in {"JoinResults", "DecodeMultiple"} => h'[l].pc # "settle"
  BY <1>1, <1>3, <1>4 DEF Calm, Handler
<1>9. QED
  BY <1>1, <1>2, <1>3, <1>4, <1>5, <1>6, <1>7, <1>8, StepFollows DEF parentVars, partVars, SameEnds

\* The owner is told of the failure.
LEMMA InformFailedFollows ==
    ASSUME Faults = {}, CalmInv, ZoomInv', NEW l \in Listener, NEW out \in SendOutcome, InformFailed(l, out)
    PROVE  CalmInv'
<1>1. /\ h[l] \in Handler /\ Busy(l) /\ Calm(l) /\ ZoomTypes /\ h[l].pc = "failed"
  BY CalmAt DEF InformFailed, PC
<1>2. /\ UNCHANGED <<up, faults, ready, work, dropped, parentVars, partVars>>
      /\ told' = told \cup {"Failed"} /\ Goto(l, "settle")
  BY NothingFails DEF InformFailed
<1>3. /\ Moved(l) /\ SameTask(l) /\ h'[l].pc = "settle" /\ h'[l].ok = h[l].ok
  BY <1>1, <1>2, GotoIs DEF PC
<1>4. Calm(l)' /\ h[l].ok
  BY <1>1, <1>3 DEF Calm, SameTask
<1>5. l = "OneStatus" => \A p \in partError : Seeing(p) \/ Steady => Steady'
  BY <1>1, <1>2, <1>3, <1>4 DEF Seeing, Steady, parentVars
<1>6. ToldEnd'
  BY <1>2 DEF ToldEnd
<1>7. QED
  BY <1>1, <1>2, <1>3, <1>4, <1>5, <1>6, StepFollows DEF parentVars, partVars, SameEnds

\* The results are to be joined.
LEMMA SendJoinResultsFollows ==
    ASSUME Faults = {}, CalmInv, ZoomInv', NEW l \in Listener, NEW out \in SendOutcome, SendJoinResults(l, out)
    PROVE  CalmInv'
<1>1. /\ h[l] \in Handler /\ Busy(l) /\ Calm(l) /\ ZoomTypes /\ h[l].pc = "join" /\ l = "OneCompleted"
  BY CalmAt DEF SendJoinResults, PC, Places, Listener, Work
<1>2. UNCHANGED <<up, faults, ready, dropped, parentVars, partVars, told>> /\ out = "sent"
  BY NothingFails DEF SendJoinResults
<1>3. Return(l, TRUE) /\ work' = [work EXCEPT !["JoinResults"] = @ + 1]
  BY <1>2 DEF SendJoinResults
<1>4. Moved(l) /\ SameTask(l) /\ h'[l].pc = "settle" /\ h'[l].ok = TRUE
  BY <1>1, <1>3, ReturnIs
<1>5. Calm(l)'
  BY <1>1, <1>4 DEF Calm, SameTask
<1>6. work'["JoinResults"] > 0
  BY <1>1, <1>3 DEF ZoomTypes, Work
<1>7. QED
  BY <1>1, <1>2, <1>4, <1>5, <1>6, StepFollows DEF parentVars, partVars, SameEnds

\* The owner is told of the end.
LEMMA InformFinishedFollows ==
    ASSUME Faults = {}, CalmInv, ZoomInv', NEW l \in Listener, NEW out \in SendOutcome, InformFinished(l, out)
    PROVE  CalmInv'
<1>1. l = "JoinResults" /\ h[l].pc = "finished"
  BY JoinPlaces DEF InformFinished, CalmInv
<1>2. h[l] \in Handler /\ Busy(l) /\ Calm(l) /\ ZoomTypes
  BY <1>1, CalmAt DEF PC
<1>3. UNCHANGED <<up, faults, ready, work, dropped, parentVars, partVars>> /\ out = "sent"
  BY NothingFails DEF InformFinished
<1>4. Return(l, TRUE) /\ told' = told \cup {"Finished"}
  BY <1>3 DEF InformFinished
<1>5. Moved(l) /\ SameTask(l) /\ h'[l].pc = "settle" /\ h'[l].ok = TRUE
  BY <1>2, <1>4, ReturnIs
<1>6. Calm(l)'
  BY <1>2, <1>5, <1>1 DEF Calm, SameTask
<1>7. ToldEnd'
  BY <1>4 DEF ToldEnd
<1>8. QED
  BY <1>1, <1>2, <1>3, <1>4, <1>5, <1>6, <1>7, StepFollows DEF parentVars, partVars, SameEnds
\* A handler that ends: what it returned an error for comes again or is discarded.
LEMMA SettleFollows ==
    ASSUME Faults = {}, CalmInv, ZoomInv', NEW l \in Listener, Settle(l)
    PROVE  CalmInv'
<1>1. h[l] \in Handler /\ Busy(l) /\ Calm(l) /\ ZoomTypes /\ h[l].pc = "settle"
  BY CalmAt DEF Settle, PC
<1>2. /\ UNCHANGED <<work, up, parentVars, partVars, attempts, told, faults>>
      /\ h' = [h EXCEPT ![l] = Idle]
      /\ dropped \subseteq dropped' /\ (MustDrop(l) => l \in dropped')
      /\ IF MustRequeue(l) THEN ready' = [ready EXCEPT ![HeldBy(l)] = @ + 1] ELSE UNCHANGED ready
  BY DEF Settle
<1>3. HeldBy(l) \in Msg /\ HeldBy(l).q = l
  BY <1>1 DEF HeldBy, Msg, Handler
<1>4. /\ \A m \in Msg : ready[m] > 0 => ready'[m] > 0
      /\ MustRequeue(l) => ready'[HeldBy(l)] > 0
  BY <1>1, <1>2, <1>3 DEF ZoomTypes
<1>5. h' \in [Listener -> Handler \cup {Idle}] /\ ~Busy(l)' /\ \A k \in Listener \ {l} : h'[k] = h[k]
  BY <1>1, <1>2 DEF ZoomTypes, Busy
<1>6. \A k \in Listener \ {l} : Busy(k)' <=> Busy(k)
  BY <1>5 DEF Busy
<1>7. ~h[l].ok => l \in {"OneStatus", "OneCompleted"} /\ (Pending(l)' \/ dropped' # {})
  <2>1. SUFFICES ASSUME ~h[l].ok PROVE l \in {"OneStatus", "OneCompleted"} /\ (Pending(l)' \/ dropped' # {})
    OBVIOUS
  <2>2. l \in {"OneStatus", "OneCompleted"} /\ up
    BY <1>1, <2>1 DEF Calm, CalmInv, Smooth
  <2>3. MustDrop(l) \/ MustRequeue(l)
    BY <2>1, <2>2 DEF MustDrop, MustRequeue
  <2>4. QED
    BY <1>2, <1>3, <1>4, <2>2, <2>3 DEF Pending
<1>8. \A q \in Listener : Pending(q) => Pending(q)'
  BY <1>4 DEF Pending
<1>9. Smooth'
  BY <1>2, <1>5, <1>6 DEF CalmInv, Smooth, Calm
<1>10. Telling => Telling'
  BY <1>1, <1>2, <1>5, <1>6 DEF Telling
<1>11. UNCHANGED <<error, related, partError, running>> /\ SameEnds
  BY <1>2 DEF parentVars, partVars, SameEnds
<1>12. \A p \in partError' : p \in running' /\ partStatus'[p] # Completed
  BY <1>2 DEF CalmInv, Followed, partVars
<1>13. ASSUME NEW p \in partError' PROVE FailSeen(p)'
  <2>1. FailSeen(p)
    BY <1>11, <1>13 DEF CalmInv, Followed
  <2>2. CASE l = "OneStatus"
    <3>1. Seeing(p) => Pending("OneStatus")' \/ dropped' # {}
      BY <1>1, <1>7, <2>2 DEF Seeing
    <3>2. Steady => Steady'
      BY <1>5, <1>11, <2>2 DEF Steady
    <3>3. QED
      BY <1>2, <1>8, <2>1, <3>1, <3>2 DEF FailSeen, Listener
  <2>3. CASE l # "OneStatus"
    <3>1. h'["OneStatus"] = h["OneStatus"] /\ (Busy("OneStatus")' <=> Busy("OneStatus"))
      BY <1>5, <1>6, <2>3 DEF Listener
    <3>2. QED
      BY <1>2, <1>8, <1>11, <2>1, <3>1 DEF FailSeen, Seeing, Steady, Listener
  <2>4. QED
    BY <2>2, <2>3
<1>14. ASSUME AllDone' PROVE EndSeen'
  <2>1. EndSeen
    BY <1>11, <1>14, SameDone DEF CalmInv, Followed
  <2>2. Ending => Ending' \/ Pending("OneCompleted")' \/ dropped' # {}
    <3>1. CASE l = "OneCompleted"
      BY <1>1, <1>7, <3>1 DEF Ending
    <3>2. CASE l # "OneCompleted"
      <4>1. h'["OneCompleted"] = h["OneCompleted"] /\ (Busy("OneCompleted")' <=> Busy("OneCompleted"))
        BY <1>5, <1>6, <3>2 DEF Listener
      <4>2. QED
        BY <4>1 DEF Ending
    <3>3. QED
      BY <3>1, <3>2
  <2>3. Busy("JoinResults") /\ h["JoinResults"].pc # "settle" =>
           Busy("JoinResults")' /\ h'["JoinResults"].pc # "settle"
    BY <1>1, <1>5, <1>6 DEF Listener, Work
  <2>4. ToldEnd => ToldEnd'
    BY <1>2 DEF ToldEnd
  <2>5. QED
    BY <1>2, <1>8, <1>10, <2>1, <2>2, <2>3, <2>4 DEF EndSeen, Listener, Work
<1>15. SplitSeen'
  <2>1. Busy("DecodeMultiple") /\ h["DecodeMultiple"].pc # "settle" =>
           Busy("DecodeMultiple")' /\ h'["DecodeMultiple"].pc # "settle"
    BY <1>1, <1>5, <1>6 DEF Listener
  <2>2. ToldEnd => ToldEnd'
    BY <1>2 DEF ToldEnd
  <2>3. "DecodeMultiple" \in Listener
    BY DEF Listener
  <2>4. QED
    BY <1>8, <1>11, <2>1, <2>2, <2>3 DEF CalmInv, Followed, SplitSeen
<1>16. error' => Telling'
  BY <1>10, <1>11 DEF CalmInv, Followed
<1>17. QED
  BY <1>9, <1>12, <1>13, <1>14, <1>15, <1>16 DEF CalmInv, Followed

\* A message that is taken is in the hands of its handler.
LEMMA TakeFollows ==
    ASSUME CalmInv, ZoomInv', NEW m \in Msg, Take(m)
    PROVE  CalmInv'
<1> DEFINE l == m.q
<1>1. /\ UNCHANGED <<work, up, parentVars, partVars, told, dropped, faults>>
      /\ ready[m] > 0 /\ ~Busy(l)
      /\ ready' = [ready EXCEPT ![m] = @ - 1]
      /\ h' = [h EXCEPT ![l] =
                  [err |-> m.err, redelivered |-> m.redelivered,
                   pc |-> Entry(m.q, m.err),
                   set |-> IF m.q = "DecodeMultiple" THEN attempts + 1 ELSE 0,
                   i |-> 1, seen |-> 0, to |-> Target(m.q),
                   bad |-> m.q = "JoinResults" /\ m.err,
                   ok |-> TRUE, again |-> TRUE]]
  BY DEF Take, Busy
<1>2. l \in Listener /\ m.err \in BOOLEAN /\ ZoomTypes
  BY DEF Msg, CalmInv, ZoomInv, Shape
<1>3. /\ l = "DecodeMultiple" => Entry(l, m.err) = "files"
      /\ l \in {"OneStatus", "OneCompleted"} => Entry(l, m.err) = "work"
      /\ l = "JoinAudio" => Entry(l, m.err) = "parent"
      /\ l = "JoinResults" => Entry(l, m.err) \in {"error", "result"}
  BY <1>2, EntryIs
<1>4. l = "DecodeMultiple" => attempts = 0
  BY <1>1, OneSet
<1>5. /\ h'[l].pc = Entry(l, m.err) /\ h'[l].ok = TRUE
      /\ h'[l].set = IF l = "DecodeMultiple" THEN 1 ELSE 0
      /\ l = "OneCompleted" => h'[l].to = JoinResults /\ h'[l].bad = FALSE
  <2>1. (IF l = "DecodeMultiple" THEN attempts + 1 ELSE 0) = IF l = "DecodeMultiple" THEN 1 ELSE 0
    BY <1>4
  <2>2. h \in [Listener -> Handler \cup {Idle}]
    BY <1>2 DEF ZoomTypes
  <2>3. l = "OneCompleted" => Target(l) = JoinResults /\ (l = "JoinResults" /\ m.err) = FALSE
    BY DEF Target
  <2>4. QED
    BY <1>1, <1>2, <2>1, <2>2, <2>3
<1>6. \A k \in Listener \ {l} : h'[k] = h[k] /\ (Busy(k)' <=> Busy(k))
  BY <1>1, <1>2 DEF ZoomTypes, Busy
<1>7. Busy(l)'
  <2>1. h'[l].pc \in PC
    BY <1>2, <1>3, <1>5 DEF PC, Listener, Work
  <2>2. h'[l] # Idle
    BY <2>1 DEF Idle, PC
  <2>3. QED
    BY <2>2 DEF Busy
<1>8. Calm(l)'
  BY <1>2, <1>3, <1>5 DEF Calm, Listener, Work
<1>9. \A q \in Listener \ {l} : Pending(q) => Pending(q)'
  BY <1>1, <1>2 DEF Pending, ZoomTypes
<1> HIDE DEF l
<1>10. Smooth'
  <2>1. \A k \in Listener \ {l} : Busy(k)' => Calm(k)'
    BY <1>6 DEF CalmInv, Smooth, Calm
  <2>2. QED
    BY <1>1, <1>8, <2>1 DEF CalmInv, Smooth
<1>11. Telling => Telling'
  BY <1>1, <1>6 DEF Telling
<1>12. UNCHANGED <<error, related, partError, running>> /\ SameEnds
  BY <1>1 DEF parentVars, partVars, SameEnds
<1>13. \A p \in partError' : p \in running' /\ partStatus'[p] # Completed
  BY <1>1 DEF CalmInv, Followed, partVars
<1>14. ASSUME NEW p \in partError' PROVE FailSeen(p)'
  <2>1. FailSeen(p)
    BY <1>12, <1>14 DEF CalmInv, Followed
  <2>2. CASE l = "OneStatus"
    BY <1>3, <1>5, <1>7, <2>2 DEF FailSeen, Seeing
  <2>3. CASE l # "OneStatus"
    <3>1. h'["OneStatus"] = h["OneStatus"] /\ (Busy("OneStatus")' <=> Busy("OneStatus"))
          /\ (Pending("OneStatus") => Pending("OneStatus")')
      BY <1>6, <1>9, <2>3 DEF Listener
    <3>2. QED
      BY <1>1, <1>12, <2>1, <3>1 DEF FailSeen, Seeing, Steady
  <2>4. QED
    BY <2>2, <2>3
<1>15. ASSUME AllDone' PROVE EndSeen'
  <2>1. EndSeen
    BY <1>12, <1>15, SameDone DEF CalmInv, Followed
  <2>2. CASE l = "OneCompleted"
    BY <1>3, <1>5, <1>7, <2>2 DEF EndSeen, Ending
  <2>3. CASE l = "JoinResults"
    BY <1>3, <1>5, <1>7, <2>3 DEF EndSeen
  <2>4. CASE l \notin {"OneCompleted", "JoinResults"}
    <3>1. /\ h'["OneCompleted"] = h["OneCompleted"] /\ (Busy("OneCompleted")' <=> Busy("OneCompleted"))
          /\ h'["JoinResults"] = h["JoinResults"] /\ (Busy("JoinResults")' <=> Busy("JoinResults"))
          /\ Pending("OneCompleted") => Pending("OneCompleted")'
          /\ Pending("JoinResults") => Pending("JoinResults")'
      BY <1>6, <1>9, <2>4 DEF Listener, Work
    <3>2. Ending => Ending'
      BY <3>1 DEF Ending
    <3>3. QED
      BY <1>1, <1>11, <2>1, <3>1, <3>2 DEF EndSeen, ToldEnd
  <2>5. QED
    BY <2>2, <2>3, <2>4
<1>16. SplitSeen'
  <2>1. CASE l = "DecodeMultiple"
    BY <1>3, <1>5, <1>7, <2>1 DEF SplitSeen
  <2>2. CASE l # "DecodeMultiple"
    <3>1. h'["DecodeMultiple"] = h["DecodeMultiple"] /\ (Busy("DecodeMultiple")' <=> Busy("DecodeMultiple"))
          /\ (Pending("DecodeMultiple") => Pending("DecodeMultiple")')
      BY <1>6, <1>9, <2>2 DEF Listener
    <3>2. QED
      BY <1>1, <1>12, <3>1 DEF CalmInv, Followed, SplitSeen, ToldEnd
  <2>3. QED
    BY <2>1, <2>2
<1>17. error' => Telling'
  BY <1>11, <1>12 DEF CalmInv, Followed
<1>18. QED
  BY <1>10, <1>13, <1>14, <1>15, <1>16, <1>17 DEF CalmInv, Followed

\* More messages and ended parts lose nothing.
LEMMA ArrivalFollows ==
    ASSUME CalmInv, ZoomInv', UNCHANGED <<h, up, faults, dropped, told, error, related, running>>,
           \A m \in Msg : ready[m] > 0 => ready'[m] > 0,
           work["JoinResults"] > 0 => work'["JoinResults"] > 0 \/ Pending("JoinResults")',
           \A p \in partError' : p \in running /\ partStatus'[p] # Completed,
           \A p \in partError' : p \in partError \/ Pending("OneStatus")',
           AllDone' => AllDone \/ Pending("OneCompleted")'
    PROVE  CalmInv'
<1>1. Smooth' /\ (Telling => Telling') /\ (ToldEnd => ToldEnd') /\ (Steady => Steady') /\ (Ending => Ending')
  BY DEF CalmInv, Smooth, Calm, Busy, Telling, ToldEnd, Steady, Ending
<1>2. \A q \in Listener : Pending(q) => Pending(q)'
  BY DEF Pending
<1>3. \A p \in partError' : FailSeen(p)'
  BY <1>1, <1>2 DEF CalmInv, Followed, FailSeen, Seeing, Busy, Listener
<1>4. AllDone' => EndSeen'
  BY <1>1, <1>2 DEF CalmInv, Followed, EndSeen, Busy, Listener, Work
<1>5. SplitSeen'
  BY <1>1, <1>2 DEF CalmInv, Followed, SplitSeen, Busy, Listener
<1>6. error' => Telling'
  BY <1>1 DEF CalmInv, Followed
<1>7. QED
  BY <1>1, <1>3, <1>4, <1>5, <1>6 DEF CalmInv, Followed
\* The work is done: its answer waits.
LEMMA WorkerFollows ==
    ASSUME Faults = {}, CalmInv, ZoomInv', NEW w \in Work, NEW err \in BOOLEAN, Worker(w, err)
    PROVE  CalmInv'
<1> DEFINE m == Message(w, err)
<1>1. /\ UNCHANGED <<h, up, parentVars, partVars, attempts, told, dropped, faults>>
      /\ ready' = [ready EXCEPT ![m] = @ + 1]
      /\ work' = [work EXCEPT ![w] = @ - 1]
  BY NothingFails DEF Worker
<1>2. ready \in [Msg -> Nat] /\ work \in [Work -> Nat]
  BY DEF CalmInv, ZoomInv, Shape, ZoomTypes
<1>3. m \in Msg /\ m.q = w
  BY DEF Message, Msg, Listener
<1>4. /\ ready' \in [Msg -> Nat] /\ ready'[m] = ready[m] + 1
      /\ \A n \in Msg \ {m} : ready'[n] = ready[n]
  BY <1>1, <1>2, <1>3, ArrivesIs
<1> HIDE DEF m
<1>5. ready'[m] > 0 /\ \A n \in Msg : ready[n] > 0 => ready'[n] > 0
  BY <1>2, <1>3, <1>4
<1>6. work["JoinResults"] > 0 => work'["JoinResults"] > 0 \/ Pending("JoinResults")'
  <2>1. CASE w = "JoinResults"
    BY <1>3, <1>5, <2>1 DEF Pending
  <2>2. CASE w # "JoinResults"
    BY <1>1, <1>2, <2>2 DEF Work
  <2>3. QED
    BY <2>1, <2>2
<1>7. UNCHANGED <<error, related, running, partError, partStatus>> /\ SameEnds
  BY <1>1 DEF parentVars, partVars, SameEnds
<1>8. AllDone' => AllDone
  BY <1>7, SameDone
<1>9. \A p \in partError' : p \in running /\ partStatus'[p] # Completed /\ p \in partError
  BY <1>7 DEF CalmInv, Followed
<1>10. QED
  BY <1>1, <1>5, <1>6, <1>7, <1>8, <1>9, ArrivalFollows

\* A part reaches a stage: it has neither failed nor is it completed.
LEMMA PartAdvancesFollows ==
    ASSUME CalmInv, ZoomInv', NEW p \in Part, NEW st \in PartStages[p[2]], PartAdvances(p, st)
    PROVE  CalmInv'
<1> DEFINE m == Message("OneStatus", FALSE)
<1>1. /\ UNCHANGED <<work, h, up, parentVars, partError, running, attempts, told, dropped, faults>>
      /\ p \notin partError /\ partStatus[p] # Completed
      /\ partStatus' = [partStatus EXCEPT ![p] = st]
      /\ ready' = [ready EXCEPT ![m] = @ + 1]
  BY DEF PartAdvances, Ended
<1>2. ready \in [Msg -> Nat] /\ partStatus \in [Part -> Status \ {JoinResults}]
  BY DEF CalmInv, ZoomInv, Shape, ZoomTypes
<1>3. m \in Msg
  BY DEF Message, Msg, Listener
<1> HIDE DEF m
<1>4. \A n \in Msg : ready[n] > 0 => ready'[n] > 0
  BY <1>1, <1>2, <1>3
<1>5. st # Completed
  BY StageIs
<1>6. SameEnds
  BY <1>1, <1>2, <1>5 DEF SameEnds
<1>7. AllDone' => AllDone
  BY <1>6, SameDone
<1>8. \A q \in partError' : q \in running /\ partStatus'[q] # Completed /\ q \in partError
  BY <1>1, <1>2 DEF CalmInv, Followed
<1>9. UNCHANGED <<error, related>>
  BY <1>1 DEF parentVars
<1>10. QED
  BY <1>1, <1>4, <1>7, <1>8, <1>9, ArrivalFollows

\* A part ends: both of its messages wait.
LEMMA PartEndsFollows ==
    ASSUME CalmInv, ZoomInv', NEW p \in Part, NEW err \in BOOLEAN, PartEnds(p, err)
    PROVE  CalmInv'
<1> DEFINE one == Message("OneStatus", FALSE)
           two == Message("OneCompleted", FALSE)
<1>1. /\ UNCHANGED <<work, h, up, parentVars, running, attempts, told, dropped, faults>>
      /\ p \in running /\ p \notin partError /\ partStatus[p] # Completed
      /\ IF err THEN partError' = partError \cup {p} /\ UNCHANGED partStatus
         ELSE partStatus' = [partStatus EXCEPT ![p] = Completed] /\ UNCHANGED partError
      /\ ready' = [ready EXCEPT ![one] = @ + 1, ![two] = @ + 1]
  BY DEF PartEnds, Ended
<1>2. ready \in [Msg -> Nat] /\ partStatus \in [Part -> Status \ {JoinResults}]
  BY DEF CalmInv, ZoomInv, Shape, ZoomTypes
<1>3. one \in Msg /\ one.q = "OneStatus" /\ two \in Msg /\ two.q = "OneCompleted" /\ one # two
  BY DEF Message, Msg, Listener
<1> HIDE DEF one, two
<1>4. /\ \A n \in Msg : ready[n] > 0 => ready'[n] > 0
      /\ ready'[one] > 0 /\ ready'[two] > 0
  BY <1>1, <1>2, <1>3
<1>5. Pending("OneStatus")' /\ Pending("OneCompleted")'
  BY <1>3, <1>4 DEF Pending
<1>6. ASSUME NEW q \in partError' PROVE q \in running /\ partStatus'[q] # Completed
  <2>1. \A k \in partError : k \in running /\ partStatus[k] # Completed
    BY DEF CalmInv, Followed
  <2>2. CASE err
    BY <1>1, <1>6, <2>1, <2>2
  <2>3. CASE ~err
    <3>1. q \in partError /\ q # p
      BY <1>1, <1>6, <2>3
    <3>2. q \in Part
      BY <3>1 DEF CalmInv, ZoomInv, Shape, ZoomTypes
    <3>3. partStatus'[q] = partStatus[q]
      BY <1>1, <1>2, <2>3, <3>1, <3>2
    <3>4. QED
      BY <2>1, <3>1, <3>3
  <2>4. QED
    BY <2>2, <2>3
<1>7. UNCHANGED <<error, related>>
  BY <1>1 DEF parentVars
<1>8. QED
  BY <1>1, <1>4, <1>5, <1>6, <1>7, ArrivalFollows

\* The invariant holds at the start.
LEMMA CalmStarts == Init => CalmInv
<1> SUFFICES ASSUME Init PROVE CalmInv
  OBVIOUS
<1>1. ZoomInv
  BY ZoomStarts
<1>2. \A l \in Listener : ~Busy(l)
  BY DEF Init, Busy
<1>3. Smooth
  BY <1>2 DEF Init, Smooth
<1>4. ~AllDone
  <2>1. \A p \in Part : partStatus[p] # Completed
    BY DEF Init, Completed
  <2>2. 1 \in 1 .. Files
    BY ZoomAssumption
  <2>3. QED
    BY <2>1, <2>2, PartsIs DEF AllDone, SetDone
<1>5. SplitSeen
  <2> DEFINE m == Message("DecodeMultiple", FALSE)
  <2>1. m \in Msg /\ m.q = "DecodeMultiple"
    BY DEF Message, Msg, Listener
  <2>2. ready[m] = 1
    BY <2>1 DEF Init
  <2> HIDE DEF m
  <2>3. QED
    BY <2>1, <2>2 DEF SplitSeen, Pending
<1>6. ~error /\ partError = {}
  BY DEF Init
<1>7. QED
  BY <1>1, <1>3, <1>4, <1>5, <1>6 DEF CalmInv, Followed

\* Each step of a handler keeps the invariant while nothing fails.
LEMMA HandleFollows ==
    ASSUME Faults = {}, CalmInv, NEW l \in Listener, Handle(l)
    PROVE  CalmInv'
<1>1. ZoomInv'
  BY HandleKeeps DEF CalmInv
<1>2. CASE ReadFiles(l) \/ RecordPart(l) \/ SaveWork(l) \/ ReadWork(l) \/ ReadParent(l)
  BY <1>1, <1>2, ReadFilesFollows, RecordPartFollows, SaveWorkFollows, ReadWorkFollows, ReadParentFollows
<1>3. CASE ReadPart(l) \/ SaveAudioReady(l) \/ SaveResult(l) \/ SaveAvailable(l)
  BY <1>1, <1>3, ReadPartFollows, SaveAudioReadyFollows, SaveResultFollows, SaveAvailableFollows
<1>4. CASE SaveStatus(l) \/ SaveError(l) \/ Settle(l)
  BY <1>1, <1>4, SaveStatusFollows, SaveErrorFollows, SettleFollows
<1>5. ~PartReadFails(l)
  BY NothingFails DEF PartReadFails
<1>6. ASSUME NEW out \in SendOutcome,
             InformStarted(l, out) \/ SendJoinAudio(l, out) \/ SendPart(l, out) \/ Publish(l, out)
      PROVE  CalmInv'
  BY <1>1, <1>6, InformStartedFollows, SendJoinAudioFollows, SendPartFollows, PublishFollows
<1>7. ASSUME NEW out \in SendOutcome,
             InformFailed(l, out) \/ SendJoinResults(l, out) \/ InformFinished(l, out)
      PROVE  CalmInv'
  BY <1>1, <1>7, InformFailedFollows, SendJoinResultsFollows, InformFinishedFollows
<1>8. QED
  BY <1>2, <1>3, <1>4, <1>5, <1>6, <1>7 DEF Handle

\* Each step keeps the invariant while nothing fails.
LEMMA CalmSteps == ASSUME Faults = {}, CalmInv, [Next]_vars PROVE CalmInv'
<1>1. ZoomInv'
  BY ZoomSteps DEF CalmInv
<1>2. ASSUME NEW m \in Msg, Take(m) PROVE CalmInv'
  BY <1>1, <1>2, TakeFollows
<1>3. ASSUME NEW l \in Listener, Handle(l) PROVE CalmInv'
  BY <1>3, HandleFollows
<1>4. ASSUME NEW w \in Work, NEW err \in BOOLEAN, Worker(w, err) PROVE CalmInv'
  BY <1>1, <1>4, WorkerFollows
<1>5. ASSUME NEW p \in Part, PartStep(p) PROVE CalmInv'
  BY <1>1, <1>5, PartAdvancesFollows, PartEndsFollows DEF PartStep
<1>6. ~Restart
  BY NothingFails DEF Restart, CalmInv, Smooth
<1>7. CASE UNCHANGED vars
  <2>1. UNCHANGED <<h, up, faults, dropped, told, error, related, running, ready, work, partError, partStatus>>
    BY <1>7 DEF vars, parentVars, partVars
  <2>2. AllDone' => AllDone
    BY <2>1 DEF AllDone, SetDone
  <2>3. \A p \in partError : p \in running /\ partStatus[p] # Completed
    BY DEF CalmInv, Followed
  <2>4. QED
    BY <1>1, <2>1, <2>2, <2>3, ArrivalFollows
<1>8. QED
  BY <1>2, <1>3, <1>4, <1>5, <1>6, <1>7 DEF Next

\* What nothing is left to do means for the invariant: all of it is done.
LEMMA QuietIs ==
    ASSUME CalmInv, Quiet, dropped = {}
    PROVE  /\ error => "Failed" \in told
           /\ \A p \in partError : error
           /\ ToldEnd
<1>1. /\ \A l \in Listener : ~Busy(l)
      /\ \A q \in Listener : ~Pending(q)
      /\ work["JoinResults"] = 0
  BY DEF Quiet, Pending, Work
<1>2. Telling => "Failed" \in told
  BY <1>1 DEF Telling
<1>3. \A p \in partError : error
  BY <1>1 DEF CalmInv, Followed, FailSeen, Seeing, Steady, Listener
<1>4. AllDone => ToldEnd
  BY <1>1, <1>2 DEF CalmInv, Followed, EndSeen, Ending, ToldEnd, Listener, Work
<1>5. ToldEnd \/ related # 0
  BY <1>1 DEF CalmInv, Followed, SplitSeen, Listener
<1>6. ASSUME related # 0 PROVE ToldEnd
  <2>1. related \in Attempt /\ Parts(related) \subseteq running
    BY <1>6 DEF CalmInv, ZoomInv, Shape, ZoomTypes, Starting, RelatedAreStarted
  <2>2. CASE \E p \in Parts(related) : p \in partError
    BY <1>2, <1>3, <2>2 DEF CalmInv, Followed, ToldEnd
  <2>3. CASE \A p \in Parts(related) : p \notin partError
    <3>1. \A p \in running : Ended(p)
      BY DEF Quiet
    <3>2. SetDone(related)
      BY <2>1, <2>3, <3>1 DEF Ended, SetDone
    <3>3. QED
      BY <1>4, <2>1, <3>2 DEF AllDone
  <2>4. QED
    BY <2>2, <2>3
<1>7. error => "Failed" \in told
  BY <1>2 DEF CalmInv, Followed
<1>8. QED
  BY <1>3, <1>5, <1>6, <1>7

\* While nothing fails CalmInv holds, so nothing of what it follows is lost.
THEOREM ZoomCalmInvariant == ASSUME Faults = {} PROVE Spec => []CalmInv
<1>1. CalmInv /\ [Next]_vars => CalmInv'
  BY CalmSteps
<1>2. QED
  BY <1>1, CalmStarts, PTL DEF Spec

\* When all is done the owner was told of the end, and of a failure when the
\* record shows one, in whatever order the messages of the parts were handled.
THEOREM ZoomOwnerIsTold == ASSUME Faults = {} PROVE Spec => []OwnerIsTold
<1>1. CalmInv => OwnerIsTold
  BY QuietIs DEF OwnerIsTold, ToldEnd
<1>2. QED
  BY <1>1, ZoomCalmInvariant, PTL

\* A failed part makes the parent fail for good: no handler that read the records
\* before saves its status last.
THEOREM ZoomPartFailureFails == ASSUME Faults = {} PROVE Spec => []PartFailureFails
<1>1. CalmInv => PartFailureFails
  BY QuietIs DEF PartFailureFails
<1>2. QED
  BY <1>1, ZoomCalmInvariant, PTL

\* Only the end of a handler discards a message.
LEMMA DropsAre == ASSUME Next PROVE UNCHANGED dropped \/ \E l \in Listener : Settle(l)
<1>1. ASSUME NEW l \in Listener, Handle(l) PROVE UNCHANGED dropped \/ Settle(l)
  <2>1. CASE ReadFiles(l) \/ RecordPart(l) \/ SaveWork(l) \/ ReadWork(l) \/ ReadParent(l)
    BY <2>1 DEF ReadFiles, RecordPart, SaveWork, ReadWork, ReadParent
  <2>2. CASE ReadPart(l) \/ PartReadFails(l)
    BY <2>2 DEF ReadPart, PartReadFails
  <2>3. CASE SaveAudioReady(l) \/ SaveResult(l) \/ SaveAvailable(l) \/ SaveStatus(l) \/ SaveError(l)
    BY <2>3 DEF SaveAudioReady, SaveResult, SaveAvailable, SaveStatus, SaveError
  <2>4. ASSUME NEW out \in SendOutcome,
               InformStarted(l, out) \/ SendJoinAudio(l, out) \/ SendPart(l, out) \/ Publish(l, out)
        PROVE  UNCHANGED dropped
    BY <2>4 DEF InformStarted, SendJoinAudio, SendPart, Publish
  <2>5. ASSUME NEW out \in SendOutcome,
               InformFailed(l, out) \/ SendJoinResults(l, out) \/ InformFinished(l, out)
        PROVE  UNCHANGED dropped
    BY <2>5 DEF InformFailed, SendJoinResults, InformFinished
  <2>6. QED
    BY <1>1, <2>1, <2>2, <2>3, <2>4, <2>5 DEF Handle
<1>2. ASSUME NEW m \in Msg, Take(m) PROVE UNCHANGED dropped
  BY <1>2 DEF Take
<1>3. ASSUME NEW w \in Work, NEW err \in BOOLEAN, Worker(w, err) PROVE UNCHANGED dropped
  BY <1>3 DEF Worker
<1>4. ASSUME NEW p \in Part, PartStep(p) PROVE UNCHANGED dropped
  BY <1>4 DEF PartStep, PartAdvances, PartEnds
<1>5. CASE Restart
  BY <1>5 DEF Restart
<1>6. QED
  BY <1>1, <1>2, <1>3, <1>4, <1>5 DEF Next

\* While nothing fails a message is discarded only when its handler came twice
\* before decode recorded the parts.
THEOREM ZoomOnlyEarlyIsDropped == ASSUME Faults = {} PROVE Spec => OnlyEarlyIsDropped
<1>1. CalmInv /\ [Next]_vars =>
        [\A l \in dropped' \ dropped :
            l \in {"OneStatus", "OneCompleted"} /\ h[l].set = 0]_vars
  <2>1. SUFFICES ASSUME CalmInv, Next, NEW q \in dropped' \ dropped
                 PROVE  q \in {"OneStatus", "OneCompleted"} /\ h[q].set = 0
    OBVIOUS
  <2>2. PICK l \in Listener : Settle(l)
    BY <2>1, DropsAre
  <2>3. q = l /\ MustDrop(l)
    <3>1. dropped' = IF MustDrop(l) THEN dropped \cup {l} ELSE dropped
      BY <2>2 DEF Settle
    <3>2. QED
      BY <2>1, <3>1
  <2>4. Calm(l) /\ ~h[l].ok
    <3>1. h[l].pc \in PC
      BY <2>2 DEF Settle, PC
    <3>2. QED
      BY <2>1, <2>3, <3>1, CalmAt DEF MustDrop
  <2>5. QED
    BY <2>3, <2>4 DEF Calm
<1>2. QED
  BY <1>1, ZoomCalmInvariant, PTL DEF Spec, OnlyEarlyIsDropped
=============================================================================
