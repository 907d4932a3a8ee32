---------------------------- MODULE ManagerProofs ----------------------------
(***************************************************************************)
(* What TLAPS proves of Manager, for every set of transcriptions, with any *)
(* tags, any number of faults of any kind and any number of listeners at   *)
(* work.                                                                   *)
(***************************************************************************)
EXTENDS Manager, FiniteSetTheorems, TLAPS

USE ManagerAssumption

(***************************************************************************)
(* The inductive invariants.                                               *)
(***************************************************************************)

\* Where a handler may be: only the last stage saves a result and tells that
\* it is finished, only a part has a parent, only an answer without an error
\* goes on, and an error to be returned is at the end of the handler.
Right(l) ==
    /\ l = "SplitChannels" => h[l].id \in Split
    /\ h[l].pc \in {"parent", "report", "reportFailed"} => h[l].id \in Child
    /\ h[l].pc \in {"result", "available", "report", "finished"} => l = "ResultMake"
    /\ h[l].pc \in {"started", "next"} => l # "ResultMake"
    /\ h[l].pc \in {"result", "available", "status", "started", "next", "report",
                    "finished"} => ~h[l].err
    /\ h[l].pc = "error" => h[l].err
    /\ ~h[l].ok => h[l].pc \in {"failed", "reportFailed", "settle"}

\* SplitChannels only sees transcriptions that are to be split.
SplitsOnly ==
    /\ \A m \in Msg : m.l = "SplitChannels" /\ ready[m] > 0 => m.id \in Split
    /\ \A id \in ID : work["SplitChannels"][id] > 0 => id \in Split

\* The handlers are where they can be, and the variables have their types.
Shape == /\ TypeOK
         /\ \A l \in Listener : Busy(l) => Right(l)
         /\ SplitsOnly

\* What a handler of the last stage has saved when it has come so far.
Saved(l) ==
    /\ h[l].pc = "available" => h[l].id \in result
    /\ /\ l = "ResultMake" /\ ~h[l].err
       /\ h[l].pc \in {"status", "topic", "parent", "report", "finished"}
       => h[l].id \in result /\ h[l].id \in available

\* The invariant of ResultBeforeCompleted.
Results == /\ Shape
           /\ \A l \in Listener : Busy(l) => Saved(l)
           /\ ResultBeforeCompleted

\* A handler that outlives its connection has its message in the queue again.
ZombieIsRequeued == ~up => \A l \in Listener : Busy(l) => ready[HeldBy(l)] > 0

\* Somebody has the transcription, or it needs nobody.
Accounted(id) == \/ Final(id) \/ id \in handed \/ id \in dropped
                 \/ Waiting(id) \/ \E l \in Listener : OnDuty(l, id)

\* The invariant of NoLostWork.
Kept == Shape /\ ZombieIsRequeued /\ NoLostWork

-----------------------------------------------------------------------------
(***************************************************************************)
(* Lemmas about the operators the handlers are built from.                 *)
(***************************************************************************)

\* A listener whose program counter is not idle has a handler's record, and its
\* message is one.
LEMMA BusyIs ==
    ASSUME TypeOK, NEW l \in Listener, Busy(l)
    PROVE  h[l] \in Handler /\ HeldBy(l) \in Msg
<1>1. h[l] \in Handler
  BY DEF TypeOK, Busy
<1>2. h[l].id \in ID /\ h[l].err \in BOOLEAN
  BY <1>1 DEF Handler
<1>3. QED
  BY <1>1, <1>2 DEF HeldBy, Msg

\* Likewise one whose program counter is that of a step.
LEMMA AtIs ==
    ASSUME TypeOK, NEW l \in Listener, h[l].pc \in PC
    PROVE  /\ Busy(l) /\ h[l] \in Handler /\ HeldBy(l) \in Msg
           /\ h[l].id \in ID /\ h[l].err \in BOOLEAN /\ h[l].noSpeech \in BOOLEAN
<1>1. Busy(l)
  BY DEF Busy, Idle, PC
<1>2. h[l] \in Handler /\ HeldBy(l) \in Msg
  BY <1>1, BusyIs
<1>3. QED
  BY <1>1, <1>2 DEF Handler

\* A step of a handler: no other one moves, and it stays at its message.
Moves(l) ==
    /\ h' \in [Listener -> Handler \cup {Idle}]
    /\ \A k \in Listener : k # l => h'[k] = h[k]
    /\ h[l] \in Handler /\ h'[l] \in Handler
    /\ h'[l].id = h[l].id /\ h'[l].err = h[l].err
    /\ h'[l].redelivered = h[l].redelivered /\ h'[l].noSpeech = h[l].noSpeech

\* The two ways a step of a handler ends.
LEMMA GotoMoves ==
    ASSUME TypeOK, NEW l \in Listener, Busy(l), NEW pc \in PC, Goto(l, pc)
    PROVE  Moves(l) /\ h'[l].pc = pc /\ h'[l].ok = h[l].ok
  BY BusyIs DEF TypeOK, Goto, Moves, Handler

LEMMA ReturnMoves ==
    ASSUME TypeOK, NEW l \in Listener, Busy(l), NEW ok \in BOOLEAN, Return(l, ok)
    PROVE  Moves(l) /\ h'[l].pc = "settle" /\ h'[l].ok = ok
  BY BusyIs DEF TypeOK, Return, Moves, Handler, PC

\* A publish only puts messages of busy listeners back, and counts a fault;
\* when the connection is lost by it, it puts back all of them.
LEMMA SendIs ==
    ASSUME TypeOK, NEW out, SendOver(out)
    PROVE  /\ ready' \in [Msg -> Nat] /\ up' \in BOOLEAN /\ faults' \in 0 .. MaxFaults
           /\ \A m \in Msg : ready'[m] >= ready[m]
           /\ \A m \in Msg : ready'[m] > 0 => ready[m] > 0 \/ Requeued(m)
           /\ up /\ ~up' => \A m \in Msg : Requeued(m) => ready'[m] > 0
           /\ up' => up
           /\ out = "failed" => ~up'
<1> USE DEF TypeOK
<1>1. CASE out = "sent"
  BY <1>1 DEF SendOver
<1>2. ASSUME out # "sent" PROVE faults' \in 0 .. MaxFaults /\ up' = FALSE
  BY <1>2 DEF SendOver, Fault
<1>3. CASE out # "sent" /\ up
  <2>1. ready' = [m \in Msg |-> IF Requeued(m) THEN ready[m] + 1 ELSE ready[m]]
    BY <1>3, Zenon DEF SendOver, Requeue
  <2>2. \A m \in Msg : ready[m] \in Nat
    OBVIOUS
  <2>3. ready' \in [Msg -> Nat]
    BY <2>1, <2>2
  <2>4. \A m \in Msg : /\ ready'[m] >= ready[m]
                       /\ ready'[m] > 0 => ready[m] > 0 \/ Requeued(m)
                       /\ Requeued(m) => ready'[m] > 0
    <3> SUFFICES ASSUME NEW m \in Msg
                 PROVE  /\ ready'[m] >= ready[m]
                        /\ ready'[m] > 0 => ready[m] > 0 \/ Requeued(m)
                        /\ Requeued(m) => ready'[m] > 0
      OBVIOUS
    <3>1. ready[m] \in Nat /\ ready'[m] = IF Requeued(m) THEN ready[m] + 1 ELSE ready[m]
      BY <2>1, <2>2
    <3>2. QED
      BY <3>1
  <2>5. QED
    BY <1>2, <1>3, <2>3, <2>4
<1>4. CASE out # "sent" /\ ~up
  <2>1. ready' = ready
    BY <1>4 DEF SendOver
  <2>2. \A m \in Msg : ready[m] \in Nat
    OBVIOUS
  <2>3. \A m \in Msg : ready'[m] >= ready[m]
    BY <2>1, <2>2
  <2>4. QED
    BY <1>2, <1>4, <2>1, <2>3
<1>5. QED
  BY <1>1, <1>3, <1>4

-----------------------------------------------------------------------------
(***************************************************************************)
(* Shape is inductive.  A step of a handler moves one listener; what is to *)
(* be shown of it is where it is then.                                     *)
(***************************************************************************)

\* A handler that has moved is where the code can bring it.
LEMMA MovesRight ==
    ASSUME Shape, NEW l \in Listener, Busy(l), Moves(l), Right(l)'
    PROVE  \A k \in Listener : Busy(k)' => Right(k)'
<1> SUFFICES ASSUME NEW k \in Listener, k # l, Busy(k)' PROVE Right(k)'
  OBVIOUS
<1>1. h'[k] = h[k]
  BY DEF Moves
<1>2. Busy(k)
  BY <1>1 DEF Busy, Idle
<1>3. QED
  BY <1>1, <1>2 DEF Shape, Right

\* Messages that are put back are those of handlers.
LEMMA RequeuedSplits ==
    ASSUME Shape,
           \A m \in Msg : ready'[m] > 0 => ready[m] > 0 \/ Requeued(m)
    PROVE  \A m \in Msg : m.l = "SplitChannels" /\ ready'[m] > 0 => m.id \in Split
<1> SUFFICES ASSUME NEW m \in Msg, m.l = "SplitChannels", Requeued(m)
             PROVE  m.id \in Split
  BY DEF Shape, SplitsOnly
<1>1. Busy(m.l) /\ m.l \in Listener /\ m.id = h[m.l].id
  BY DEF Requeued, HeldBy, Msg
<1>2. QED
  BY <1>1 DEF Shape, Right

\* Every step of a handler but the last moves one listener, to a place where
\* it may be.
HandlerStep(l) ==
    \/ SaveResult(l) \/ SaveAvailable(l) \/ SaveStatus(l) \/ SaveError(l)
    \/ \E out \in SendOutcome :
        \/ Publish(l, out) \/ InformStarted(l, out) \/ SendNext(l, out)
        \/ Report(l, out) \/ InformFinished(l, out) \/ InformFailed(l, out)

\* Every step of a handler moves only that one, to a place where it can be.
LEMMA HandlerMoves ==
    ASSUME Shape, NEW l \in Listener, HandlerStep(l)
    PROVE  Busy(l) /\ Moves(l) /\ Right(l)'
<1> USE DEF Shape
<1>1. CASE SaveResult(l)
  <2>1. h[l].pc = "result" /\ (Goto(l, "available") \/ Return(l, FALSE))
    BY <1>1 DEF SaveResult
  <2>2. QED
    BY <2>1, AtIs, GotoMoves, ReturnMoves DEF PC, Moves, Right
<1>2. CASE SaveAvailable(l)
  <2>1. h[l].pc = "available" /\ (Goto(l, "status") \/ Return(l, FALSE))
    BY <1>2 DEF SaveAvailable
  <2>2. QED
    BY <2>1, AtIs, GotoMoves, ReturnMoves DEF PC, Moves, Right
<1>3. CASE SaveError(l)
  <2>1. h[l].pc = "error" /\ (Goto(l, "topic") \/ Return(l, FALSE))
    BY <1>3 DEF SaveError
  <2>2. QED
    BY <2>1, AtIs, GotoMoves, ReturnMoves DEF PC, Moves, Right
<1>4. CASE SaveStatus(l)
  <2>1. h[l].pc = "status"
    BY <1>4 DEF SaveStatus
  <2>2. CASE Goto(l, "topic")
    BY <2>1, <2>2, AtIs, GotoMoves DEF PC, Moves, Right
  <2>3. CASE h' = [h EXCEPT ![l].pc = IF l = "Decode" THEN "settle" ELSE "failed",
                            ![l].ok = FALSE]
    <3>1. /\ Busy(l) /\ h[l] \in Handler /\ h \in [Listener -> Handler \cup {Idle}]
      BY <2>1, AtIs DEF PC, TypeOK
    <3>2. h'[l] = [h[l] EXCEPT !.pc = IF l = "Decode" THEN "settle" ELSE "failed",
                               !.ok = FALSE]
      BY <2>3, <3>1
    <3>3. /\ h'[l] \in Handler /\ h'[l].id = h[l].id /\ h'[l].err = h[l].err
          /\ h'[l].redelivered = h[l].redelivered /\ h'[l].noSpeech = h[l].noSpeech
          /\ h'[l].pc \in {"settle", "failed"}
      BY <3>1, <3>2 DEF Handler, PC
    <3>4. Moves(l)
      BY <2>3, <3>1, <3>3 DEF Moves
    <3>5. QED
      BY <3>1, <3>3, <3>4 DEF Right
  <2>4. QED
    BY <1>4, <2>2, <2>3 DEF SaveStatus
<1>5. ASSUME NEW out \in SendOutcome, Publish(l, out)
      PROVE  Busy(l) /\ Moves(l) /\ Right(l)'
  <2> DEFINE to == IF h[l].pc = "topic" /\ h[l].id \in Child THEN "parent"
                   ELSE AfterPublish(l, h[l].id, h[l].err)
  <2>1. h[l].pc \in {"topic", "parent"} /\ Goto(l, to)
    BY <1>5 DEF Publish
  <2>2. /\ to \in PC
        /\ to = "parent" => h[l].id \in Child
        /\ to \in {"started", "next"} => l # "ResultMake" /\ ~h[l].err
        /\ to = "report" => l = "ResultMake" /\ h[l].id \in Child /\ ~h[l].err
        /\ to = "finished" => l = "ResultMake" /\ ~h[l].err
        /\ to \in {"parent", "started", "next", "report", "finished", "failed"}
    BY <2>1, AtIs DEF AfterPublish, PC
  <2> HIDE DEF to
  <2>3. QED
    BY <2>1, <2>2, AtIs, GotoMoves DEF PC, Moves, Right
<1>6. ASSUME NEW out \in SendOutcome, InformStarted(l, out)
      PROVE  Busy(l) /\ Moves(l) /\ Right(l)'
  <2>1. h[l].pc = "started" /\ (Goto(l, "next") \/ Return(l, FALSE))
    BY <1>6 DEF InformStarted
  <2>2. QED
    BY <2>1, AtIs, GotoMoves, ReturnMoves DEF PC, Moves, Right
<1>7. ASSUME NEW out \in SendOutcome, SendNext(l, out)
      PROVE  Busy(l) /\ Moves(l) /\ Right(l)'
  <2>1. h[l].pc = "next" /\ (Return(l, TRUE) \/ Return(l, FALSE))
    BY <1>7 DEF SendNext
  <2>2. QED
    BY <2>1, AtIs, ReturnMoves DEF PC, Moves, Right
<1>8. ASSUME NEW out \in SendOutcome, Report(l, out)
      PROVE  Busy(l) /\ Moves(l) /\ Right(l)'
  <2>1. CASE h[l].pc = "report"
    BY <1>8, <2>1, AtIs, GotoMoves DEF Report, PC, Moves, Right
  <2>2. CASE h[l].pc = "reportFailed"
    BY <1>8, <2>2, AtIs, GotoMoves DEF Report, PC, Moves, Right
  <2>3. QED
    BY <1>8, <2>1, <2>2 DEF Report
<1>9. ASSUME NEW out \in SendOutcome, InformFinished(l, out)
      PROVE  Busy(l) /\ Moves(l) /\ Right(l)'
  <2>1. h[l].pc = "finished" /\ (Return(l, TRUE) \/ Return(l, FALSE))
    BY <1>9 DEF InformFinished
  <2>2. QED
    BY <2>1, AtIs, ReturnMoves DEF PC, Moves, Right
<1>10. ASSUME NEW out \in SendOutcome, InformFailed(l, out)
       PROVE  Busy(l) /\ Moves(l) /\ Right(l)'
  <2>1. h[l].pc = "failed"
    BY <1>10 DEF InformFailed
  <2>2. CASE h[l].id \in Child
    BY <1>10, <2>1, <2>2, AtIs, GotoMoves DEF InformFailed, PC, Moves, Right
  <2>3. CASE h[l].id \notin Child
    BY <1>10, <2>1, <2>3, AtIs, GotoMoves DEF InformFailed, PC, Moves, Right
  <2>4. QED
    BY <2>2, <2>3
<1>11. QED
  BY <1>1, <1>2, <1>3, <1>4, <1>5, <1>6, <1>7, <1>8, <1>9, <1>10 DEF HandlerStep

\* The status of the next stage is one, and only the last stage completes.
LEMMA NextStatusIs ==
    ASSUME NEW l \in Listener, NEW id \in ID, NEW noSpeech \in BOOLEAN
    PROVE  /\ NextStatus(l, id, noSpeech) \in Status
           /\ NextStatus(l, id, noSpeech) = Completed <=> l = "ResultMake"
           /\ NextStatus(l, id, noSpeech) # 0
<1>1. CASE l \in {"ResultMake", "SplitChannels"}
  BY <1>1 DEF NextStatus, Status, Completed, StatusOf
<1>2. CASE l \notin {"ResultMake", "SplitChannels"}
  <2>1. NextStatus(l, id, noSpeech) = StatusOf[NextStage(l, id, noSpeech)]
    BY <1>2 DEF NextStatus
  <2>2. NextStage(l, id, noSpeech) \in Stage
    BY <1>2 DEF Listener, Stage, NextStage
  <2>3. \A s \in Stage : StatusOf[s] \in 2 .. 7
    BY DEF Stage, StatusOf
  <2>4. QED
    BY <1>2, <2>1, <2>2, <2>3 DEF Status, Completed
<1>3. QED
  BY <1>1, <1>2

\* The steps that use the database keep the types.
LEMMA DbType ==
    ASSUME Shape, NEW l \in Listener,
           SaveResult(l) \/ SaveAvailable(l) \/ SaveStatus(l) \/ SaveError(l)
    PROVE  TypeOK' /\ SplitsOnly'
<1>1. Busy(l) /\ h[l].id \in ID /\ h[l].noSpeech \in BOOLEAN
  <2>1. HandlerStep(l)
    BY DEF HandlerStep
  <2>2. QED
    BY <2>1, HandlerMoves, BusyIs DEF Shape, Handler
<1>2. h' \in [Listener -> Handler \cup {Idle}]
  BY HandlerMoves DEF HandlerStep, Moves
<1>3. SplitsOnly' /\ UNCHANGED <<ready, work, up, told, reported, handed, dropped>>
  <2>1. UNCHANGED <<ready, work, up, told, reported, handed, dropped>>
    BY DEF SaveResult, SaveAvailable, SaveStatus, SaveError, sentVars
  <2>2. ready' = ready /\ work' = work
    BY <2>1
  <2>3. SplitsOnly'
    BY <2>2 DEF Shape, SplitsOnly
  <2>4. QED
    BY <2>1, <2>3
<1>4. faults' \in 0 .. MaxFaults
  <2>1. faults' = faults \/ Fault("db")
    BY DEF SaveResult, SaveAvailable, SaveStatus, SaveError, DbFault
  <2>2. QED
    BY <2>1 DEF Shape, TypeOK, Fault
<1>5. result' \subseteq ID /\ available' \subseteq ID
  BY <1>1 DEF Shape, TypeOK, SaveResult, SaveAvailable, SaveStatus, SaveError, DbFault,
              dbVars
<1>6. status' \in [ID -> Status]
  <2> DEFINE next == NextStatus(l, h[l].id, h[l].noSpeech)
  <2>1. status' = status \/ status' = [status EXCEPT ![h[l].id] = next]
    BY DEF SaveResult, SaveAvailable, SaveStatus, SaveError, DbFault, dbVars
  <2>2. next \in Status
    BY <1>1, NextStatusIs
  <2> HIDE DEF next
  <2>3. QED
    BY <2>1, <2>2 DEF Shape, TypeOK
<1>7. error' \in [ID -> BOOLEAN]
  BY <1>1, Zenon
     DEF Shape, TypeOK, SaveResult, SaveAvailable, SaveStatus, SaveError, DbFault, dbVars
<1>8. unpublished' \subseteq ID \X {"topic", "parent"}
  BY <1>1 DEF Shape, TypeOK, SaveResult, SaveAvailable, SaveStatus, SaveError, DbFault,
              sentVars, Unpublished, Audience
<1>9. dbFailed' \subseteq ID \X BOOLEAN
  <2>1. h[l].redelivered \in BOOLEAN
    BY <1>1, BusyIs DEF Shape, Handler
  <2>2. dbFailed' = dbFailed \/ dbFailed' = dbFailed \cup {<<h[l].id, h[l].redelivered>>}
    BY DEF SaveResult, SaveAvailable, SaveStatus, SaveError, DbFault
  <2>3. QED
    BY <1>1, <2>1, <2>2 DEF Shape, TypeOK
<1>10. QED
  BY <1>2, <1>3, <1>4, <1>5, <1>6, <1>7, <1>8, <1>9 DEF Shape, TypeOK

\* The steps that send keep the types.
LEMMA SendStepType ==
    ASSUME Shape, NEW l \in Listener, NEW out \in SendOutcome,
           \/ Publish(l, out) \/ InformStarted(l, out) \/ SendNext(l, out)
           \/ Report(l, out) \/ InformFinished(l, out) \/ InformFailed(l, out)
    PROVE  TypeOK' /\ SplitsOnly'
<1>1. Busy(l) /\ Moves(l) /\ h[l] \in Handler /\ h[l].id \in ID
  BY HandlerMoves DEF HandlerStep, Moves, Handler
<1>2. SendOver(out)
  BY DEF Publish, InformStarted, SendNext, Report, InformFinished, InformFailed
<1>3. /\ ready' \in [Msg -> Nat] /\ up' \in BOOLEAN /\ faults' \in 0 .. MaxFaults
      /\ \A m \in Msg : ready'[m] > 0 => ready[m] > 0 \/ Requeued(m)
  BY <1>2, SendIs DEF Shape
<1>4. \A m \in Msg : m.l = "SplitChannels" /\ ready'[m] > 0 => m.id \in Split
  BY <1>3, RequeuedSplits
<1>5. UNCHANGED <<dbVars, dropped>>
  BY DEF Publish, InformStarted, SendNext, Report, InformFinished, InformFailed
<1>6. unpublished' \subseteq ID \X {"topic", "parent"}
  BY DEF Shape, TypeOK, Publish, InformStarted, SendNext, Report, InformFinished,
         InformFailed
<1>7. told' \in [ID -> SUBSET {"Started", "Finished", "Failed"}]
  <2> DEFINE Type == {"Started", "Finished", "Failed"}
  <2>1. ASSUME NEW type \in Type, Inform(h[l].id, type)
        PROVE  told' \in [ID -> SUBSET Type]
    BY <1>1, <2>1 DEF Shape, TypeOK, Inform
  <2>2. CASE told' = told
    BY <2>2 DEF Shape, TypeOK
  <2>3. told' = told \/ \E type \in Type : Inform(h[l].id, type)
    BY Zenon
       DEF Publish, InformStarted, SendNext, Report, InformFinished, InformFailed
  <2>4. QED
    BY <2>1, <2>2, <2>3
<1>8. reported' \subseteq Child
  BY <1>1 DEF Shape, TypeOK, Right, Publish, InformStarted, SendNext, Report,
              InformFinished, InformFailed
<1>9. /\ work' \in [Stage -> [ID -> Nat]] /\ handed' \subseteq Split
      /\ \A id \in ID : work'["SplitChannels"][id] > 0 => id \in Split
  <2> DEFINE id == h[l].id
             to == NextStage(l, id, h[l].noSpeech)
  <2>1. CASE ~SendNext(l, out) \/ out = "failed"
    BY <2>1 DEF Shape, TypeOK, SplitsOnly, Publish, InformStarted, SendNext, Report,
                InformFinished, InformFailed
  <2>2. CASE SendNext(l, out) /\ out # "failed"
    <3>1. l # "ResultMake" /\ (l = "SplitChannels" => id \in Split)
      BY <1>1, <2>2 DEF Shape, Right, SendNext
    <3>2. to = "SplitChannels" => id \in Split
      BY <3>1 DEF NextStage, Listener, Stage
    <3>3. to \notin Stage => id \in Split
      BY <3>1 DEF NextStage, Listener, Stage
    <3> HIDE DEF to
    <3>4. CASE to \in Stage
      <4>1. work' = [work EXCEPT ![to][id] = @ + 1] /\ handed' = handed
        BY <2>2, <3>4 DEF SendNext, to
      <4>2. "SplitChannels" \in Stage
        BY DEF Stage
      <4>3. QED
        BY <1>1, <3>2, <3>4, <4>1, <4>2 DEF Shape, TypeOK, SplitsOnly
    <3>5. CASE to \notin Stage
      <4>1. work' = work /\ handed' = handed \cup {id}
        BY <2>2, <3>5 DEF SendNext, to
      <4>2. QED
        BY <3>3, <3>5, <4>1 DEF Shape, TypeOK, SplitsOnly
    <3>6. QED
      BY <3>4, <3>5
  <2>3. QED
    BY <2>1, <2>2
<1>10. QED
  BY <1>1, <1>3, <1>4, <1>5, <1>6, <1>7, <1>8, <1>9
     DEF Shape, TypeOK, SplitsOnly, Moves, dbVars

\* The rest: a message arrives, is taken or settled, and the restart.
LEMMA ArriveShape ==
    ASSUME Shape, NEW m \in Msg, m.l = "SplitChannels" => m.id \in Split,
           ready' = [ready EXCEPT ![m] = @ + 1]
    PROVE  /\ ready' \in [Msg -> Nat]
           /\ \A n \in Msg : n.l = "SplitChannels" /\ ready'[n] > 0 => n.id \in Split
<1>1. ready' \in [Msg -> Nat]
  BY DEF Shape, TypeOK
<1>2. \A n \in Msg : n # m => ready'[n] = ready[n]
  BY DEF Shape, TypeOK
<1>3. QED
  BY <1>1, <1>2 DEF Shape, SplitsOnly

\* The upload and the workers.
LEMMA EnvironmentShape ==
    ASSUME Shape,
           \/ \E id \in ID : Upload(id)
           \/ \E s \in Stage, id \in ID, err \in BOOLEAN : Worker(s, id, err)
    PROVE  Shape'
<1>1. ASSUME NEW id \in ID, Upload(id) PROVE Shape'
  <2> DEFINE m == [l |-> "Decode", id |-> id, err |-> FALSE, redelivered |-> FALSE]
  <2>1. m \in Msg /\ m.l = "Decode"
    BY DEF Msg, Listener
  <2>2. ready' = [ready EXCEPT ![m] = @ + 1]
    BY <1>1 DEF Upload
  <2>3. status' \in [ID -> Status]
    BY <1>1 DEF Upload, Shape, TypeOK, Status, Uploaded
  <2> HIDE DEF m
  <2>4. /\ ready' \in [Msg -> Nat]
        /\ \A n \in Msg : n.l = "SplitChannels" /\ ready'[n] > 0 => n.id \in Split
    BY <2>1, <2>2, ArriveShape
  <2>5. /\ work' = work /\ h' = h /\ up' = up /\ error' = error /\ result' = result
        /\ available' = available /\ unpublished' = unpublished /\ told' = told
        /\ reported' = reported /\ handed' = handed /\ dropped' = dropped
        /\ dbFailed' = dbFailed /\ faults' = faults
    BY <1>1 DEF Upload, sentVars
  <2>6. TypeOK'
    BY <2>3, <2>4, <2>5 DEF Shape, TypeOK
  <2>7. \A l \in Listener : Busy(l)' => Right(l)'
    BY <2>5 DEF Shape, Busy, Right
  <2>8. QED
    BY <2>4, <2>5, <2>6, <2>7 DEF Shape, SplitsOnly
<1>2. ASSUME NEW s \in Stage, NEW id \in ID, NEW err \in BOOLEAN, Worker(s, id, err)
      PROVE  Shape'
  <2> DEFINE m == [l |-> s, id |-> id, err |-> err, redelivered |-> FALSE]
  <2>1. m \in Msg /\ m.l = s /\ m.id = id
    BY DEF Msg, Listener
  <2>2. ready' = [ready EXCEPT ![m] = @ + 1]
    BY <1>2 DEF Worker
  <2>3. s = "SplitChannels" => id \in Split
    BY <1>2 DEF Worker, Shape, SplitsOnly
  <2> HIDE DEF m
  <2>4. /\ ready' \in [Msg -> Nat]
        /\ \A n \in Msg : n.l = "SplitChannels" /\ ready'[n] > 0 => n.id \in Split
    BY <2>1, <2>2, <2>3, ArriveShape
  <2>5. /\ h' = h /\ up' = up /\ status' = status /\ error' = error /\ result' = result
        /\ available' = available /\ unpublished' = unpublished /\ told' = told
        /\ reported' = reported /\ handed' = handed /\ dropped' = dropped
        /\ dbFailed' = dbFailed
    BY <1>2 DEF Worker, dbVars, sentVars
  <2>6. faults' \in 0 .. MaxFaults
    BY <1>2 DEF Worker, Fault, Shape, TypeOK
  <2>7. /\ work' \in [Stage -> [ID -> Nat]]
        /\ \A i \in ID : work'["SplitChannels"][i] > 0 => i \in Split
    <3>1. CASE work' = work
      BY <3>1 DEF Shape, TypeOK, SplitsOnly
    <3>2. CASE work' = [work EXCEPT ![s][id] = @ - 1]
      <4>1. work[s][id] \in Nat /\ work[s][id] > 0 /\ "SplitChannels" \in Stage
        BY <1>2 DEF Worker, Shape, TypeOK, Stage
      <4>2. QED
        BY <3>2, <4>1 DEF Shape, TypeOK, SplitsOnly
    <3>3. QED
      BY <1>2, <3>1, <3>2 DEF Worker
  <2>8. TypeOK'
    BY <2>4, <2>5, <2>6, <2>7 DEF Shape, TypeOK
  <2>9. \A l \in Listener : Busy(l)' => Right(l)'
    BY <2>5 DEF Shape, Busy, Right
  <2>10. QED
    BY <2>4, <2>7, <2>8, <2>9 DEF Shape, SplitsOnly
<1>3. QED
  BY <1>1, <1>2

\* A message is taken.
LEMMA TakeShape ==
    ASSUME Shape, NEW m \in Msg, NEW noSpeech \in BOOLEAN, Take(m, noSpeech)
    PROVE  Shape'
<1> DEFINE r == [id |-> m.id, err |-> m.err, redelivered |-> m.redelivered,
                 noSpeech |-> noSpeech, pc |-> Entry(m.l, m.err), ok |-> TRUE]
<1>1. /\ m.l \in Listener /\ m.id \in ID /\ m.err \in BOOLEAN
      /\ m.redelivered \in BOOLEAN /\ ready[m] \in Nat /\ ready[m] > 0
  BY DEF Msg, Take, Shape, TypeOK
<1>2. /\ Entry(m.l, m.err) \in {"error", "result", "status"}
      /\ Entry(m.l, m.err) = "result" => m.l = "ResultMake"
      /\ Entry(m.l, m.err) = "error" <=> m.err
  BY <1>1 DEF Entry
<1>3. r \in Handler
  BY <1>1, <1>2 DEF Handler, PC
<1>4. h' = [h EXCEPT ![m.l] = r] /\ ready' = [ready EXCEPT ![m] = @ - 1]
  BY DEF Take
<1>5. /\ r.id = m.id /\ r.err = m.err /\ r.pc = Entry(m.l, m.err) /\ r.ok
  OBVIOUS
<1> HIDE DEF r
<1>6. /\ h' \in [Listener -> Handler \cup {Idle}] /\ h'[m.l] = r
      /\ \A k \in Listener : k # m.l => h'[k] = h[k]
  BY <1>1, <1>3, <1>4 DEF Shape, TypeOK
<1>7. /\ ready' \in [Msg -> Nat]
      /\ \A n \in Msg : ready'[n] > 0 => ready[n] > 0
  BY <1>1, <1>4 DEF Shape, TypeOK
<1>8. /\ work' = work /\ up' = up /\ status' = status /\ error' = error
      /\ result' = result /\ available' = available /\ unpublished' = unpublished
      /\ told' = told /\ reported' = reported /\ handed' = handed
      /\ dropped' = dropped /\ dbFailed' = dbFailed /\ faults' = faults
  BY DEF Take, dbVars, sentVars
<1>9. TypeOK'
  BY <1>6, <1>7, <1>8 DEF Shape, TypeOK
<1>10. SplitsOnly'
  BY <1>7, <1>8 DEF Shape, SplitsOnly
<1>11. Right(m.l)'
  BY <1>1, <1>2, <1>5, <1>6 DEF Shape, SplitsOnly, Right
<1>12. ASSUME NEW k \in Listener, k # m.l, Busy(k)' PROVE Right(k)'
  BY <1>6, <1>12 DEF Shape, Busy, Idle, Right
<1>13. QED
  BY <1>9, <1>10, <1>11, <1>12 DEF Shape

\* A handler returns.
LEMMA SettleShape ==
    ASSUME Shape, NEW l \in Listener, Settle(l)
    PROVE  Shape'
<1>1. Busy(l) /\ HeldBy(l) \in Msg /\ h[l].id \in ID
  BY AtIs DEF Settle, Shape, PC
<1>2. /\ h' \in [Listener -> Handler \cup {Idle}] /\ h'[l] = Idle
      /\ \A k \in Listener : k # l => h'[k] = h[k]
  BY DEF Settle, Shape, TypeOK
<1>3. HeldBy(l).l = l /\ HeldBy(l).id = h[l].id
  BY DEF HeldBy
<1>4. /\ ready' \in [Msg -> Nat]
      /\ \A n \in Msg : n.l = "SplitChannels" /\ ready'[n] > 0 => n.id \in Split
  <2>1. CASE MustRequeue(l)
    <3>1. ready' = [ready EXCEPT ![HeldBy(l)] = @ + 1]
      BY <2>1 DEF Settle
    <3>2. l = "SplitChannels" => h[l].id \in Split
      BY <1>1 DEF Shape, Right
    <3>3. QED
      BY <1>1, <1>3, <3>1, <3>2, ArriveShape
  <2>2. CASE ~MustRequeue(l)
    <3>1. ready' = ready
      BY <2>2 DEF Settle
    <3>2. QED
      BY <3>1 DEF Shape, TypeOK, SplitsOnly
  <2>3. QED
    BY <2>1, <2>2
<1>5. /\ work' = work /\ up' = up /\ status' = status /\ error' = error
      /\ result' = result /\ available' = available /\ unpublished' = unpublished
      /\ told' = told /\ reported' = reported /\ handed' = handed
      /\ dbFailed' = dbFailed /\ faults' = faults
  BY DEF Settle, dbVars, sentVars
<1>6. dropped' \subseteq ID
  BY <1>1 DEF Settle, Shape, TypeOK
<1>7. TypeOK'
  BY <1>2, <1>4, <1>5, <1>6 DEF Shape, TypeOK
<1>8. ASSUME NEW k \in Listener, Busy(k)' PROVE Right(k)'
  BY <1>2, <1>8 DEF Shape, Busy, Idle, Right
<1>9. QED
  BY <1>4, <1>5, <1>7, <1>8 DEF Shape, SplitsOnly

\* The messages after a restart are those before, and what was put back.
LEMMA RestartIs ==
    ASSUME TypeOK, Restart
    PROVE  /\ ready' \in [Msg -> Nat] /\ faults' \in 0 .. MaxFaults
           /\ \A m \in Msg : ready'[m] >= ready[m]
           /\ \A m \in Msg : ready'[m] > 0 => ready[m] > 0 \/ Requeued(m)
           /\ up => \A m \in Msg : Requeued(m) => ready'[m] > 0
<1>1. CASE up
  <2>1. /\ ready' = [m \in Msg |-> IF Requeued(m) THEN ready[m] + 1 ELSE ready[m]]
        /\ Fault("crash")
    BY <1>1, Zenon DEF Restart, Requeue
  <2>2. \A m \in Msg : ready[m] \in Nat
    BY DEF TypeOK
  <2>3. ready' \in [Msg -> Nat]
    BY <2>1, <2>2
  <2>4. \A m \in Msg : /\ ready'[m] >= ready[m]
                       /\ ready'[m] > 0 => ready[m] > 0 \/ Requeued(m)
                       /\ Requeued(m) => ready'[m] > 0
    <3> SUFFICES ASSUME NEW m \in Msg
                 PROVE  /\ ready'[m] >= ready[m]
                        /\ ready'[m] > 0 => ready[m] > 0 \/ Requeued(m)
                        /\ Requeued(m) => ready'[m] > 0
      OBVIOUS
    <3>1. ready[m] \in Nat /\ ready'[m] = IF Requeued(m) THEN ready[m] + 1 ELSE ready[m]
      BY <2>1, <2>2
    <3>2. QED
      BY <3>1
  <2>5. QED
    BY <2>1, <2>3, <2>4 DEF Fault, TypeOK
<1>2. CASE ~up
  <2>1. ready' = ready /\ faults' = faults
    BY <1>2 DEF Restart
  <2>2. \A m \in Msg : ready[m] \in Nat
    BY DEF TypeOK
  <2>3. QED
    BY <1>2, <2>1, <2>2 DEF TypeOK
<1>3. QED
  BY <1>1, <1>2 DEF TypeOK

\* The restart.
LEMMA RestartShape ==
    ASSUME Shape, Restart
    PROVE  Shape'
<1>1. /\ ready' \in [Msg -> Nat] /\ faults' \in 0 .. MaxFaults
      /\ \A m \in Msg : m.l = "SplitChannels" /\ ready'[m] > 0 => m.id \in Split
  BY RestartIs, RequeuedSplits DEF Shape
<1>2. h' = [l \in Listener |-> Idle] /\ up' = TRUE
  BY DEF Restart
<1>3. /\ work' = work /\ status' = status /\ error' = error
      /\ result' = result /\ available' = available /\ unpublished' = unpublished
      /\ told' = told /\ reported' = reported /\ handed' = handed
      /\ dropped' = dropped /\ dbFailed' = dbFailed
  BY DEF Restart, dbVars, sentVars
<1>4. TypeOK'
  BY <1>1, <1>2, <1>3 DEF Shape, TypeOK
<1>5. \A l \in Listener : ~Busy(l)'
  BY <1>2 DEF Busy
<1>6. QED
  BY <1>1, <1>3, <1>4, <1>5 DEF Shape, SplitsOnly

\* The initial state.
LEMMA ShapeInit == Init => Shape
<1> SUFFICES ASSUME Init PROVE Shape
  OBVIOUS
<1>1. TypeOK
  BY DEF Init, TypeOK, Status
<1>2. \A l \in Listener : ~Busy(l)
  BY DEF Init, Busy
<1>3. SplitsOnly
  BY DEF Init, SplitsOnly, Stage
<1>4. QED
  BY <1>1, <1>2, <1>3 DEF Shape

\* Every step of the manager.
LEMMA ShapeStep == Shape /\ [Next]_vars => Shape'
<1> SUFFICES ASSUME Shape, [Next]_vars PROVE Shape'
  OBVIOUS
<1>1. ASSUME NEW l \in Listener, HandlerStep(l) PROVE Shape'
  <2>1. \A k \in Listener : Busy(k)' => Right(k)'
    BY <1>1, HandlerMoves, MovesRight
  <2>2. TypeOK' /\ SplitsOnly'
    BY <1>1, DbType, SendStepType DEF HandlerStep
  <2>3. QED
    BY <2>1, <2>2 DEF Shape
<1>2. ASSUME NEW l \in Listener, Handle(l) PROVE Shape'
  BY <1>1, <1>2, SettleShape DEF Handle, HandlerStep
<1>3. CASE UNCHANGED vars
  <2>1. /\ ready' = ready /\ work' = work /\ h' = h /\ up' = up /\ status' = status
        /\ error' = error /\ result' = result /\ available' = available
        /\ unpublished' = unpublished /\ told' = told /\ reported' = reported
        /\ handed' = handed /\ dropped' = dropped /\ dbFailed' = dbFailed
        /\ faults' = faults
    BY <1>3 DEF vars, dbVars, sentVars
  <2>2. TypeOK' /\ SplitsOnly'
    BY <2>1 DEF Shape, TypeOK, SplitsOnly
  <2>3. \A l \in Listener : Busy(l)' => Right(l)'
    BY <2>1 DEF Shape, Busy, Right
  <2>4. QED
    BY <2>2, <2>3 DEF Shape
<1>4. QED
  BY <1>2, <1>3, EnvironmentShape, TakeShape, RestartShape DEF Next

\* Every handler is where the code can bring it: the inductive form of TypeOK.
THEOREM ShapeInvariant == Spec => []Shape
  BY ShapeInit, ShapeStep, PTL DEF Spec

\* The variables of the manager have the values the program gives them, for any
\* transcriptions and any faults; that only parts report to a parent and only
\* split transcriptions are handed on is part of it.
THEOREM ManagerTypeCorrect == Spec => []TypeOK
<1>1. Shape => TypeOK
  BY DEF Shape
<1>2. QED
  BY <1>1, ShapeInvariant, PTL
-----------------------------------------------------------------------------
(***************************************************************************)
(* The result is there before anything says so.                            *)
(***************************************************************************)

LEMMA HandlerSaves ==
    ASSUME Results, NEW l \in Listener, HandlerStep(l)
    PROVE  Saved(l)'
<1>1. Shape /\ Busy(l) /\ Moves(l) /\ Right(l) /\ Saved(l) /\ Right(l)'
  BY HandlerMoves DEF Results, Shape
<1>2. CASE SaveResult(l)
  <2>1. CASE Goto(l, "available") /\ result' = result \cup {h[l].id}
    BY <1>1, <2>1, GotoMoves DEF Shape, PC, Moves, Saved
  <2>2. CASE Return(l, FALSE)
    BY <1>1, <2>2, ReturnMoves DEF Shape, Saved
  <2>3. QED
    BY <1>2, <2>1, <2>2 DEF SaveResult
<1>3. CASE SaveAvailable(l)
  <2>1. CASE Goto(l, "status") /\ available' = available \cup {h[l].id} /\ result' = result
    BY <1>1, <1>3, <2>1, GotoMoves DEF SaveAvailable, Shape, PC, Moves, Saved
  <2>2. CASE Return(l, FALSE)
    BY <1>1, <2>2, ReturnMoves DEF Shape, Saved
  <2>3. QED
    BY <1>3, <2>1, <2>2 DEF SaveAvailable
<1>4. CASE SaveError(l)
  <2>1. CASE Goto(l, "topic")
    BY <1>1, <1>4, <2>1, GotoMoves DEF SaveError, Shape, PC, Moves, Right, Saved
  <2>2. CASE Return(l, FALSE)
    BY <1>1, <2>2, ReturnMoves DEF Shape, Saved
  <2>3. QED
    BY <1>4, <2>1, <2>2 DEF SaveError
<1>5. CASE SaveStatus(l)
  <2>1. result' = result /\ available' = available
    BY <1>5 DEF SaveStatus, DbFault, dbVars
  <2>2. CASE Goto(l, "topic")
    BY <1>1, <1>5, <2>1, <2>2, GotoMoves DEF SaveStatus, Shape, PC, Moves, Saved
  <2>3. CASE h' = [h EXCEPT ![l].pc = IF l = "Decode" THEN "settle" ELSE "failed",
                            ![l].ok = FALSE]
    <3>1. h[l] \in Handler /\ h \in [Listener -> Handler \cup {Idle}]
      BY <1>1 DEF Moves, Shape, TypeOK
    <3>2. h'[l] = [h[l] EXCEPT !.pc = IF l = "Decode" THEN "settle" ELSE "failed",
                               !.ok = FALSE]
      BY <2>3, <3>1
    <3>3. h'[l].pc \in {"settle", "failed"}
      BY <3>1, <3>2 DEF Handler
    <3>4. QED
      BY <3>3 DEF Saved
  <2>4. QED
    BY <1>5, <2>2, <2>3 DEF SaveStatus
<1>6. ASSUME NEW out \in SendOutcome, Publish(l, out) PROVE Saved(l)'
  <2>1. result' = result /\ available' = available /\ h[l].pc \in {"topic", "parent"}
    BY <1>6 DEF Publish, dbVars
  <2>2. h'[l].pc # "available"
    <3> DEFINE to == IF h[l].pc = "topic" /\ h[l].id \in Child THEN "parent"
                     ELSE AfterPublish(l, h[l].id, h[l].err)
    <3>1. to \in PC /\ to # "available"
      BY <1>1, BusyIs DEF Shape, Handler, AfterPublish, PC
    <3>2. Goto(l, to)
      BY <1>6 DEF Publish
    <3> HIDE DEF to
    <3>3. QED
      BY <1>1, <3>1, <3>2, GotoMoves DEF Shape
  <2>3. QED
    BY <1>1, <2>1, <2>2 DEF Moves, Saved
<1>7. ASSUME NEW out \in SendOutcome, Report(l, out) PROVE Saved(l)'
  <2>1. result' = result /\ available' = available
    BY <1>7 DEF Report, dbVars
  <2>2. CASE h[l].pc = "report"
    <3>1. Goto(l, "finished")
      BY <1>7, <2>2 DEF Report
    <3>2. QED
      BY <1>1, <2>1, <2>2, <3>1, GotoMoves DEF Shape, PC, Moves, Right, Saved
  <2>3. CASE h[l].pc = "reportFailed"
    <3>1. Goto(l, "settle")
      BY <1>7, <2>3 DEF Report
    <3>2. QED
      BY <1>1, <3>1, GotoMoves DEF Shape, PC, Saved
  <2>4. QED
    BY <1>7, <2>2, <2>3 DEF Report
<1>8. ASSUME NEW out \in SendOutcome, InformFailed(l, out) PROVE Saved(l)'
  <2>1. \E pc \in {"reportFailed", "settle"} : Goto(l, pc)
    BY <1>8 DEF InformFailed
  <2>2. QED
    BY <1>1, <2>1, GotoMoves DEF Shape, PC, Saved
<1>9. ASSUME NEW out \in SendOutcome,
             InformStarted(l, out) \/ SendNext(l, out) \/ InformFinished(l, out)
      PROVE  Saved(l)'
  <2>1. Goto(l, "next") \/ \E ok \in BOOLEAN : Return(l, ok)
    BY <1>9 DEF InformStarted, SendNext, InformFinished
  <2>2. QED
    BY <1>1, <2>1, GotoMoves, ReturnMoves DEF Shape, PC, Saved
<1>10. QED
  BY <1>2, <1>3, <1>4, <1>5, <1>6, <1>7, <1>8, <1>9 DEF HandlerStep

\* No step of a handler takes a result away, and one that says that there is a
\* result says so of its own transcription, whose result is saved.
LEMMA HandlerTells ==
    ASSUME Results, NEW l \in Listener, HandlerStep(l)
    PROVE  /\ result \subseteq result' /\ available \subseteq available'
           /\ ResultBeforeCompleted'
<1>1. Shape /\ Busy(l) /\ Right(l) /\ Saved(l) /\ h[l].id \in ID
      /\ h[l].noSpeech \in BOOLEAN
  BY HandlerMoves, BusyIs DEF Results, Shape, Handler
<1>2. result \subseteq result' /\ available \subseteq available'
  BY DEF HandlerStep, SaveResult, SaveAvailable, SaveStatus, SaveError, DbFault, dbVars,
         Publish, InformStarted, SendNext, Report, InformFinished, InformFailed
<1>3. ASSUME NEW id \in ID, status'[id] = Completed, status[id] # Completed
      PROVE  id \in result /\ id \in available
  <2>1. SaveStatus(l)
    BY <1>3 DEF HandlerStep, SaveResult, SaveAvailable, SaveError, DbFault, dbVars,
           Publish, InformStarted, SendNext, Report, InformFinished, InformFailed
  <2> DEFINE next == NextStatus(l, h[l].id, h[l].noSpeech)
  <2>2. status' = [status EXCEPT ![h[l].id] = next]
    BY <1>3, <2>1 DEF SaveStatus, DbFault, dbVars
  <2>3. next = Completed <=> l = "ResultMake"
    BY <1>1, NextStatusIs
  <2> HIDE DEF next
  <2>4. id = h[l].id /\ l = "ResultMake"
    BY <1>1, <1>3, <2>2, <2>3 DEF Shape, TypeOK
  <2>5. QED
    BY <1>1, <2>1, <2>4 DEF SaveStatus, Right, Saved
<1>4. ASSUME NEW id \in ID, "Finished" \in told'[id], "Finished" \notin told[id]
      PROVE  id \in result /\ id \in available
  <2>1. told' # told
    BY <1>4
  <2>2. \E out \in SendOutcome :
            \/ InformStarted(l, out) /\ Inform(h[l].id, "Started")
            \/ InformFailed(l, out) /\ Inform(h[l].id, "Failed")
            \/ InformFinished(l, out) /\ Inform(h[l].id, "Finished")
    BY <2>1 DEF HandlerStep, SaveResult, SaveAvailable, SaveStatus, SaveError, sentVars,
           Publish, InformStarted, SendNext, Report, InformFinished, InformFailed
  <2>3. ASSUME NEW type, type # "Finished", Inform(h[l].id, type) PROVE FALSE
    BY <1>1, <1>4, <2>3 DEF Inform, Shape, TypeOK
  <2>4. PICK out \in SendOutcome : InformFinished(l, out) /\ Inform(h[l].id, "Finished")
    BY <2>2, <2>3
  <2>5. id = h[l].id
    BY <1>1, <1>4, <2>4 DEF Inform, Shape, TypeOK
  <2>6. QED
    BY <1>1, <2>4, <2>5 DEF InformFinished, Right, Saved
<1>5. QED
  BY <1>2, <1>3, <1>4 DEF Results, ResultBeforeCompleted

\* Every step of the manager.
LEMMA ResultsStep == Results /\ [Next]_vars => Results'
<1> SUFFICES ASSUME Results, [Next]_vars PROVE Results'
  OBVIOUS
<1>1. Shape'
  BY ShapeStep DEF Results
<1>2. ASSUME NEW l \in Listener, HandlerStep(l) PROVE Results'
  <2>1. Moves(l)
    BY <1>2, HandlerMoves DEF Results
  <2>2. ASSUME NEW k \in Listener, Busy(k)' PROVE Saved(k)'
    <3>1. CASE k = l
      BY <1>2, <3>1, HandlerSaves
    <3>2. CASE k # l
      <4>1. h'[k] = h[k]
        BY <2>1, <3>2 DEF Moves
      <4>2. Busy(k)
        BY <2>2, <4>1 DEF Busy, Idle
      <4>3. QED
        BY <1>2, <4>1, <4>2, HandlerTells DEF Results, Saved
    <3>3. QED
      BY <3>1, <3>2
  <2>3. QED
    BY <1>1, <1>2, <2>2, HandlerTells DEF Results
<1>3. ASSUME result' = result, available' = available, told' = told,
             \A id \in ID : status'[id] = Completed => status[id] = Completed,
             \A l \in Listener : Busy(l)' => Saved(l)'
      PROVE  Results'
  BY <1>1, <1>3 DEF Results, ResultBeforeCompleted
<1>4. ASSUME NEW id \in ID, Upload(id) PROVE Results'
  <2>1. status' = [status EXCEPT ![id] = Uploaded] /\ h' = h
    BY <1>4 DEF Upload
  <2>2. result' = result /\ available' = available /\ told' = told
    BY <1>4 DEF Upload, sentVars
  <2>3. \A i \in ID : status'[i] = Completed => status[i] = Completed
    BY <2>1 DEF Results, Shape, TypeOK, Uploaded, Completed
  <2>4. \A l \in Listener : Busy(l)' => Saved(l)'
    BY <2>1, <2>2 DEF Results, Busy, Saved
  <2>5. QED
    BY <1>3, <2>2, <2>3, <2>4
<1>5. ASSUME NEW s \in Stage, NEW id \in ID, NEW err \in BOOLEAN, Worker(s, id, err)
      PROVE  Results'
  <2>1. /\ h' = h /\ status' = status /\ result' = result /\ available' = available
        /\ told' = told
    BY <1>5 DEF Worker, dbVars, sentVars
  <2>2. \A l \in Listener : Busy(l)' => Saved(l)'
    BY <2>1 DEF Results, Busy, Saved
  <2>3. QED
    BY <1>3, <2>1, <2>2
<1>6. ASSUME NEW m \in Msg, NEW noSpeech \in BOOLEAN, Take(m, noSpeech) PROVE Results'
  <2>1. /\ status' = status /\ result' = result /\ available' = available /\ told' = told
    BY <1>6 DEF Take, dbVars, sentVars
  <2>2. m.l \in Listener /\ m.err \in BOOLEAN
    BY DEF Msg
  <2>3. h'[m.l].pc = Entry(m.l, m.err) /\ h'[m.l].err = m.err
    BY <1>6, <2>2 DEF Take, Results, Shape, TypeOK
  <2>4. Saved(m.l)'
    BY <2>2, <2>3 DEF Entry, Saved
  <2>5. \A k \in Listener : k # m.l => h'[k] = h[k]
    BY <1>6, <2>2 DEF Take, Results, Shape, TypeOK
  <2>6. ASSUME NEW k \in Listener, k # m.l, Busy(k)' PROVE Saved(k)'
    BY <2>1, <2>5, <2>6 DEF Results, Busy, Idle, Saved
  <2>7. QED
    BY <1>3, <2>1, <2>4, <2>6
<1>7. ASSUME NEW l \in Listener, Settle(l) PROVE Results'
  <2>1. /\ status' = status /\ result' = result /\ available' = available /\ told' = told
    BY <1>7 DEF Settle, dbVars, sentVars
  <2>2. h'[l] = Idle /\ \A k \in Listener : k # l => h'[k] = h[k]
    BY <1>7 DEF Settle, Results, Shape, TypeOK
  <2>3. ASSUME NEW k \in Listener, Busy(k)' PROVE Saved(k)'
    BY <2>1, <2>2, <2>3 DEF Results, Busy, Idle, Saved
  <2>4. QED
    BY <1>3, <2>1, <2>3
<1>8. CASE Restart
  <2>1. /\ status' = status /\ result' = result /\ available' = available /\ told' = told
    BY <1>8 DEF Restart, dbVars, sentVars
  <2>2. \A l \in Listener : ~Busy(l)'
    BY <1>8 DEF Restart, Busy
  <2>3. QED
    BY <1>3, <2>1, <2>2
<1>9. CASE UNCHANGED vars
  <2>1. /\ status' = status /\ result' = result /\ available' = available /\ told' = told
        /\ h' = h
    BY <1>9 DEF vars, dbVars, sentVars
  <2>2. \A l \in Listener : Busy(l)' => Saved(l)'
    BY <2>1 DEF Results, Busy, Saved
  <2>3. QED
    BY <1>3, <2>1, <2>2
<1>10. ASSUME NEW l \in Listener, Handle(l) PROVE Results'
  BY <1>2, <1>7, <1>10 DEF Handle, HandlerStep
<1>11. QED
  BY <1>4, <1>5, <1>6, <1>8, <1>9, <1>10 DEF Next

\* The inductive invariant behind it: what each handler of the last stage has
\* saved by the place it has reached.
\* resultMakeFinish saves the result and the list of files before the status: each
\* of its steps finds what the ones before it saved.
THEOREM ResultsInvariant == Spec => []Results
<1>1. Init => Results
  BY ShapeInit DEF Results, ResultBeforeCompleted, Init, Busy, Completed
<1>2. QED
  BY <1>1, ResultsStep, PTL DEF Spec

\* A transcription that is shown as completed, or whose owner was told so, has
\* its result and the list of its files, for any number of repetitions,
\* failed calls, lost connections and crashes.
THEOREM ResultsComeFirst == Spec => []ResultBeforeCompleted
<1>1. Results => ResultBeforeCompleted
  BY DEF Results
<1>2. QED
  BY <1>1, ResultsInvariant, PTL
-----------------------------------------------------------------------------
(***************************************************************************)
(* No uploaded transcription is lost.                                      *)
(***************************************************************************)

\* What a step of a handler leaves alone or only adds to.
LEMMA HandlerKeeps ==
    ASSUME Shape, NEW l \in Listener, HandlerStep(l)
    PROVE  /\ up' => up
           /\ \A m \in Msg : ready[m] > 0 => ready'[m] > 0
           /\ up /\ ~up' => \A m \in Msg : Requeued(m) => ready'[m] > 0
           /\ \A s \in Stage, i \in ID : work[s][i] > 0 => work'[s][i] > 0
           /\ handed \subseteq handed' /\ dropped' = dropped
           /\ \A i \in ID : i # h[l].id => status'[i] = status[i] /\ error'[i] = error[i]
<1>1. h[l].id \in ID /\ h[l].noSpeech \in BOOLEAN
  BY HandlerMoves, BusyIs DEF Shape, Handler
<1>2. CASE SaveResult(l) \/ SaveAvailable(l) \/ SaveStatus(l) \/ SaveError(l)
  <2>1. /\ up' = up /\ ready' = ready /\ work' = work /\ handed' = handed
        /\ dropped' = dropped
    BY <1>2 DEF SaveResult, SaveAvailable, SaveStatus, SaveError, sentVars
  <2>2. \A i \in ID : i # h[l].id => status'[i] = status[i]
    BY <1>2 DEF Shape, TypeOK, SaveResult, SaveAvailable, SaveStatus, SaveError, DbFault,
           dbVars
  <2>3. \A i \in ID : i # h[l].id => error'[i] = error[i]
    <3>1. error' = error \/ \E e \in BOOLEAN : error' = [error EXCEPT ![h[l].id] = e]
      BY <1>2 DEF SaveResult, SaveAvailable, SaveStatus, SaveError, DbFault, dbVars
    <3>2. QED
      BY <3>1, Zenon DEF Shape, TypeOK
  <2>4. QED
    BY <2>1, <2>2, <2>3
<1>3. ASSUME NEW out \in SendOutcome,
             \/ Publish(l, out) \/ InformStarted(l, out) \/ SendNext(l, out)
             \/ Report(l, out) \/ InformFinished(l, out) \/ InformFailed(l, out)
      PROVE  /\ up' => up
             /\ \A m \in Msg : ready[m] > 0 => ready'[m] > 0
             /\ up /\ ~up' => \A m \in Msg : Requeued(m) => ready'[m] > 0
             /\ \A s \in Stage, i \in ID : work[s][i] > 0 => work'[s][i] > 0
             /\ handed \subseteq handed'
             /\ dropped' = dropped /\ status' = status /\ error' = error
  <2>1. SendOver(out) /\ dropped' = dropped /\ status' = status /\ error' = error
    BY <1>3 DEF Publish, InformStarted, SendNext, Report, InformFinished, InformFailed,
           dbVars
  <2>2. \A m \in Msg : ready[m] > 0 => ready'[m] > 0
    <3>1. \A m \in Msg : ready[m] \in Nat /\ ready'[m] \in Nat /\ ready'[m] >= ready[m]
      BY <2>1, SendIs DEF Shape, TypeOK
    <3>2. QED
      BY <3>1
  <2>3. handed \subseteq handed'
    BY <1>3 DEF Publish, InformStarted, SendNext, Report, InformFinished, InformFailed
  <2>4. \A s \in Stage, i \in ID : work[s][i] > 0 => work'[s][i] > 0
    <3> DEFINE to == NextStage(l, h[l].id, h[l].noSpeech)
    <3>1. work' = work \/ (to \in Stage /\ work' = [work EXCEPT ![to][h[l].id] = @ + 1])
      BY <1>3 DEF Publish, InformStarted, SendNext, Report, InformFinished, InformFailed
    <3> HIDE DEF to
    <3>2. QED
      BY <1>1, <3>1 DEF Shape, TypeOK
  <2>5. QED
    BY <2>1, <2>2, <2>3, <2>4, SendIs DEF Shape
<1>4. QED
  BY <1>2, <1>3 DEF HandlerStep

\* The messages of handlers without a connection stay in the queues.
LEMMA HandlerZombie ==
    ASSUME Kept, NEW l \in Listener, HandlerStep(l)
    PROVE  ZombieIsRequeued'
<1> SUFFICES ASSUME ~up', NEW k \in Listener, Busy(k)' PROVE ready'[HeldBy(k)'] > 0
  BY DEF ZombieIsRequeued
<1>1. Shape /\ Busy(l) /\ Moves(l)
  BY HandlerMoves DEF Kept
<1>2. Busy(k) /\ HeldBy(k)' = HeldBy(k)
  BY <1>1 DEF Moves, Busy, Idle, HeldBy
<1>3. HeldBy(k) \in Msg /\ Requeued(HeldBy(k))
  BY <1>1, <1>2, BusyIs DEF Shape, Requeued, HeldBy
<1>4. CASE up
  BY <1>1, <1>2, <1>3, <1>4, HandlerKeeps
<1>5. CASE ~up
  BY <1>1, <1>2, <1>3, <1>5, HandlerKeeps DEF Kept, ZombieIsRequeued
<1>6. QED
  BY <1>4, <1>5

\* What the step does for its own transcription while the connection lasts: it
\* leaves somebody with it, or leaves its record and its duty as they were.
LEMMA HandlerDuty ==
    ASSUME Shape, NEW l \in Listener, NEW id \in ID, h[l].id = id, HandlerStep(l), up'
    PROVE  \/ Final(id)' \/ id \in handed' \/ Waiting(id)' \/ OnDuty(l, id)'
           \/ /\ status'[id] = status[id] /\ error'[id] = error[id]
              /\ ~OnDuty(l, id)
<1>1. /\ Busy(l) /\ Moves(l) /\ Right(l) /\ up /\ h[l].noSpeech \in BOOLEAN
      /\ h[l].err \in BOOLEAN
  BY HandlerMoves, HandlerKeeps, BusyIs DEF Shape, Handler
<1>2. Busy(l)' /\ h'[l].id = id
  BY <1>1 DEF Moves, Busy, Idle, Handler, PC
<1>3. ASSUME ~h'[l].ok \/ h'[l].pc \in {"result", "available", "status", "error",
                                        "started", "next"}
      PROVE  OnDuty(l, id)'
  BY <1>2, <1>3 DEF OnDuty
<1>4. CASE SaveResult(l) \/ SaveAvailable(l)
  <2>1. Goto(l, "available") \/ Goto(l, "status") \/ Return(l, FALSE)
    BY <1>4 DEF SaveResult, SaveAvailable
  <2>2. QED
    BY <1>1, <1>3, <2>1, GotoMoves, ReturnMoves DEF Shape, PC
<1>5. CASE SaveError(l)
  <2>1. CASE error' = [error EXCEPT ![id] = TRUE]
    BY <1>1, <2>1 DEF Shape, TypeOK, Final
  <2>2. CASE Return(l, FALSE)
    BY <1>1, <1>3, <2>2, ReturnMoves DEF Shape
  <2>3. QED
    BY <1>5, <2>1, <2>2 DEF SaveError
<1>6. CASE SaveStatus(l)
  <2>1. CASE Goto(l, "topic") /\ status' = [status EXCEPT ![id] = NextStatus(l, id, h[l].noSpeech)]
    <3>1. CASE l = "ResultMake"
      <4>1. NextStatus(l, id, h[l].noSpeech) = Completed
        BY <1>1, <3>1, NextStatusIs
      <4>2. QED
        BY <1>1, <2>1, <4>1 DEF Shape, TypeOK, Final
    <3>2. CASE l # "ResultMake"
      <4>1. h'[l].pc = "topic"
        BY <1>1, <2>1, GotoMoves DEF Shape, PC
      <4>2. ~h'[l].err
        BY <1>1, <1>6 DEF SaveStatus, Moves, Right
      <4>3. AfterPublish(l, id, h'[l].err) \in {"started", "next"}
        BY <3>2, <4>2 DEF AfterPublish
      <4>4. QED
        BY <1>2, <4>1, <4>3 DEF OnDuty
    <3>3. QED
      BY <3>1, <3>2
  <2>2. CASE h' = [h EXCEPT ![l].pc = IF l = "Decode" THEN "settle" ELSE "failed",
                            ![l].ok = FALSE]
    <3>1. h[l] \in Handler /\ h \in [Listener -> Handler \cup {Idle}]
      BY <1>1 DEF Moves, Shape, TypeOK
    <3>2. h'[l].ok = FALSE
      BY <2>2, <3>1 DEF Handler
    <3>3. QED
      BY <1>3, <3>2
  <2>3. QED
    BY <1>6, <2>1, <2>2 DEF SaveStatus
<1>7. ASSUME NEW out \in SendOutcome, InformStarted(l, out)
      PROVE  OnDuty(l, id)'
  <2>1. CASE Goto(l, "next")
    BY <1>1, <1>3, <2>1, GotoMoves DEF Shape, PC
  <2>2. CASE Return(l, FALSE)
    BY <1>1, <1>3, <2>2, ReturnMoves DEF Shape
  <2>3. QED
    BY <1>7, <2>1, <2>2 DEF InformStarted
<1>8. ASSUME NEW out \in SendOutcome, SendNext(l, out)
      PROVE  id \in handed' \/ Waiting(id)'
  <2> DEFINE to == NextStage(l, id, h[l].noSpeech)
  <2>1. out # "failed"
    BY <1>8, SendIs DEF Shape, SendNext
  <2>2. CASE to \in Stage
    <3>1. work' = [work EXCEPT ![to][id] = @ + 1]
      BY <1>8, <2>1, <2>2 DEF SendNext
    <3> HIDE DEF to
    <3>2. work'[to][id] > 0
      BY <1>1, <2>2, <3>1 DEF Shape, TypeOK
    <3>3. QED
      BY <2>2, <3>2 DEF Waiting
  <2>3. CASE to \notin Stage
    BY <1>8, <2>1, <2>3 DEF SendNext
  <2>4. QED
    BY <2>2, <2>3
<1>9. ASSUME NEW out \in SendOutcome, Publish(l, out), OnDuty(l, id)
      PROVE  OnDuty(l, id)'
  <2> DEFINE after == AfterPublish(l, id, h[l].err)
             to == IF h[l].pc = "topic" /\ id \in Child THEN "parent" ELSE after
  <2>1. h[l].pc \in {"topic", "parent"} /\ Goto(l, to)
    BY <1>9 DEF Publish
  <2>2. after \in {"started", "next"}
    BY <1>1, <1>9, <2>1 DEF OnDuty, Right
  <2>3. after = AfterPublish(l, id, h'[l].err)
    BY <1>1 DEF Moves
  <2> HIDE DEF after
  <2>4. h'[l].pc = to /\ to \in {"parent", "started", "next"}
    BY <1>1, <2>1, <2>2, GotoMoves DEF Shape, PC
  <2>5. AfterPublish(l, id, h'[l].err) \in {"started", "next"}
    BY <2>2, <2>3
  <2>6. CASE to = "parent"
    BY <1>2, <2>4, <2>5, <2>6 DEF OnDuty
  <2>7. CASE to # "parent"
    BY <1>3, <2>4, <2>7
  <2>8. QED
    BY <2>6, <2>7
<1>10. ASSUME NEW out \in SendOutcome, Report(l, out) \/ InformFailed(l, out),
              OnDuty(l, id)
       PROVE  OnDuty(l, id)'
  <2>1. h[l].pc \in {"report", "reportFailed", "failed"}
    BY <1>10 DEF Report, InformFailed
  <2>2. ~h[l].ok
    BY <1>10, <2>1 DEF OnDuty
  <2>3. \E pc \in {"finished", "settle", "reportFailed"} : Goto(l, pc)
    BY <1>10 DEF Report, InformFailed
  <2>4. h'[l].ok = h[l].ok
    BY <1>1, <2>3, GotoMoves DEF Shape, PC
  <2>5. QED
    BY <1>3, <2>2, <2>4
<1>11. ASSUME NEW out \in SendOutcome, InformFinished(l, out)
       PROVE  ~OnDuty(l, id)
  BY <1>1, <1>11 DEF InformFinished, OnDuty, Right
<1>12. ASSUME NEW out \in SendOutcome,
              Publish(l, out) \/ Report(l, out) \/ InformFailed(l, out)
              \/ InformFinished(l, out)
       PROVE  status' = status /\ error' = error
  BY <1>12 DEF Publish, Report, InformFailed, InformFinished, dbVars
<1>13. QED
  BY <1>4, <1>5, <1>6, <1>7, <1>8, <1>9, <1>10, <1>11, <1>12 DEF HandlerStep

\* Whoever else was with a transcription is still with it, or its message waits.
LEMMA HandlerAccounts ==
    ASSUME Kept, NEW l \in Listener, HandlerStep(l), NEW id \in ID, Accounted(id),
           status'[id] = status[id], error'[id] = error[id], ~OnDuty(l, id) \/ ~up'
    PROVE  Accounted(id)'
<1>1. Shape /\ Busy(l) /\ Moves(l)
  BY HandlerMoves DEF Kept
<1>2. CASE Final(id) \/ id \in handed \/ id \in dropped
  BY <1>1, <1>2, HandlerKeeps DEF Accounted, Final
<1>3. CASE Waiting(id)
  <2>1. Waiting(id)'
    BY <1>1, <1>3, HandlerKeeps DEF Waiting
  <2>2. QED
    BY <2>1 DEF Accounted
<1>4. ASSUME NEW k \in Listener, OnDuty(k, id) PROVE Accounted(id)'
  <2>1. up /\ Busy(k) /\ h[k].id = id
    BY <1>4 DEF OnDuty
  <2>2. CASE ~up'
    <3>1. HeldBy(k) \in Msg /\ Requeued(HeldBy(k)) /\ HeldBy(k).id = id
      BY <1>1, <2>1, BusyIs DEF Shape, Requeued, HeldBy
    <3>2. ready'[HeldBy(k)] > 0
      BY <1>1, <2>1, <2>2, <3>1, HandlerKeeps
    <3> DEFINE m == HeldBy(k)
    <3>3. PICK n \in Msg : n = m
      BY <3>1
    <3>4. n.id = id /\ ready'[n] > 0
      BY <3>1, <3>2, <3>3
    <3>5. Waiting(id)'
      BY <3>4 DEF Waiting
    <3>6. QED
      BY <3>5 DEF Accounted
  <2>3. CASE up'
    <3>1. k # l
      BY <1>4, <2>3
    <3>2. h'[k] = h[k]
      BY <1>1, <3>1 DEF Moves
    <3>3. OnDuty(k, id)'
      BY <1>4, <2>3, <3>2 DEF OnDuty, Busy, Idle
    <3>4. QED
      BY <3>3 DEF Accounted
  <2>4. QED
    BY <2>2, <2>3
<1>5. QED
  BY <1>2, <1>3, <1>4 DEF Accounted

\* A step of a handler leaves nobody without one who has the transcription.
LEMMA HandlerKept ==
    ASSUME Kept, NEW l \in Listener, HandlerStep(l)
    PROVE  NoLostWork'
<1> SUFFICES ASSUME NEW id \in ID, status'[id] # 0 PROVE Accounted(id)'
  BY DEF NoLostWork, Accounted
<1>1. Shape /\ Busy(l) /\ Moves(l) /\ (status[id] # 0 => Accounted(id))
  BY HandlerMoves DEF Kept, NoLostWork, Accounted
<1>2. CASE h[l].id # id
  <2>1. status'[id] = status[id] /\ error'[id] = error[id] /\ ~OnDuty(l, id)
    BY <1>1, <1>2, HandlerKeeps DEF OnDuty
  <2>2. QED
    BY <1>1, <2>1, HandlerAccounts
<1>3. CASE h[l].id = id /\ up'
  <2>1. CASE Final(id)' \/ id \in handed' \/ Waiting(id)' \/ OnDuty(l, id)'
    BY <2>1 DEF Accounted
  <2>2. CASE status'[id] = status[id] /\ error'[id] = error[id] /\ ~OnDuty(l, id)
    BY <1>1, <2>2, HandlerAccounts
  <2>3. QED
    BY <1>1, <1>3, <2>1, <2>2, HandlerDuty
<1>4. CASE h[l].id = id /\ ~up'
  <2>1. HeldBy(l) \in Msg /\ Requeued(HeldBy(l)) /\ HeldBy(l).id = id
    BY <1>1, <1>4, BusyIs DEF Shape, Requeued, HeldBy
  <2>2. ready'[HeldBy(l)] > 0
    <3>1. CASE up
      BY <1>1, <1>4, <2>1, <3>1, HandlerKeeps
    <3>2. CASE ~up
      BY <1>1, <2>1, <3>2, HandlerKeeps DEF Kept, ZombieIsRequeued
    <3>3. QED
      BY <3>1, <3>2
  <2>3. PICK m \in Msg : m = HeldBy(l)
    BY <2>1
  <2>4. m.id = id /\ ready'[m] > 0
    BY <2>1, <2>2, <2>3
  <2>5. Waiting(id)'
    BY <2>4 DEF Waiting
  <2>6. QED
    BY <2>5 DEF Accounted
<1>5. QED
  BY <1>2, <1>3, <1>4

\* A new message of a transcription, while all else stays.
LEMMA ArriveKept ==
    ASSUME Kept, NEW m \in Msg, ready' = [ready EXCEPT ![m] = @ + 1]
    PROVE  \A n \in Msg : (ready[n] > 0 => ready'[n] > 0) /\ ready'[m] > 0
<1>1. \A n \in Msg : ready[n] \in Nat
  BY DEF Kept, Shape, TypeOK
<1>2. \A n \in Msg : ready'[n] = IF n = m THEN ready[n] + 1 ELSE ready[n]
  BY DEF Kept, Shape, TypeOK
<1>3. QED
  BY <1>1, <1>2

\* An upload.
LEMMA UploadKept ==
    ASSUME Kept, NEW id \in ID, Upload(id)
    PROVE  ZombieIsRequeued' /\ NoLostWork'
<1> DEFINE m == [l |-> "Decode", id |-> id, err |-> FALSE, redelivered |-> FALSE]
<1>1. m \in Msg /\ m.id = id /\ ready' = [ready EXCEPT ![m] = @ + 1]
  BY DEF Msg, Listener, Upload
<1> HIDE DEF m
<1>2. \A n \in Msg : (ready[n] > 0 => ready'[n] > 0) /\ ready'[m] > 0
  BY <1>1, ArriveKept
<1>3. /\ h' = h /\ up' = up /\ work' = work /\ error' = error /\ handed' = handed
      /\ dropped' = dropped /\ \A i \in ID : i # id => status'[i] = status[i]
  BY DEF Upload, sentVars, Kept, Shape, TypeOK
<1>4. ZombieIsRequeued'
  <2> SUFFICES ASSUME ~up', NEW k \in Listener, Busy(k)' PROVE ready'[HeldBy(k)'] > 0
    BY DEF ZombieIsRequeued
  <2>1. ~up /\ Busy(k) /\ HeldBy(k)' = HeldBy(k) /\ HeldBy(k) \in Msg
    BY <1>3, BusyIs DEF Busy, HeldBy, Kept, Shape
  <2>2. QED
    BY <1>2, <2>1 DEF Kept, ZombieIsRequeued
<1>5. ASSUME NEW i \in ID, status'[i] # 0 PROVE Accounted(i)'
  <2>1. CASE i = id
    <3>1. Waiting(i)'
      BY <1>1, <1>2, <2>1 DEF Waiting
    <3>2. QED
      BY <3>1 DEF Accounted
  <2>2. CASE i # id
    <3>1. status'[i] = status[i] /\ Accounted(i)
      BY <1>3, <1>5, <2>2 DEF Kept, NoLostWork, Accounted
    <3>2. Waiting(i) => Waiting(i)'
      BY <1>2, <1>3 DEF Waiting
    <3>3. QED
      BY <1>3, <3>1, <3>2 DEF Accounted, Final, OnDuty, Busy
  <2>3. QED
    BY <2>1, <2>2
<1>6. QED
  BY <1>4, <1>5 DEF NoLostWork, Accounted

\* An answer of a worker.
LEMMA WorkerKept ==
    ASSUME Kept, NEW s \in Stage, NEW id \in ID, NEW err \in BOOLEAN, Worker(s, id, err)
    PROVE  ZombieIsRequeued' /\ NoLostWork'
<1> DEFINE m == [l |-> s, id |-> id, err |-> err, redelivered |-> FALSE]
<1>1. m \in Msg /\ m.id = id /\ ready' = [ready EXCEPT ![m] = @ + 1]
  BY DEF Msg, Listener, Worker
<1> HIDE DEF m
<1>2. \A n \in Msg : (ready[n] > 0 => ready'[n] > 0) /\ ready'[m] > 0
  BY <1>1, ArriveKept
<1>3. /\ h' = h /\ up' = up /\ status' = status /\ error' = error /\ handed' = handed
      /\ dropped' = dropped
  BY DEF Worker, dbVars, sentVars
<1>4. \A t \in Stage, i \in ID : i # id => work'[t][i] = work[t][i]
  BY DEF Worker, Kept, Shape, TypeOK
<1>5. ZombieIsRequeued'
  <2> SUFFICES ASSUME ~up', NEW k \in Listener, Busy(k)' PROVE ready'[HeldBy(k)'] > 0
    BY DEF ZombieIsRequeued
  <2>1. ~up /\ Busy(k) /\ HeldBy(k)' = HeldBy(k) /\ HeldBy(k) \in Msg
    BY <1>3, BusyIs DEF Busy, HeldBy, Kept, Shape
  <2>2. QED
    BY <1>2, <2>1 DEF Kept, ZombieIsRequeued
<1>6. ASSUME NEW i \in ID, status'[i] # 0 PROVE Accounted(i)'
  <2>1. CASE i = id
    <3>1. Waiting(i)'
      BY <1>1, <1>2, <2>1 DEF Waiting
    <3>2. QED
      BY <3>1 DEF Accounted
  <2>2. CASE i # id
    <3>1. Accounted(i)
      BY <1>3, <1>6 DEF Kept, NoLostWork, Accounted
    <3>2. Waiting(i) => Waiting(i)'
      BY <1>2, <1>4, <2>2 DEF Waiting
    <3>3. QED
      BY <1>3, <3>1, <3>2 DEF Accounted, Final, OnDuty, Busy
  <2>3. QED
    BY <2>1, <2>2
<1>7. QED
  BY <1>5, <1>6 DEF NoLostWork, Accounted

\* The listener that takes a message has its transcription from then on.
LEMMA TakeKept ==
    ASSUME Kept, NEW m \in Msg, NEW noSpeech \in BOOLEAN, Take(m, noSpeech)
    PROVE  ZombieIsRequeued' /\ NoLostWork'
<1> DEFINE r == [id |-> m.id, err |-> m.err, redelivered |-> m.redelivered,
                 noSpeech |-> noSpeech, pc |-> Entry(m.l, m.err), ok |-> TRUE]
<1>1. m.l \in Listener /\ m.id \in ID /\ m.err \in BOOLEAN
  BY DEF Msg
<1>2. r.id = m.id /\ r.pc \in {"error", "result", "status"}
  BY <1>1 DEF Entry
<1>3. h' = [h EXCEPT ![m.l] = r] /\ ready' = [ready EXCEPT ![m] = @ - 1]
  BY DEF Take
<1> HIDE DEF r
<1>4. /\ up /\ up' /\ work' = work /\ status' = status /\ error' = error
      /\ handed' = handed /\ dropped' = dropped /\ ~Busy(m.l)
  BY DEF Take, dbVars, sentVars, Busy
<1>5. h'[m.l] = r /\ \A k \in Listener : k # m.l => h'[k] = h[k]
  BY <1>1, <1>3 DEF Kept, Shape, TypeOK
<1>6. \A n \in Msg : n # m => ready'[n] = ready[n]
  BY <1>3 DEF Kept, Shape, TypeOK
<1>7. r # Idle
  <2>1. Idle.pc = "idle"
    BY DEF Idle
  <2>2. QED
    BY <1>2, <2>1
<1>8. ASSUME NEW i \in ID, status'[i] # 0 PROVE Accounted(i)'
  <2>1. CASE i = m.id
    <3>1. OnDuty(m.l, i)'
      BY <1>2, <1>4, <1>5, <1>7, <2>1 DEF OnDuty, Busy, Idle
    <3>2. QED
      BY <1>1, <3>1 DEF Accounted
  <2>2. CASE i # m.id
    <3>1. Accounted(i)
      BY <1>4, <1>8 DEF Kept, NoLostWork, Accounted
    <3>2. Waiting(i) => Waiting(i)'
      BY <1>4, <1>6, <2>2 DEF Waiting
    <3>3. \A k \in Listener : OnDuty(k, i) => OnDuty(k, i)'
      <4> SUFFICES ASSUME NEW k \in Listener, OnDuty(k, i) PROVE OnDuty(k, i)'
        OBVIOUS
      <4>1. k # m.l
        BY <1>4 DEF OnDuty
      <4>2. h'[k] = h[k]
        BY <1>5, <4>1
      <4>3. QED
        BY <1>4, <4>2 DEF OnDuty, Busy, Idle
    <3>4. QED
      BY <1>4, <3>1, <3>2, <3>3 DEF Accounted, Final
  <2>3. QED
    BY <2>1, <2>2
<1>9. QED
  BY <1>4, <1>8 DEF NoLostWork, Accounted, ZombieIsRequeued

\* A message is settled by a handler that is done, is given back, or discarded.
LEMMA SettleKept ==
    ASSUME Kept, NEW l \in Listener, Settle(l)
    PROVE  ZombieIsRequeued' /\ NoLostWork'
<1>1. /\ h[l].pc = "settle" /\ h' = [h EXCEPT ![l] = Idle] /\ up' = up /\ work' = work
      /\ status' = status /\ error' = error /\ handed' = handed
  BY DEF Settle, dbVars, sentVars
<1>2. Busy(l) /\ HeldBy(l) \in Msg /\ HeldBy(l).id = h[l].id /\ Shape
  BY <1>1, AtIs DEF Kept, Shape, PC, HeldBy
<1>3. h'[l] = Idle /\ \A k \in Listener : k # l => h'[k] = h[k]
  BY <1>1 DEF Kept, Shape, TypeOK
<1>4. PICK m \in Msg : m = HeldBy(l)
  BY <1>2
<1>5. IF MustRequeue(l) THEN ready' = [ready EXCEPT ![m] = @ + 1] ELSE ready' = ready
  BY <1>4 DEF Settle
<1>6. \A n \in Msg : ready[n] > 0 => ready'[n] > 0
  BY <1>5, ArriveKept
<1>7. dropped' = IF MustDrop(l) THEN dropped \cup {h[l].id} ELSE dropped
  BY DEF Settle
<1>8. ZombieIsRequeued'
  <2> SUFFICES ASSUME ~up', NEW k \in Listener, Busy(k)' PROVE ready'[HeldBy(k)'] > 0
    BY DEF ZombieIsRequeued
  <2>1. k # l
    BY <1>3 DEF Busy
  <2>2. ~up /\ Busy(k) /\ HeldBy(k)' = HeldBy(k) /\ HeldBy(k) \in Msg
    BY <1>1, <1>2, <1>3, <2>1, BusyIs DEF Busy, Idle, HeldBy, Shape
  <2>3. QED
    BY <1>6, <2>2 DEF Kept, ZombieIsRequeued
<1>9. ASSUME NEW i \in ID, status'[i] # 0 PROVE Accounted(i)'
  <2>1. Accounted(i)
    BY <1>1, <1>9 DEF Kept, NoLostWork, Accounted
  <2>2. Waiting(i) => Waiting(i)'
    BY <1>1, <1>6 DEF Waiting
  <2>3. \A k \in Listener : k # l /\ OnDuty(k, i) => OnDuty(k, i)'
    BY <1>1, <1>3 DEF OnDuty, Busy, Idle
  <2>4. CASE ~OnDuty(l, i)
    BY <1>1, <1>7, <2>1, <2>2, <2>3, <2>4 DEF Accounted, Final
  <2>5. CASE OnDuty(l, i)
    <3>1. up /\ h[l].id = i /\ ~h[l].ok
      BY <1>1, <2>5 DEF OnDuty
    <3>2. CASE h[l].redelivered
      BY <1>7, <3>1, <3>2 DEF MustDrop, Accounted
    <3>3. CASE ~h[l].redelivered
      <4>1. ready'[m] > 0 /\ m.id = i
        BY <1>2, <1>4, <1>5, <3>1, <3>3, ArriveKept DEF MustRequeue
      <4>2. Waiting(i)'
        BY <4>1 DEF Waiting
      <4>3. QED
        BY <4>2 DEF Accounted
    <3>4. QED
      BY <3>2, <3>3
  <2>6. QED
    BY <2>4, <2>5
<1>10. QED
  BY <1>8, <1>9 DEF NoLostWork, Accounted

\* A crash returns the messages of all handlers; an exit after the connection was
\* lost needs not, they are in the queues since.
LEMMA RestartKept ==
    ASSUME Kept, Restart
    PROVE  ZombieIsRequeued' /\ NoLostWork'
<1>1. /\ up' = TRUE /\ work' = work /\ status' = status /\ error' = error
      /\ handed' = handed /\ dropped' = dropped
  BY DEF Restart, dbVars, sentVars
<1>2. /\ \A m \in Msg : ready'[m] >= ready[m] /\ ready[m] \in Nat /\ ready'[m] \in Nat
      /\ up => \A m \in Msg : Requeued(m) => ready'[m] > 0
  BY RestartIs DEF Kept, Shape, TypeOK
<1>3. \A m \in Msg : ready[m] > 0 => ready'[m] > 0
  BY <1>2
<1>4. ASSUME NEW i \in ID, status'[i] # 0 PROVE Accounted(i)'
  <2>1. Accounted(i)
    BY <1>1, <1>4 DEF Kept, NoLostWork, Accounted
  <2>2. CASE Final(i) \/ i \in handed \/ i \in dropped
    BY <1>1, <2>2 DEF Accounted, Final
  <2>3. CASE Waiting(i)
    <3>1. Waiting(i)'
      BY <1>1, <1>3, <2>3 DEF Waiting
    <3>2. QED
      BY <3>1 DEF Accounted
  <2>4. ASSUME NEW k \in Listener, OnDuty(k, i) PROVE Accounted(i)'
    <3>1. up /\ Busy(k) /\ h[k].id = i
      BY <2>4 DEF OnDuty
    <3>2. HeldBy(k) \in Msg /\ Requeued(HeldBy(k)) /\ HeldBy(k).id = i
      BY <3>1, BusyIs DEF Kept, Shape, Requeued, HeldBy
    <3>3. PICK m \in Msg : m = HeldBy(k)
      BY <3>2
    <3>4. m.id = i /\ ready'[m] > 0
      BY <1>2, <3>1, <3>2, <3>3
    <3>5. Waiting(i)'
      BY <3>4 DEF Waiting
    <3>6. QED
      BY <3>5 DEF Accounted
  <2>5. QED
    BY <2>1, <2>2, <2>3, <2>4 DEF Accounted
<1>5. QED
  BY <1>1, <1>4 DEF NoLostWork, Accounted, ZombieIsRequeued

\* The initial state.
LEMMA KeptInit == Init => Kept
<1> SUFFICES ASSUME Init PROVE Kept
  OBVIOUS
<1>1. NoLostWork /\ ZombieIsRequeued
  BY DEF Init, NoLostWork, ZombieIsRequeued
<1>2. QED
  BY <1>1, ShapeInit DEF Kept

\* Every step of the manager.
LEMMA KeptStep == Kept /\ [Next]_vars => Kept'
<1> SUFFICES ASSUME Kept, [Next]_vars PROVE ZombieIsRequeued' /\ NoLostWork'
  BY ShapeStep DEF Kept
<1>1. ASSUME NEW l \in Listener, Handle(l) PROVE ZombieIsRequeued' /\ NoLostWork'
  BY <1>1, HandlerZombie, HandlerKept, SettleKept DEF Handle, HandlerStep
<1>2. CASE UNCHANGED vars
  <2>1. /\ ready' = ready /\ work' = work /\ h' = h /\ up' = up /\ status' = status
        /\ error' = error /\ handed' = handed /\ dropped' = dropped
    BY <1>2 DEF vars, dbVars, sentVars
  <2>2. ZombieIsRequeued'
    BY <2>1 DEF Kept, ZombieIsRequeued, Busy, HeldBy
  <2>3. NoLostWork'
    BY <2>1 DEF Kept, NoLostWork, Final, Waiting, OnDuty, Busy
  <2>4. QED
    BY <2>2, <2>3
<1>3. QED
  BY <1>1, <1>2, UploadKept, WorkerKept, TakeKept, RestartKept DEF Next

\* Every transcription is accounted for, and a handler that goes on over a closed
\* connection has its message in the queue.
THEOREM KeptInvariant == Spec => []Kept
  BY KeptInit, KeptStep, PTL DEF Spec

\* No uploaded transcription is lost, whichever messages are repeated, calls fail
\* and restarts happen: it has its end in the record, was passed on, or somebody
\* still has it. What the argument needs of the code is that every handler sends
\* before it returns without an error and that a lost connection returns the
\* messages of the handlers that go on over it.
THEOREM NothingIsLost == Spec => []NoLostWork
<1>1. Kept => NoLostWork
  BY DEF Kept
<1>2. QED
  BY <1>1, KeptInvariant, PTL
-----------------------------------------------------------------------------
(***************************************************************************)
(* A message is only given up for the database.                            *)
(***************************************************************************)

\* A handler that is to return an error over an open connection had a failed call
\* of the database in this delivery, the second fault if its message came again.
ForDatabase(l) ==
    up /\ Busy(l) /\ ~h[l].ok =>
        /\ <<h[l].id, h[l].redelivered>> \in dbFailed
        /\ faults >= IF h[l].redelivered THEN 2 ELSE 1

\* A message comes again only after a fault.
AgainAfterFault ==
    /\ \A m \in Msg : ready[m] > 0 /\ m.redelivered => faults >= 1
    /\ \A l \in Listener : Busy(l) /\ h[l].redelivered => faults >= 1

\* The invariant of GivenUpForDatabase.
GivenUpInv == /\ Shape
              /\ AgainAfterFault
              /\ \A l \in Listener : ForDatabase(l)
              /\ GivenUpForDatabase

\* What is given up stays so for the reason it was.
LEMMA StillForDatabase ==
    ASSUME GivenUpForDatabase, dropped' = dropped, dbFailed \subseteq dbFailed',
           faults \in Nat, faults' \in Nat, faults' >= faults
    PROVE  GivenUpForDatabase'
<1>1. \A id \in dropped' : <<id, TRUE>> \in dbFailed'
  BY DEF GivenUpForDatabase
<1>2. dropped' # {} => faults' >= 2
  BY DEF GivenUpForDatabase
<1>3. QED
  BY <1>1, <1>2 DEF GivenUpForDatabase

\* Faults of a step of a handler: messages are put back only with one, and over an
\* open connection an error is to be returned only after one of the database.
LEMMA HandlerFaults ==
    ASSUME Shape, NEW l \in Listener, HandlerStep(l)
    PROVE  /\ faults \in Nat /\ faults' \in Nat
           /\ (ready' = ready /\ up' = up /\ faults' = faults) \/ faults' = faults + 1
           /\ faults' = faults + 1 => up' = FALSE \/ (ready' = ready /\ up' = up)
           /\ up' /\ ~h'[l].ok => ~h[l].ok \/ DbFault(l)
           /\ dbFailed \subseteq dbFailed' /\ dropped' = dropped
<1>1. Busy(l) /\ Moves(l) /\ h[l] \in Handler /\ faults \in Nat
  BY HandlerMoves, BusyIs DEF Shape, TypeOK
<1>2. CASE SaveResult(l) \/ SaveAvailable(l) \/ SaveStatus(l) \/ SaveError(l)
  <2>1. ready' = ready /\ up' = up /\ dropped' = dropped
    BY <1>2 DEF SaveResult, SaveAvailable, SaveStatus, SaveError
  <2>2. CASE DbFault(l)
    BY <1>1, <2>1, <2>2 DEF DbFault, Fault
  <2>3. CASE ~DbFault(l)
    <3>1. faults' = faults /\ dbFailed' = dbFailed /\ \E pc \in PC : Goto(l, pc)
      BY <1>2, <2>3 DEF SaveResult, SaveAvailable, SaveStatus, SaveError, PC
    <3>2. h'[l].ok = h[l].ok
      BY <1>1, <3>1, GotoMoves DEF Shape
    <3>3. QED
      BY <1>1, <2>1, <3>1, <3>2
  <2>4. QED
    BY <2>2, <2>3
<1>3. ASSUME NEW out \in SendOutcome,
             \/ Publish(l, out) \/ InformStarted(l, out) \/ SendNext(l, out)
             \/ Report(l, out) \/ InformFinished(l, out) \/ InformFailed(l, out)
      PROVE  /\ SendOver(out) /\ dropped' = dropped /\ dbFailed' = dbFailed
             /\ out # "failed" => h'[l].ok \/ ~h[l].ok
  <2>1. SendOver(out) /\ dropped' = dropped /\ dbFailed' = dbFailed
    BY <1>3 DEF Publish, InformStarted, SendNext, Report, InformFinished, InformFailed,
                dbVars
  <2>2. ASSUME out # "failed" PROVE Return(l, TRUE) \/ \E pc \in PC : Goto(l, pc)
    <3>1. CASE Publish(l, out)
      BY <1>1, <3>1 DEF Publish, AfterPublish, PC, Handler
    <3>2. CASE InformStarted(l, out) \/ SendNext(l, out) \/ InformFinished(l, out)
      BY <2>2, <3>2 DEF InformStarted, SendNext, InformFinished, PC
    <3>3. CASE Report(l, out)
      BY <3>3 DEF Report, PC
    <3>4. CASE InformFailed(l, out)
      BY <3>4 DEF InformFailed, PC
    <3>5. QED
      BY <1>3, <3>1, <3>2, <3>3, <3>4
  <2>3. QED
    BY <1>1, <2>1, <2>2, GotoMoves, ReturnMoves DEF Shape
<1>4. ASSUME NEW out \in SendOutcome, SendOver(out)
      PROVE  \/ out = "sent" /\ ready' = ready /\ up' = up /\ faults' = faults
             \/ faults' = faults + 1 /\ up' = FALSE
  BY <1>4 DEF SendOver, Fault
<1>5. CASE \E out \in SendOutcome :
             \/ Publish(l, out) \/ InformStarted(l, out) \/ SendNext(l, out)
             \/ Report(l, out) \/ InformFinished(l, out) \/ InformFailed(l, out)
  <2>1. PICK out \in SendOutcome :
             \/ Publish(l, out) \/ InformStarted(l, out) \/ SendNext(l, out)
             \/ Report(l, out) \/ InformFinished(l, out) \/ InformFailed(l, out)
    BY <1>5
  <2>2. /\ SendOver(out) /\ dropped' = dropped /\ dbFailed' = dbFailed
        /\ out # "failed" => h'[l].ok \/ ~h[l].ok
    BY <1>3, <2>1
  <2>3. CASE out = "sent" /\ ready' = ready /\ up' = up /\ faults' = faults
    BY <1>1, <2>2, <2>3
  <2>4. CASE faults' = faults + 1 /\ up' = FALSE
    BY <1>1, <2>2, <2>4
  <2>5. QED
    BY <1>4, <2>2, <2>3, <2>4
<1>6. QED
  BY <1>2, <1>5, Zenon DEF HandlerStep

\* A step of a handler.
LEMMA HandlerGivesUp ==
    ASSUME GivenUpInv, NEW l \in Listener, HandlerStep(l)
    PROVE  AgainAfterFault' /\ (\A k \in Listener : ForDatabase(k)') /\ GivenUpForDatabase'
<1>1. Shape /\ Busy(l) /\ Moves(l) /\ (up' => up)
  BY HandlerMoves, HandlerKeeps DEF GivenUpInv
<1>2. /\ faults \in Nat /\ faults' \in Nat /\ faults' >= faults
      /\ ready' = ready \/ faults' >= 1
      /\ up' /\ ~h'[l].ok => ~h[l].ok \/ DbFault(l)
      /\ dbFailed \subseteq dbFailed' /\ dropped' = dropped
  <2>1. /\ faults \in Nat /\ faults' \in Nat
        /\ (ready' = ready /\ up' = up /\ faults' = faults) \/ faults' = faults + 1
        /\ up' /\ ~h'[l].ok => ~h[l].ok \/ DbFault(l)
        /\ dbFailed \subseteq dbFailed' /\ dropped' = dropped
    BY <1>1, HandlerFaults, Zenon
  <2>2. faults' >= faults /\ (ready' = ready \/ faults' >= 1)
    BY <2>1
  <2>3. QED
    BY <2>1, <2>2, Zenon
<1>3. /\ \A k \in Listener : k # l => h'[k] = h[k]
      /\ h'[l].redelivered = h[l].redelivered /\ h'[l].id = h[l].id
  BY <1>1 DEF Moves
<1>4. \A k \in Listener : Busy(k)' => /\ Busy(k) /\ h'[k].redelivered = h[k].redelivered
                                      /\ h'[k].id = h[k].id
  BY <1>1, <1>3 DEF Busy, Idle
<1>5. AgainAfterFault'
  <2>1. ASSUME NEW m \in Msg, ready'[m] > 0, m.redelivered PROVE faults' >= 1
    BY <1>2, <2>1 DEF GivenUpInv, AgainAfterFault
  <2>2. ASSUME NEW k \in Listener, Busy(k)', h'[k].redelivered PROVE faults' >= 1
    <3>1. faults >= 1
      BY <1>4, <2>2 DEF GivenUpInv, AgainAfterFault
    <3>2. QED
      BY <1>2, <3>1
  <2>3. QED
    BY <2>1, <2>2 DEF AgainAfterFault
<1>6. ASSUME NEW k \in Listener PROVE ForDatabase(k)'
  <2> SUFFICES ASSUME up', Busy(k)', ~h'[k].ok
               PROVE  /\ <<h'[k].id, h'[k].redelivered>> \in dbFailed'
                      /\ faults' >= IF h'[k].redelivered THEN 2 ELSE 1
    BY DEF ForDatabase
  <2>1. CASE ~h[k].ok
    <3>1. /\ <<h[k].id, h[k].redelivered>> \in dbFailed
          /\ faults >= IF h[k].redelivered THEN 2 ELSE 1
      BY <1>1, <1>4, <2>1 DEF GivenUpInv, ForDatabase
    <3>2. QED
      BY <1>2, <1>4, <3>1
  <2>2. CASE h[k].ok
    <3>1. k = l /\ DbFault(l)
      BY <1>2, <1>3, <2>2
    <3>2. faults' = faults + 1 /\ <<h[k].id, h[k].redelivered>> \in dbFailed'
      BY <3>1 DEF DbFault, Fault
    <3>3. h'[k].redelivered => faults >= 1
      BY <1>4 DEF GivenUpInv, AgainAfterFault
    <3>4. QED
      BY <1>2, <1>4, <3>2, <3>3
  <2>3. QED
    BY <2>1, <2>2
<1>7. GivenUpForDatabase'
  BY <1>2, StillForDatabase DEF GivenUpInv
<1>8. QED
  BY <1>5, <1>6, <1>7

\* A new message that was not delivered before.
LEMMA ArriveGivesUp ==
    ASSUME GivenUpInv, NEW m \in Msg, ~m.redelivered,
           ready' = [ready EXCEPT ![m] = @ + 1], h' = h, up' = up, dropped' = dropped,
           dbFailed' = dbFailed, faults' = faults \/ faults' = faults + 1
    PROVE  AgainAfterFault' /\ (\A k \in Listener : ForDatabase(k)') /\ GivenUpForDatabase'
<1>1. faults \in Nat /\ faults' \in Nat /\ faults' >= faults
  BY DEF GivenUpInv, Shape, TypeOK
<1>2. \A n \in Msg : n.redelivered => ready'[n] = ready[n]
  BY DEF GivenUpInv, Shape, TypeOK
<1>3. AgainAfterFault'
  <2>1. ASSUME NEW n \in Msg, ready'[n] > 0, n.redelivered PROVE faults' >= 1
    <3>1. faults >= 1
      BY <1>2, <2>1 DEF GivenUpInv, AgainAfterFault
    <3>2. QED
      BY <1>1, <3>1
  <2>2. ASSUME NEW k \in Listener, Busy(k)', h'[k].redelivered PROVE faults' >= 1
    <3>1. faults >= 1
      BY <2>2 DEF GivenUpInv, AgainAfterFault, Busy
    <3>2. QED
      BY <1>1, <3>1
  <2>3. QED
    BY <2>1, <2>2 DEF AgainAfterFault
<1>4. ASSUME NEW k \in Listener PROVE ForDatabase(k)'
  <2> SUFFICES ASSUME up', Busy(k)', ~h'[k].ok
               PROVE  /\ <<h'[k].id, h'[k].redelivered>> \in dbFailed'
                      /\ faults' >= IF h'[k].redelivered THEN 2 ELSE 1
    BY DEF ForDatabase
  <2>1. /\ <<h[k].id, h[k].redelivered>> \in dbFailed
        /\ faults >= IF h[k].redelivered THEN 2 ELSE 1
    BY DEF GivenUpInv, ForDatabase, Busy
  <2>2. QED
    BY <1>1, <2>1
<1>5. GivenUpForDatabase'
  BY <1>1, StillForDatabase DEF GivenUpInv
<1>6. QED
  BY <1>3, <1>4, <1>5

\* The upload and the workers.
LEMMA EnvironmentGivesUp ==
    ASSUME GivenUpInv,
           \/ \E id \in ID : Upload(id)
           \/ \E s \in Stage, id \in ID, err \in BOOLEAN : Worker(s, id, err)
    PROVE  AgainAfterFault' /\ (\A k \in Listener : ForDatabase(k)') /\ GivenUpForDatabase'
<1> DEFINE Goal == AgainAfterFault' /\ (\A k \in Listener : ForDatabase(k)') /\ GivenUpForDatabase'
<1>1. ASSUME NEW id \in ID, Upload(id) PROVE Goal
  <2> DEFINE m == [l |-> "Decode", id |-> id, err |-> FALSE, redelivered |-> FALSE]
  <2>1. m \in Msg /\ ~m.redelivered
    BY DEF Msg, Listener
  <2>2. /\ ready' = [ready EXCEPT ![m] = @ + 1] /\ h' = h /\ up' = up /\ dropped' = dropped
        /\ dbFailed' = dbFailed /\ faults' = faults
    BY <1>1 DEF Upload
  <2> HIDE DEF m
  <2>3. QED
    BY <2>1, <2>2, ArriveGivesUp
<1>2. ASSUME NEW s \in Stage, NEW id \in ID, NEW err \in BOOLEAN, Worker(s, id, err) PROVE Goal
  <2> DEFINE m == [l |-> s, id |-> id, err |-> err, redelivered |-> FALSE]
  <2>1. m \in Msg /\ ~m.redelivered
    BY DEF Msg, Listener
  <2>2. /\ ready' = [ready EXCEPT ![m] = @ + 1] /\ h' = h /\ up' = up /\ dropped' = dropped
        /\ dbFailed' = dbFailed /\ (faults' = faults \/ faults' = faults + 1)
    BY <1>2 DEF Worker, Fault, dbVars
  <2> HIDE DEF m
  <2>3. QED
    BY <2>1, <2>2, ArriveGivesUp
<1> HIDE DEF Goal
<1>3. Goal
  BY <1>1, <1>2
<1>4. QED
  BY <1>3 DEF Goal

\* A message is taken.
LEMMA TakeGivesUp ==
    ASSUME GivenUpInv, NEW m \in Msg, NEW noSpeech \in BOOLEAN, Take(m, noSpeech)
    PROVE  AgainAfterFault' /\ (\A k \in Listener : ForDatabase(k)') /\ GivenUpForDatabase'
<1> DEFINE r == [id |-> m.id, err |-> m.err, redelivered |-> m.redelivered,
                 noSpeech |-> noSpeech, pc |-> Entry(m.l, m.err), ok |-> TRUE]
<1>1. /\ h' = [h EXCEPT ![m.l] = r] /\ ready' = [ready EXCEPT ![m] = @ - 1] /\ ready[m] > 0
      /\ up' = up /\ faults' = faults /\ dropped' = dropped /\ m.l \in Listener
      /\ dbFailed' = dbFailed
  BY DEF Take, Msg, dbVars
<1>2. r.ok /\ r.redelivered = m.redelivered
  OBVIOUS
<1> HIDE DEF r
<1>3. /\ h'[m.l] = r /\ (\A k \in Listener : k # m.l => h'[k] = h[k])
      /\ \A n \in Msg : ready'[n] > 0 => ready[n] > 0
  BY <1>1 DEF GivenUpInv, Shape, TypeOK
<1>4. AgainAfterFault'
  BY <1>1, <1>2, <1>3 DEF GivenUpInv, AgainAfterFault, Busy, Idle
<1>5. \A k \in Listener : ForDatabase(k)'
  BY <1>1, <1>2, <1>3 DEF GivenUpInv, ForDatabase, Busy, Idle
<1>6. QED
  BY <1>1, <1>4, <1>5 DEF GivenUpInv, GivenUpForDatabase

\* Only a handler that returns an error a second time gives up.
LEMMA SettleGivesUp ==
    ASSUME GivenUpInv, NEW l \in Listener, Settle(l)
    PROVE  AgainAfterFault' /\ (\A k \in Listener : ForDatabase(k)') /\ GivenUpForDatabase'
<1>1. /\ Shape /\ Busy(l) /\ HeldBy(l) \in Msg
      /\ h' = [h EXCEPT ![l] = Idle] /\ up' = up /\ faults' = faults
      /\ dropped' = IF MustDrop(l) THEN dropped \cup {h[l].id} ELSE dropped
      /\ dbFailed' = dbFailed
  BY AtIs DEF GivenUpInv, Shape, Settle, PC, dbVars
<1>2. h'[l] = Idle /\ \A k \in Listener : k # l => h'[k] = h[k]
  BY <1>1 DEF Shape, TypeOK
<1>3. PICK m \in Msg : m = HeldBy(l)
  BY <1>1
<1>4. IF MustRequeue(l) THEN ready' = [ready EXCEPT ![m] = @ + 1] ELSE ready' = ready
  BY <1>3 DEF Settle
<1>5. \A n \in Msg : ready'[n] > 0 => ready[n] > 0 \/ faults >= 1
  <2>1. CASE MustRequeue(l)
    BY <1>1, <2>1 DEF MustRequeue, GivenUpInv, ForDatabase
  <2>2. CASE ~MustRequeue(l)
    BY <1>4, <2>2
  <2>3. QED
    BY <2>1, <2>2
<1>6. AgainAfterFault'
  <2>1. \A k \in Listener : Busy(k)' => Busy(k) /\ h'[k] = h[k]
    BY <1>2 DEF Busy
  <2>2. QED
    BY <1>1, <1>5, <2>1 DEF GivenUpInv, AgainAfterFault
<1>7. \A k \in Listener : ForDatabase(k)'
  BY <1>1, <1>2 DEF GivenUpInv, ForDatabase, Busy
<1>8. GivenUpForDatabase'
  BY <1>1 DEF GivenUpInv, GivenUpForDatabase, ForDatabase, MustDrop
<1>9. QED
  BY <1>6, <1>7, <1>8

\* The restart ends all handlers, and gives nothing up.
LEMMA RestartGivesUp ==
    ASSUME GivenUpInv, Restart
    PROVE  AgainAfterFault' /\ (\A k \in Listener : ForDatabase(k)') /\ GivenUpForDatabase'
<1>1. faults \in Nat /\ ((ready' = ready /\ faults' = faults) \/ faults' = faults + 1)
  BY DEF Restart, Fault, GivenUpInv, Shape, TypeOK
<1>2. dropped' = dropped /\ dbFailed' = dbFailed /\ \A k \in Listener : ~Busy(k)'
  BY DEF Restart, Busy, dbVars
<1>3. AgainAfterFault'
  <2>1. ASSUME NEW m \in Msg, ready'[m] > 0, m.redelivered PROVE faults' >= 1
    <3>1. CASE ready' = ready /\ faults' = faults
      BY <2>1, <3>1 DEF GivenUpInv, AgainAfterFault
    <3>2. CASE faults' = faults + 1
      BY <1>1, <3>2
    <3>3. QED
      BY <1>1, <3>1, <3>2
  <2>2. QED
    BY <1>2, <2>1 DEF AgainAfterFault
<1>4. GivenUpForDatabase'
  BY <1>1, <1>2, StillForDatabase DEF GivenUpInv
<1>5. QED
  BY <1>2, <1>3, <1>4 DEF ForDatabase

\* Every step of the manager.
LEMMA GivenUpStep == GivenUpInv /\ [Next]_vars => GivenUpInv'
<1> DEFINE Goal == AgainAfterFault' /\ (\A k \in Listener : ForDatabase(k)') /\ GivenUpForDatabase'
<1> SUFFICES ASSUME GivenUpInv, [Next]_vars PROVE Goal
  BY ShapeStep DEF GivenUpInv
<1>1. CASE UNCHANGED vars
  <2>1. /\ h' = h /\ up' = up /\ ready' = ready /\ dropped' = dropped /\ faults' = faults
        /\ dbFailed' = dbFailed
    BY <1>1 DEF vars, dbVars
  <2>2. AgainAfterFault' /\ GivenUpForDatabase'
    BY <2>1 DEF GivenUpInv, AgainAfterFault, GivenUpForDatabase, Busy
  <2>3. \A k \in Listener : ForDatabase(k)'
    BY <2>1 DEF GivenUpInv, ForDatabase, Busy
  <2>4. QED
    BY <2>2, <2>3
<1>2. ASSUME NEW l \in Listener, Handle(l) PROVE Goal
  <2>1. HandlerStep(l) \/ Settle(l)
    BY <1>2 DEF Handle, HandlerStep
  <2>2. QED
    BY <2>1, HandlerGivesUp, SettleGivesUp
<1>3. ASSUME NEW m \in Msg, NEW noSpeech \in BOOLEAN, Take(m, noSpeech) PROVE Goal
  BY <1>3, TakeGivesUp
<1>4. CASE \/ \E id \in ID : Upload(id)
           \/ \E s \in Stage, id \in ID, err \in BOOLEAN : Worker(s, id, err)
  BY <1>4, EnvironmentGivesUp
<1>5. CASE Restart
  BY <1>5, RestartGivesUp
<1> HIDE DEF Goal
<1>6. QED
  BY <1>1, <1>2, <1>3, <1>4, <1>5 DEF Next

\* The inductive invariant of messages that are given up: who is to return an error
\* while the connection is open had a call of the database fail in this delivery,
\* and a message comes again only after a fault.
THEOREM GivenUpInvariant == Spec => []GivenUpInv
<1>1. Init => GivenUpInv
  <2> SUFFICES ASSUME Init PROVE GivenUpInv
    OBVIOUS
  <2>1. /\ \A m \in Msg : ready[m] = 0
        /\ \A l \in Listener : ~Busy(l)
        /\ dropped = {}
    BY DEF Init, Busy
  <2>2. QED
    BY <2>1, ShapeInit DEF GivenUpInv, AgainAfterFault, ForDatabase, GivenUpForDatabase
<1>2. QED
  BY <1>1, GivenUpStep, PTL DEF Spec

\* A message is given up only when the database failed in a delivery of it that was
\* not its first, and a fault came before that; nothing a broken connection, a crash
\* or a worker's repetition does makes the service do so by itself, however many of
\* them there are (listenQueue's Nack without requeue).
THEOREM OnlyForDatabase == Spec => []GivenUpForDatabase
<1>1. GivenUpInv => GivenUpForDatabase
  BY DEF GivenUpInv
<1>2. QED
  BY <1>1, GivenUpInvariant, PTL
-----------------------------------------------------------------------------
(***************************************************************************)
(* When all is done everybody knows the end.                               *)
(***************************************************************************)

\* What may be owed to others about a transcription: the message of a failure and
\* that of the end, the change of the status to the topic and to the parent, and the
\* report of a part.
Debt == {"failed", "finished", "topic", "parent", "report"}

\* The record shows what others were not told yet.
Owed(d, id) ==
    CASE d = "failed"   -> error[id] /\ "Failed" \notin told[id]
      [] d = "finished" -> ~error[id] /\ status[id] = Completed /\ "Finished" \notin told[id]
      [] d = "topic"    -> <<id, "topic">> \in unpublished
      [] d = "parent"   -> id \in Child /\ <<id, "parent">> \in unpublished
      [] d = "report"   -> id \in Child /\ Final(id) /\ id \notin reported

\* The handler has not saved the status or the error yet.
Before(l) == h[l].pc \in {"result", "available", "status", "error"}

\* It publishes what it has saved.
Publishes(l) == h[l].pc \in {"topic", "parent"}

\* It has still to come to the call that pays the debt.
Pays(d, l) ==
    CASE d = "failed"   -> h[l].pc = "failed" \/ (Publishes(l) /\ h[l].err)
      [] d = "finished" -> \/ h[l].pc \in {"report", "finished"}
                           \/ Publishes(l) /\ ~h[l].err /\ l = "ResultMake"
      [] d = "topic"    -> h[l].pc = "topic"
      [] d = "parent"   -> Publishes(l)
      [] d = "report"   -> \/ h[l].pc \in {"report", "failed", "reportFailed"}
                           \/ Publishes(l) /\ (h[l].err \/ l = "ResultMake")

\* The handler sees to it: it pays, saves something else before, or gives its
\* message back.
Follows(d, l, id) ==
    /\ up /\ Busy(l) /\ h[l].id = id
    /\ ~h[l].ok \/ Before(l) \/ Pays(d, l)

\* The debt has a message or a handler that follows it, or its message was given up.
Followed(d, id) == id \in dropped \/ Waiting(id) \/ \E l \in Listener : Follows(d, l, id)

\* Nothing is owed that is not followed.
Honest == \A d \in Debt, id \in ID : Owed(d, id) => Followed(d, id)

\* The invariant of OutcomeIsTold.
ToldInv == Kept /\ Honest

\* What a step of a handler owes of the other transcriptions is what was owed.
LEMMA OthersOwe ==
    ASSUME Shape, NEW l \in Listener, HandlerStep(l),
           NEW id \in ID, id # h[l].id, NEW d \in Debt
    PROVE  Owed(d, id)' => Owed(d, id)
<1>1. h[l].id \in ID /\ status'[id] = status[id] /\ error'[id] = error[id]
  BY HandlerMoves, HandlerKeeps, BusyIs DEF Shape, Handler
<1>2. told'[id] = told[id]
  <2>1. told' = told \/ \E type \in {"Started", "Finished", "Failed"} : Inform(h[l].id, type)
    BY Zenon DEF HandlerStep, SaveResult, SaveAvailable, SaveStatus, SaveError, sentVars,
                 Publish, InformStarted, SendNext, Report, InformFinished, InformFailed
  <2>2. QED
    BY <1>1, <2>1 DEF Inform, Shape, TypeOK
<1>3. \A a \in {"topic", "parent"} : <<id, a>> \in unpublished' => <<id, a>> \in unpublished
  <2>1. CASE SaveResult(l) \/ SaveAvailable(l) \/ SaveStatus(l) \/ SaveError(l)
    <3>1. unpublished' = unpublished \/ unpublished' = Unpublished(h[l].id)
      BY <2>1 DEF SaveResult, SaveAvailable, SaveStatus, SaveError, DbFault, sentVars
    <3>2. QED
      BY <3>1 DEF Unpublished
  <2>2. CASE ~(SaveResult(l) \/ SaveAvailable(l) \/ SaveStatus(l) \/ SaveError(l))
    <3>1. unpublished' \subseteq unpublished
      BY <2>2 DEF HandlerStep, Publish, InformStarted, SendNext, Report, InformFinished,
                  InformFailed
    <3>2. QED
      BY <3>1
  <2>3. QED
    BY <2>1, <2>2
<1>4. id \in reported => id \in reported'
  BY DEF HandlerStep, SaveResult, SaveAvailable, SaveStatus, SaveError, sentVars,
         Publish, InformStarted, SendNext, Report, InformFinished, InformFailed
<1>5. Final(id)' => Final(id)
  BY <1>1 DEF Final
<1>6. QED
  BY <1>1, <1>2, <1>3, <1>4, <1>5 DEF Owed, Debt

\* A handler that was to save first, and whose call failed, is to return an error.
LEMMA FailedFollows ==
    ASSUME NEW d \in Debt, NEW l \in Listener, NEW id, up', Busy(l)', h'[l].id = id,
           ~h'[l].ok
    PROVE  Follows(d, l, id)'
  BY DEF Follows

\* What the four saves do for the debts of their transcription.
LEMMA SavesFollow ==
    ASSUME Shape, NEW l \in Listener, NEW id \in ID, h[l].id = id, up', NEW d \in Debt,
           Owed(d, id)',
           SaveResult(l) \/ SaveAvailable(l) \/ SaveStatus(l) \/ SaveError(l)
    PROVE  Follows(d, l, id)'
<1>1. /\ Busy(l) /\ Moves(l) /\ Right(l) /\ h[l].noSpeech \in BOOLEAN
      /\ h[l].err \in BOOLEAN
  BY HandlerMoves, BusyIs DEF HandlerStep, Shape, Handler
<1>2. /\ Busy(l)' /\ h'[l].id = id /\ h'[l].err = h[l].err
  BY <1>1 DEF Moves, Busy, Idle, Handler, PC
<1>3. CASE SaveResult(l) \/ SaveAvailable(l)
  <2>1. Goto(l, "available") \/ Goto(l, "status") \/ Return(l, FALSE)
    BY <1>3 DEF SaveResult, SaveAvailable
  <2>2. h'[l].pc \in {"available", "status"} \/ ~h'[l].ok
    BY <1>1, <2>1, GotoMoves, ReturnMoves DEF Shape, PC
  <2>3. QED
    BY <1>2, <2>2 DEF Follows, Before
<1>4. CASE SaveError(l)
  <2>1. CASE error' = [error EXCEPT ![id] = TRUE] /\ Goto(l, "topic")
    <3>1. h'[l].pc = "topic" /\ h[l].pc = "error"
      BY <1>1, <1>4, <2>1, GotoMoves DEF Shape, PC, SaveError
    <3>2. h'[l].err /\ error'[id]
      BY <1>1, <1>2, <2>1, <3>1 DEF Right, Shape, TypeOK
    <3>3. d # "finished"
      BY <3>2 DEF Owed
    <3>4. Pays(d, l)'
      BY <3>1, <3>2, <3>3 DEF Pays, Publishes, Debt
    <3>5. QED
      BY <1>2, <3>4 DEF Follows
  <2>2. CASE Return(l, FALSE)
    BY <1>1, <1>2, <2>2, ReturnMoves, FailedFollows DEF Shape
  <2>3. QED
    BY <1>4, <2>1, <2>2 DEF SaveError
<1>5. CASE SaveStatus(l)
  <2>1. CASE /\ Goto(l, "topic") /\ error' = [error EXCEPT ![id] = FALSE]
             /\ status' = [status EXCEPT ![id] = NextStatus(l, id, h[l].noSpeech)]
    <3>1. h'[l].pc = "topic" /\ h[l].pc = "status"
      BY <1>1, <1>5, <2>1, GotoMoves DEF Shape, PC, SaveStatus
    <3>2. ~h'[l].err /\ ~error'[id] /\ (status'[id] = Completed => l = "ResultMake")
      BY <1>1, <1>2, <2>1, <3>1, NextStatusIs DEF Right, Shape, TypeOK
    <3>3. d # "failed" /\ (d \in {"finished", "report"} => l = "ResultMake")
      BY <3>2 DEF Owed, Final
    <3>4. Pays(d, l)'
      BY <3>1, <3>2, <3>3 DEF Pays, Publishes, Debt
    <3>5. QED
      BY <1>2, <3>4 DEF Follows
  <2>2. CASE h' = [h EXCEPT ![l].pc = IF l = "Decode" THEN "settle" ELSE "failed",
                            ![l].ok = FALSE]
    <3>1. h[l] \in Handler /\ h \in [Listener -> Handler \cup {Idle}]
      BY <1>1 DEF Moves, Shape, TypeOK
    <3>2. h'[l].ok = FALSE
      BY <2>2, <3>1 DEF Handler
    <3>3. QED
      BY <1>2, <3>2, FailedFollows
  <2>3. QED
    BY <1>5, <2>1, <2>2 DEF SaveStatus
<1>6. QED
  BY <1>3, <1>4, <1>5

\* A message that was sent leaves no new debt.
LEMMA SendsOwe ==
    ASSUME Shape, NEW l \in Listener, NEW id \in ID, h[l].id = id, NEW out \in SendOutcome,
           \/ Publish(l, out) \/ InformStarted(l, out) \/ SendNext(l, out)
           \/ Report(l, out) \/ InformFinished(l, out) \/ InformFailed(l, out),
           NEW d \in Debt, Owed(d, id)'
    PROVE  Owed(d, id)
<1>1. status' = status /\ error' = error /\ (Final(id)' <=> Final(id))
  BY DEF Publish, InformStarted, SendNext, Report, InformFinished, InformFailed, dbVars, Final
<1>2. unpublished' \subseteq unpublished /\ reported \subseteq reported'
  BY DEF Publish, InformStarted, SendNext, Report, InformFinished, InformFailed
<1>3. told[id] \subseteq told'[id]
  <2>1. told' = told \/ \E type \in {"Started", "Finished", "Failed"} : Inform(id, type)
    BY Zenon DEF Publish, InformStarted, SendNext, Report, InformFinished, InformFailed
  <2>2. QED
    BY <2>1 DEF Inform, Shape, TypeOK
<1>4. QED
  BY <1>1, <1>2, <1>3 DEF Owed, Debt

\* What the sends do, while the connection lasts: the debt is paid, or who followed
\* it still does.
LEMMA SendsFollow ==
    ASSUME Shape, NEW l \in Listener, NEW id \in ID, h[l].id = id, up',
           NEW out \in SendOutcome,
           \/ Publish(l, out) \/ InformStarted(l, out) \/ SendNext(l, out)
           \/ Report(l, out) \/ InformFinished(l, out) \/ InformFailed(l, out),
           NEW d \in Debt, Owed(d, id)', Follows(d, l, id)
    PROVE  Follows(d, l, id)'
<1>1. /\ Busy(l) /\ Moves(l) /\ Right(l) /\ h[l].noSpeech \in BOOLEAN
      /\ h[l].err \in BOOLEAN
  BY HandlerMoves, BusyIs DEF HandlerStep, Shape, Handler
<1>2. /\ Busy(l)' /\ h'[l].id = id /\ h'[l].err = h[l].err
  BY <1>1 DEF Moves, Busy, Idle, Handler, PC
<1>3. out # "failed"
  <2>1. SendOver(out)
    BY DEF Publish, InformStarted, SendNext, Report, InformFinished, InformFailed
  <2>2. QED
    BY <2>1, SendIs DEF Shape
<1>4. ~h[l].ok \/ Pays(d, l)
  BY DEF Follows, Before, Publish, InformStarted, SendNext, Report, InformFinished, InformFailed
<1>5. CASE InformStarted(l, out) \/ SendNext(l, out)
  BY <1>1, <1>4, <1>5 DEF InformStarted, SendNext, Right, Pays, Publishes, Debt
<1>6. CASE InformFinished(l, out)
  <2>1. h[l].pc = "finished" /\ h[l].ok /\ Inform(id, "Finished")
    BY <1>1, <1>3, <1>6 DEF InformFinished, Right
  <2>2. d = "finished"
    BY <1>4, <2>1 DEF Pays, Publishes, Debt
  <2>3. "Finished" \in told'[id]
    BY <2>1 DEF Inform, Shape, TypeOK
  <2>4. QED
    BY <2>2, <2>3 DEF Owed
<1>7. CASE InformFailed(l, out)
  <2>1. /\ h[l].pc = "failed" /\ Inform(id, "Failed")
        /\ Goto(l, IF id \in Child THEN "reportFailed" ELSE "settle")
    BY <1>3, <1>7 DEF InformFailed
  <2>2. h'[l].ok = h[l].ok /\ h'[l].pc = IF id \in Child THEN "reportFailed" ELSE "settle"
    BY <1>1, <2>1, GotoMoves DEF Shape, PC
  <2>3. CASE h[l].ok
    <3>1. d \in {"failed", "report"}
      BY <1>4, <2>1, <2>3 DEF Pays, Publishes, Debt
    <3>2. "Failed" \in told'[id]
      BY <2>1 DEF Inform, Shape, TypeOK
    <3>3. d = "report" /\ id \in Child
      BY <3>1, <3>2 DEF Owed
    <3>4. Pays(d, l)'
      BY <2>2, <3>3 DEF Pays
    <3>5. QED
      BY <1>2, <3>4 DEF Follows
  <2>4. CASE ~h[l].ok
    BY <1>2, <2>2, <2>4, FailedFollows
  <2>5. QED
    BY <2>3, <2>4
<1>8. CASE Report(l, out)
  <2>1. /\ h[l].pc \in {"report", "reportFailed"} /\ id \in reported'
        /\ Goto(l, IF h[l].pc = "report" THEN "finished" ELSE "settle")
    BY <1>3, <1>8 DEF Report
  <2>2. /\ h'[l].ok = h[l].ok
        /\ h'[l].pc = IF h[l].pc = "report" THEN "finished" ELSE "settle"
    BY <1>1, <2>1, GotoMoves DEF Shape, PC
  <2>3. CASE h[l].ok
    <3>1. d # "report"
      BY <2>1 DEF Owed
    <3>2. d = "finished" /\ h[l].pc = "report"
      BY <1>4, <2>1, <2>3, <3>1 DEF Pays, Publishes, Debt
    <3>3. Pays(d, l)'
      BY <2>2, <3>2 DEF Pays
    <3>4. QED
      BY <1>2, <3>3 DEF Follows
  <2>4. CASE ~h[l].ok
    BY <1>2, <2>2, <2>4, FailedFollows
  <2>5. QED
    BY <2>3, <2>4
<1>9. CASE Publish(l, out)
  <2> DEFINE to == IF h[l].pc = "topic" /\ id \in Child THEN "parent"
                   ELSE AfterPublish(l, id, h[l].err)
  <2>1. /\ h[l].pc \in {"topic", "parent"} /\ Goto(l, to)
        /\ unpublished' = unpublished \ {<<id, h[l].pc>>}
    BY <1>3, <1>9 DEF Publish
  <2>2. h[l].ok
    BY <1>1, <2>1 DEF Right
  <2>3. Pays(d, l)
    BY <1>4, <2>2
  <2>4. d # h[l].pc
    BY <2>1 DEF Owed
  <2>5. /\ h[l].pc = "topic" /\ id \in Child => to = "parent"
        /\ to # "parent" =>
              /\ h[l].err => to = "failed"
              /\ ~h[l].err /\ l = "ResultMake" => to = IF id \in Child THEN "report" ELSE "finished"
        /\ to \in PC
    BY <1>1 DEF AfterPublish, PC
  <2> HIDE DEF to
  <2>6. h'[l].pc = to
    BY <1>1, <2>1, <2>5, GotoMoves DEF Shape
  <2>7. CASE to = "parent"
    <3>1. Pays(d, l)'
      BY <1>2, <2>1, <2>3, <2>4, <2>6, <2>7 DEF Pays, Publishes, Debt
    <3>2. QED
      BY <1>2, <3>1 DEF Follows
  <2>8. CASE to # "parent"
    <3>1. d # "parent"
      <4>1. CASE h[l].pc = "topic"
        BY <2>5, <2>8, <4>1 DEF Owed
      <4>2. CASE h[l].pc = "parent"
        BY <2>4, <4>2
      <4>3. QED
        BY <2>1, <4>1, <4>2
    <3>2. d # "topic"
      BY <2>3, <2>4 DEF Pays
    <3>3. d = "report" => id \in Child
      BY DEF Owed
    <3>4. Pays(d, l)'
      BY <1>1, <2>1, <2>3, <2>5, <2>6, <2>8, <3>1, <3>2, <3>3 DEF Pays, Publishes, Debt
    <3>5. QED
      BY <1>2, <3>4 DEF Follows
  <2>9. QED
    BY <2>7, <2>8
<1>10. QED
  BY <1>5, <1>6, <1>7, <1>8, <1>9

\* Who followed a debt still does after a step of a handler, unless it is that
\* handler over a connection that lasts: a message waits longer, other handlers stay
\* where they are, and with the connection they lose the message goes back.
LEMMA HandlerLetsFollow ==
    ASSUME Kept, NEW l \in Listener, HandlerStep(l), NEW id \in ID, NEW d \in Debt,
           Followed(d, id), ~Follows(d, l, id) \/ ~up'
    PROVE  Followed(d, id)'
<1>1. Shape /\ Busy(l) /\ Moves(l)
  BY HandlerMoves DEF Kept
<1>2. CASE id \in dropped
  BY <1>1, <1>2, HandlerKeeps DEF Followed
<1>3. CASE Waiting(id)
  <2>1. Waiting(id)'
    BY <1>1, <1>3, HandlerKeeps DEF Waiting
  <2>2. QED
    BY <2>1 DEF Followed
<1>4. ASSUME NEW k \in Listener, Follows(d, k, id) PROVE Followed(d, id)'
  <2>1. up /\ Busy(k) /\ h[k].id = id
    BY <1>4 DEF Follows
  <2>2. CASE ~up'
    <3>1. HeldBy(k) \in Msg /\ Requeued(HeldBy(k)) /\ HeldBy(k).id = id
      BY <1>1, <2>1, BusyIs DEF Shape, Requeued, HeldBy
    <3>2. ready'[HeldBy(k)] > 0
      BY <1>1, <2>1, <2>2, <3>1, HandlerKeeps
    <3>3. PICK n \in Msg : n = HeldBy(k)
      BY <3>1
    <3>4. n.id = id /\ ready'[n] > 0
      BY <3>1, <3>2, <3>3
    <3>5. Waiting(id)'
      BY <3>4 DEF Waiting
    <3>6. QED
      BY <3>5 DEF Followed
  <2>3. CASE up'
    <3>1. k # l
      BY <1>4, <2>3
    <3>2. h'[k] = h[k]
      BY <1>1, <3>1 DEF Moves
    <3>3. Follows(d, k, id)'
      BY <1>4, <2>3, <3>2 DEF Follows, Busy, Idle, Before, Pays, Publishes, Debt
    <3>4. QED
      BY <3>3 DEF Followed
  <2>4. QED
    BY <2>2, <2>3
<1>5. QED
  BY <1>2, <1>3, <1>4 DEF Followed

\* A step of a handler.
LEMMA HandlerHonest ==
    ASSUME ToldInv, NEW l \in Listener, HandlerStep(l)
    PROVE  Honest'
<1> SUFFICES ASSUME NEW d \in Debt, NEW id \in ID, Owed(d, id)' PROVE Followed(d, id)'
  BY DEF Honest
<1>1. Kept /\ Shape /\ Busy(l) /\ Moves(l) /\ (Owed(d, id) => Followed(d, id))
  BY HandlerMoves DEF ToldInv, Kept, Honest
<1>2. CASE h[l].id # id
  <2>1. Owed(d, id) /\ ~Follows(d, l, id)
    BY <1>1, <1>2, OthersOwe DEF Follows
  <2>2. QED
    BY <1>1, <2>1, HandlerLetsFollow
<1>3. CASE h[l].id = id /\ up'
  <2>1. CASE SaveResult(l) \/ SaveAvailable(l) \/ SaveStatus(l) \/ SaveError(l)
    <3>1. Follows(d, l, id)'
      BY <1>1, <1>3, <2>1, SavesFollow
    <3>2. QED
      BY <3>1 DEF Followed
  <2>2. ASSUME NEW out \in SendOutcome,
               \/ Publish(l, out) \/ InformStarted(l, out) \/ SendNext(l, out)
               \/ Report(l, out) \/ InformFinished(l, out) \/ InformFailed(l, out)
        PROVE  Followed(d, id)'
    <3>1. Owed(d, id)
      BY <1>1, <1>3, <2>2, SendsOwe
    <3>2. CASE Follows(d, l, id)
      <4>1. Follows(d, l, id)'
        BY <1>1, <1>3, <2>2, <3>2, SendsFollow
      <4>2. QED
        BY <4>1 DEF Followed
    <3>3. CASE ~Follows(d, l, id)
      BY <1>1, <3>1, <3>3, HandlerLetsFollow
    <3>4. QED
      BY <3>2, <3>3
  <2>3. QED
    BY <2>1, <2>2 DEF HandlerStep
<1>4. CASE h[l].id = id /\ ~up'
  <2>1. HeldBy(l) \in Msg /\ Requeued(HeldBy(l)) /\ HeldBy(l).id = id
    BY <1>1, <1>4, BusyIs DEF Shape, Requeued, HeldBy
  <2>2. ready'[HeldBy(l)] > 0
    <3>1. CASE up
      BY <1>1, <1>4, <2>1, <3>1, HandlerKeeps
    <3>2. CASE ~up
      BY <1>1, <2>1, <3>2, HandlerKeeps DEF Kept, ZombieIsRequeued
    <3>3. QED
      BY <3>1, <3>2
  <2>3. PICK m \in Msg : m = HeldBy(l)
    BY <2>1
  <2>4. m.id = id /\ ready'[m] > 0
    BY <2>1, <2>2, <2>3
  <2>5. Waiting(id)'
    BY <2>4 DEF Waiting
  <2>6. QED
    BY <2>5 DEF Followed
<1>5. QED
  BY <1>2, <1>3, <1>4

\* A new message follows every debt of its transcription.
LEMMA ArriveHonest ==
    ASSUME ToldInv, NEW m \in Msg, ready' = [ready EXCEPT ![m] = @ + 1],
           \A s \in Stage, i \in ID : i # m.id => work'[s][i] = work[s][i],
           \A i \in ID : i # m.id => status'[i] = status[i],
           h' = h, up' = up, error' = error, unpublished' = unpublished, told' = told,
           reported' = reported, dropped' = dropped
    PROVE  Honest'
<1> SUFFICES ASSUME NEW d \in Debt, NEW id \in ID, Owed(d, id)' PROVE Followed(d, id)'
  BY DEF Honest
<1>1. \A n \in Msg : (ready[n] > 0 => ready'[n] > 0) /\ ready'[m] > 0
  BY ArriveKept DEF ToldInv
<1>2. CASE id = m.id
  BY <1>1, <1>2 DEF Followed, Waiting
<1>3. CASE id # m.id
  <2>1. Owed(d, id)
    BY <1>3 DEF Owed, Final, Debt
  <2>2. Followed(d, id)
    BY <2>1 DEF ToldInv, Honest
  <2>3. Waiting(id) => Waiting(id)'
    BY <1>1, <1>3 DEF Waiting
  <2>4. \A l \in Listener : Follows(d, l, id) => Follows(d, l, id)'
    BY DEF Follows, Busy, Before, Pays, Publishes, Debt
  <2>5. QED
    BY <2>2, <2>3, <2>4 DEF Followed
<1>4. QED
  BY <1>2, <1>3

\* The upload service sends the first message, a worker its answer.
LEMMA EnvironmentHonest ==
    ASSUME ToldInv,
           \/ \E id \in ID : Upload(id)
           \/ \E s \in Stage, id \in ID, err \in BOOLEAN : Worker(s, id, err)
    PROVE  Honest'
<1>1. ASSUME NEW id \in ID, Upload(id) PROVE Honest'
  <2> DEFINE m == [l |-> "Decode", id |-> id, err |-> FALSE, redelivered |-> FALSE]
  <2>1. m \in Msg /\ m.id = id
    BY DEF Msg, Listener
  <2>2. /\ ready' = [ready EXCEPT ![m] = @ + 1] /\ h' = h /\ up' = up /\ dropped' = dropped
        /\ work' = work /\ error' = error /\ unpublished' = unpublished /\ told' = told
        /\ reported' = reported /\ \A i \in ID : i # id => status'[i] = status[i]
    BY <1>1 DEF Upload, sentVars, ToldInv, Kept, Shape, TypeOK
  <2> HIDE DEF m
  <2>3. QED
    BY <2>1, <2>2, ArriveHonest
<1>2. ASSUME NEW s \in Stage, NEW id \in ID, NEW err \in BOOLEAN, Worker(s, id, err)
      PROVE  Honest'
  <2> DEFINE m == [l |-> s, id |-> id, err |-> err, redelivered |-> FALSE]
  <2>1. m \in Msg /\ m.id = id
    BY DEF Msg, Listener
  <2>2. /\ ready' = [ready EXCEPT ![m] = @ + 1] /\ h' = h /\ up' = up /\ dropped' = dropped
        /\ status' = status /\ error' = error /\ unpublished' = unpublished /\ told' = told
        /\ reported' = reported
        /\ \A t \in Stage, i \in ID : i # id => work'[t][i] = work[t][i]
    BY <1>2 DEF Worker, dbVars, sentVars, ToldInv, Kept, Shape, TypeOK
  <2> HIDE DEF m
  <2>3. QED
    BY <2>1, <2>2, ArriveHonest
<1>3. QED
  BY <1>1, <1>2

\* The listener that takes a message has not saved anything yet.
LEMMA TakeHonest ==
    ASSUME ToldInv, NEW m \in Msg, NEW noSpeech \in BOOLEAN, Take(m, noSpeech)
    PROVE  Honest'
<1> SUFFICES ASSUME NEW d \in Debt, NEW id \in ID, Owed(d, id)' PROVE Followed(d, id)'
  BY DEF Honest
<1> DEFINE r == [id |-> m.id, err |-> m.err, redelivered |-> m.redelivered,
                 noSpeech |-> noSpeech, pc |-> Entry(m.l, m.err), ok |-> TRUE]
<1>1. m.l \in Listener /\ m.id \in ID /\ m.err \in BOOLEAN
  BY DEF Msg
<1>2. r.id = m.id /\ r.pc \in {"error", "result", "status"}
  BY <1>1 DEF Entry
<1>3. h' = [h EXCEPT ![m.l] = r] /\ ready' = [ready EXCEPT ![m] = @ - 1]
  BY DEF Take
<1> HIDE DEF r
<1>4. /\ up /\ up' /\ work' = work /\ status' = status /\ error' = error
      /\ unpublished' = unpublished /\ told' = told /\ reported' = reported
      /\ dropped' = dropped /\ ~Busy(m.l)
  BY DEF Take, dbVars, sentVars, Busy
<1>5. h'[m.l] = r /\ \A k \in Listener : k # m.l => h'[k] = h[k]
  BY <1>1, <1>3 DEF ToldInv, Kept, Shape, TypeOK
<1>6. \A n \in Msg : n # m => ready'[n] = ready[n]
  BY <1>3 DEF ToldInv, Kept, Shape, TypeOK
<1>7. r # Idle
  <2>1. Idle.pc = "idle"
    BY DEF Idle
  <2>2. QED
    BY <1>2, <2>1
<1>8. Followed(d, id)
  <2>1. Owed(d, id)
    BY <1>4 DEF Owed, Final, Debt
  <2>2. QED
    BY <2>1 DEF ToldInv, Honest
<1>9. CASE id = m.id
  <2>1. Follows(d, m.l, id)'
    BY <1>2, <1>4, <1>5, <1>7, <1>9 DEF Follows, Busy, Idle, Before
  <2>2. QED
    BY <1>1, <2>1 DEF Followed
<1>10. CASE id # m.id
  <2>1. Waiting(id) => Waiting(id)'
    BY <1>4, <1>6, <1>10 DEF Waiting
  <2>2. ASSUME NEW k \in Listener, Follows(d, k, id) PROVE Follows(d, k, id)'
    <3>1. k # m.l
      BY <1>4, <2>2 DEF Follows
    <3>2. h'[k] = h[k]
      BY <1>5, <3>1
    <3>3. QED
      BY <1>4, <2>2, <3>2 DEF Follows, Busy, Idle, Before, Pays, Publishes, Debt
  <2>3. QED
    BY <1>4, <1>8, <2>1, <2>2 DEF Followed
<1>11. QED
  BY <1>9, <1>10

\* A handler that is done pays nothing more: it gives its message back, or up, if it
\* was to.
LEMMA SettleHonest ==
    ASSUME ToldInv, NEW l \in Listener, Settle(l)
    PROVE  Honest'
<1> SUFFICES ASSUME NEW d \in Debt, NEW id \in ID, Owed(d, id)' PROVE Followed(d, id)'
  BY DEF Honest
<1>1. /\ h[l].pc = "settle" /\ h' = [h EXCEPT ![l] = Idle] /\ up' = up /\ work' = work
      /\ status' = status /\ error' = error /\ unpublished' = unpublished
      /\ told' = told /\ reported' = reported
  BY DEF Settle, dbVars, sentVars
<1>2. Busy(l) /\ HeldBy(l) \in Msg /\ HeldBy(l).id = h[l].id /\ Shape
  BY <1>1, AtIs DEF ToldInv, Kept, Shape, PC, HeldBy
<1>3. h'[l] = Idle /\ \A k \in Listener : k # l => h'[k] = h[k]
  BY <1>1 DEF ToldInv, Kept, Shape, TypeOK
<1>4. PICK m \in Msg : m = HeldBy(l)
  BY <1>2
<1>5. IF MustRequeue(l) THEN ready' = [ready EXCEPT ![m] = @ + 1] ELSE ready' = ready
  BY <1>4 DEF Settle
<1>6. \A n \in Msg : ready[n] > 0 => ready'[n] > 0
  BY <1>5, ArriveKept DEF ToldInv
<1>7. dropped' = IF MustDrop(l) THEN dropped \cup {h[l].id} ELSE dropped
  BY DEF Settle
<1>8. Followed(d, id)
  <2>1. Owed(d, id)
    BY <1>1 DEF Owed, Final, Debt
  <2>2. QED
    BY <2>1 DEF ToldInv, Honest
<1>9. Waiting(id) => Waiting(id)'
  BY <1>1, <1>6 DEF Waiting
<1>10. ASSUME NEW k \in Listener, k # l, Follows(d, k, id) PROVE Follows(d, k, id)'
  BY <1>1, <1>3, <1>10 DEF Follows, Busy, Idle, Before, Pays, Publishes, Debt
<1>11. CASE ~Follows(d, l, id)
  BY <1>7, <1>8, <1>9, <1>10, <1>11 DEF Followed
<1>12. CASE Follows(d, l, id)
  <2>1. up /\ h[l].id = id /\ ~h[l].ok
    BY <1>1, <1>12 DEF Follows, Before, Pays, Publishes, Debt
  <2>2. CASE h[l].redelivered
    BY <1>7, <2>1, <2>2 DEF MustDrop, Followed
  <2>3. CASE ~h[l].redelivered
    <3>1. ready'[m] > 0 /\ m.id = id
      BY <1>2, <1>4, <1>5, <2>1, <2>3, ArriveKept DEF MustRequeue, ToldInv
    <3>2. Waiting(id)'
      BY <3>1 DEF Waiting
    <3>3. QED
      BY <3>2 DEF Followed
  <2>4. QED
    BY <2>2, <2>3
<1>13. QED
  BY <1>11, <1>12

\* A restart returns the messages of those who followed a debt.
LEMMA RestartHonest ==
    ASSUME ToldInv, Restart
    PROVE  Honest'
<1> SUFFICES ASSUME NEW d \in Debt, NEW id \in ID, Owed(d, id)' PROVE Followed(d, id)'
  BY DEF Honest
<1>1. /\ up' = TRUE /\ work' = work /\ status' = status /\ error' = error
      /\ unpublished' = unpublished /\ told' = told /\ reported' = reported
      /\ dropped' = dropped
  BY DEF Restart, dbVars, sentVars
<1>2. /\ \A m \in Msg : ready'[m] >= ready[m] /\ ready[m] \in Nat /\ ready'[m] \in Nat
      /\ up => \A m \in Msg : Requeued(m) => ready'[m] > 0
  BY RestartIs DEF ToldInv, Kept, Shape, TypeOK
<1>3. \A m \in Msg : ready[m] > 0 => ready'[m] > 0
  BY <1>2
<1>4. Followed(d, id)
  <2>1. Owed(d, id)
    BY <1>1 DEF Owed, Final, Debt
  <2>2. QED
    BY <2>1 DEF ToldInv, Honest
<1>5. Waiting(id) => Waiting(id)'
  BY <1>1, <1>3 DEF Waiting
<1>6. ASSUME NEW k \in Listener, Follows(d, k, id) PROVE Followed(d, id)'
  <2>1. up /\ Busy(k) /\ h[k].id = id
    BY <1>6 DEF Follows
  <2>2. HeldBy(k) \in Msg /\ Requeued(HeldBy(k)) /\ HeldBy(k).id = id
    BY <2>1, BusyIs DEF ToldInv, Kept, Shape, Requeued, HeldBy
  <2>3. PICK m \in Msg : m = HeldBy(k)
    BY <2>2
  <2>4. m.id = id /\ ready'[m] > 0
    BY <1>2, <2>1, <2>2, <2>3
  <2>5. Waiting(id)'
    BY <2>4 DEF Waiting
  <2>6. QED
    BY <2>5 DEF Followed
<1>7. QED
  BY <1>1, <1>4, <1>5, <1>6 DEF Followed

\* Every step of the manager.
LEMMA ToldStep == ToldInv /\ [Next]_vars => ToldInv'
<1> SUFFICES ASSUME ToldInv, [Next]_vars PROVE Honest'
  BY KeptStep DEF ToldInv
<1>1. CASE UNCHANGED vars
  <2>1. /\ ready' = ready /\ work' = work /\ h' = h /\ up' = up /\ status' = status
        /\ error' = error /\ unpublished' = unpublished /\ told' = told
        /\ reported' = reported /\ dropped' = dropped
    BY <1>1 DEF vars, dbVars, sentVars
  <2> SUFFICES ASSUME NEW d \in Debt, NEW id \in ID, Owed(d, id)' PROVE Followed(d, id)'
    BY DEF Honest
  <2>2. Owed(d, id)
    BY <2>1 DEF Owed, Final, Debt
  <2>3. Followed(d, id)
    BY <2>2 DEF ToldInv, Honest
  <2>4. Waiting(id) => Waiting(id)'
    BY <2>1 DEF Waiting
  <2>5. \A l \in Listener : Follows(d, l, id) => Follows(d, l, id)'
    BY <2>1 DEF Follows, Busy, Before, Pays, Publishes, Debt
  <2>6. QED
    BY <2>1, <2>3, <2>4, <2>5 DEF Followed
<1>2. ASSUME NEW l \in Listener, Handle(l) PROVE Honest'
  <2>1. HandlerStep(l) \/ Settle(l)
    BY <1>2 DEF Handle, HandlerStep
  <2>2. QED
    BY <2>1, HandlerHonest, SettleHonest
<1>3. ASSUME NEW m \in Msg, NEW noSpeech \in BOOLEAN, Take(m, noSpeech) PROVE Honest'
  BY <1>3, TakeHonest
<1>4. CASE \/ \E id \in ID : Upload(id)
           \/ \E s \in Stage, id \in ID, err \in BOOLEAN : Worker(s, id, err)
  BY <1>4, EnvironmentHonest
<1>5. CASE Restart
  BY <1>5, RestartHonest
<1>6. QED
  BY <1>1, <1>2, <1>3, <1>4, <1>5 DEF Next

\* What is owed to others is followed by a message or a handler, whatever fails and
\* however often.
THEOREM ToldInvariant == Spec => []ToldInv
<1>1. Init => ToldInv
  <2> SUFFICES ASSUME Init PROVE Honest
    BY KeptInit DEF ToldInv
  <2> SUFFICES ASSUME NEW d \in Debt, NEW id \in ID, Owed(d, id) PROVE FALSE
    BY DEF Honest
  <2>1. ~error[id] /\ status[id] # Completed /\ unpublished = {}
    BY DEF Init, Completed
  <2>2. ~Final(id)
    BY <2>1 DEF Final
  <2>3. QED
    BY <2>1, <2>2 DEF Owed, Debt
<1>2. QED
  BY <1>1, ToldStep, PTL DEF Spec

\* When nothing is left to do for a transcription whose messages were not given up,
\* its owner was told of the end that the record shows, the topic and the parent of
\* the last change, and the parent has the report of its part: also when sends fail,
\* whose errors are only logged, because the lost connection brings the message of
\* the handler back (sendInformFailure, publishStatusChange).
THEOREM EverybodyIsTold == Spec => []OutcomeIsTold
<1>1. ASSUME ToldInv, NEW id \in ID, Quiet(id), id \notin dropped
      PROVE  \A d \in Debt : ~Owed(d, id)
  <2>1. \A d \in Debt : ~Followed(d, id)
    BY <1>1 DEF Followed, Follows, Quiet
  <2>2. QED
    BY <1>1, <2>1 DEF ToldInv, Honest
<1>2. ToldInv => OutcomeIsTold
  <2> SUFFICES ASSUME ToldInv, NEW id \in ID, Quiet(id), id \notin dropped
               PROVE  /\ error[id] => "Failed" \in told[id]
                      /\ ~error[id] /\ status[id] = Completed => "Finished" \in told[id]
                      /\ \A a \in Audience(id) : <<id, a>> \notin unpublished
                      /\ Final(id) /\ id \in Child => id \in reported
    BY DEF OutcomeIsTold
  <2>1. /\ ~Owed("failed", id) /\ ~Owed("finished", id) /\ ~Owed("topic", id)
        /\ ~Owed("parent", id) /\ ~Owed("report", id)
    BY <1>1 DEF Debt
  <2>2. QED
    BY <2>1 DEF Owed, Audience
<1>3. QED
  BY <1>2, ToldInvariant, PTL
-----------------------------------------------------------------------------
(***************************************************************************)
(* As long as nothing failed a transcription is in one place, and its      *)
(* status only advances.                                                   *)
(***************************************************************************)

\* The handler has saved an end and is to tell it to the owner.
Ends(l, id) ==
    /\ Busy(l) /\ h[l].id = id
    /\ \/ h[l].pc \in {"report", "finished", "failed"}
       \/ Publishes(l) /\ AfterPublish(l, id, h[l].err) \notin {"started", "next"}

\* The ends of which the owner is told.
Outcome == {"Finished", "Failed"}

\* Where a transcription is: in a queue, at a worker, at a handler that is to pass
\* it on, at one that is to tell its end, or with its owner.
Token(id) ==
    {<<"ready", m>> : m \in {n \in Msg : n.id = id /\ ready[n] > 0}}
    \cup {<<"work", s>> : s \in {t \in Stage : work[t][id] > 0}}
    \cup {<<"duty", l>> : l \in {k \in Listener : OnDuty(k, id)}}
    \cup {<<"end", l>> : l \in {k \in Listener : Ends(k, id)}}
    \cup {<<"told", t>> : t \in told[id] \cap Outcome}

\* It is in one place, once.
Sole(id) ==
    /\ \A x, y \in Token(id) : x = y
    /\ \A m \in Msg : m.id = id => ready[m] <= 1
    /\ \A s \in Stage : work[s][id] <= 1
    /\ status[id] = 0 => Token(id) = {} /\ ~error[id]

\* The status with which the message of a queue is sent.
StatusAt(l) == IF l = "Decode" THEN Uploaded ELSE StatusOf[l]

\* The record shows the stage it is at, and no end.
Reached(id) ==
    /\ \A m \in Msg : m.id = id /\ ready[m] > 0 => ~error[id] /\ status[id] = StatusAt(m.l)
    /\ \A s \in Stage : work[s][id] > 0 => ~error[id] /\ status[id] = StatusAt(s)
    /\ \A l \in Listener : OnDuty(l, id) =>
          /\ ~error[id]
          /\ status[id] = IF Before(l) THEN StatusAt(l)
                                       ELSE NextStatus(l, id, h[l].noSpeech)

\* The connection is open and no handler is to return an error.
Undisturbed == up /\ \A l \in Listener : Busy(l) => h[l].ok

\* The invariant of OneOutcome and StatusAdvances.
OneInv == Shape /\ (faults = 0 => Undisturbed /\ \A id \in ID : Sole(id) /\ Reached(id))

\* The status that a handler saves is above that of its message, and is the one of
\* the stage it sends to.
LEMMA NextStatusAdvances ==
    ASSUME NEW l \in Listener, NEW id \in ID, NEW noSpeech \in BOOLEAN
    PROVE  /\ StatusAt(l) \in 1 .. 7 /\ NextStatus(l, id, noSpeech) \in 2 .. 9
           /\ NextStatus(l, id, noSpeech) > StatusAt(l)
           /\ NextStage(l, id, noSpeech) \in Stage =>
                NextStatus(l, id, noSpeech) = StatusAt(NextStage(l, id, noSpeech))
<1>1. CASE l = "Decode"
  BY <1>1 DEF NextStatus, NextStage, StatusAt, StatusOf, Uploaded, Stage
<1>2. CASE l = "SplitChannels"
  BY <1>2 DEF NextStatus, NextStage, StatusAt, StatusOf, Stage
<1>3. CASE l = "AudioConvert"
  BY <1>3 DEF NextStatus, NextStage, StatusAt, StatusOf, Stage
<1>4. CASE l = "Diarization"
  BY <1>4 DEF NextStatus, NextStage, StatusAt, StatusOf, Stage
<1>5. CASE l = "Transcription"
  BY <1>5 DEF NextStatus, NextStage, StatusAt, StatusOf, Stage
<1>6. CASE l = "Rescore"
  BY <1>6 DEF NextStatus, NextStage, StatusAt, StatusOf, Stage
<1>7. CASE l = "ResultMake"
  BY <1>7 DEF NextStatus, NextStage, StatusAt, StatusOf, Stage, Completed
<1>8. QED
  BY <1>1, <1>2, <1>3, <1>4, <1>5, <1>6, <1>7 DEF Listener, Stage

\* The places are of five kinds.
LEMMA TokenIs ==
    ASSUME NEW id
    PROVE  /\ \A m \in Msg : m.id = id /\ ready[m] > 0 => <<"ready", m>> \in Token(id)
           /\ \A s \in Stage : work[s][id] > 0 => <<"work", s>> \in Token(id)
           /\ \A l \in Listener : OnDuty(l, id) => <<"duty", l>> \in Token(id)
           /\ \A l \in Listener : Ends(l, id) => <<"end", l>> \in Token(id)
           /\ \A t \in Outcome : t \in told[id] => <<"told", t>> \in Token(id)
           /\ \A x \in Token(id) :
                \/ \E m \in Msg : m.id = id /\ ready[m] > 0 /\ x = <<"ready", m>>
                \/ \E s \in Stage : work[s][id] > 0 /\ x = <<"work", s>>
                \/ \E l \in Listener : OnDuty(l, id) /\ x = <<"duty", l>>
                \/ \E l \in Listener : Ends(l, id) /\ x = <<"end", l>>
                \/ \E t \in Outcome : t \in told[id] /\ x = <<"told", t>>
  BY DEF Token

\* What is at one handler that is to pass it on is nowhere else.
LEMMA DutyAlone ==
    ASSUME NEW id, Sole(id), NEW l \in Listener, OnDuty(l, id)
    PROVE  /\ \A m \in Msg : ~(m.id = id /\ ready[m] > 0)
           /\ \A s \in Stage : ~(work[s][id] > 0)
           /\ \A k \in Listener : OnDuty(k, id) => k = l
           /\ \A k \in Listener : ~Ends(k, id)
           /\ \A t \in Outcome : t \notin told[id]
<1>1. \A x \in Token(id) : x = <<"duty", l>>
  BY TokenIs DEF Sole
<1>2. QED
  BY <1>1, TokenIs

\* Likewise at one that is to tell the end.
LEMMA EndAlone ==
    ASSUME NEW id, Sole(id), NEW l \in Listener, Ends(l, id)
    PROVE  /\ \A m \in Msg : ~(m.id = id /\ ready[m] > 0)
           /\ \A s \in Stage : ~(work[s][id] > 0)
           /\ \A k \in Listener : ~OnDuty(k, id)
           /\ \A k \in Listener : Ends(k, id) => k = l
           /\ \A t \in Outcome : t \notin told[id]
<1>1. \A x \in Token(id) : x = <<"end", l>>
  BY TokenIs DEF Sole
<1>2. QED
  BY <1>1, TokenIs

\* Likewise in a queue.
LEMMA ReadyAlone ==
    ASSUME NEW id, Sole(id), NEW m \in Msg, m.id = id, ready[m] > 0
    PROVE  /\ \A n \in Msg : n.id = id /\ ready[n] > 0 => n = m
           /\ \A s \in Stage : ~(work[s][id] > 0)
           /\ \A k \in Listener : ~OnDuty(k, id)
           /\ \A k \in Listener : ~Ends(k, id)
           /\ \A t \in Outcome : t \notin told[id]
<1>1. \A x \in Token(id) : x = <<"ready", m>>
  BY TokenIs DEF Sole
<1>2. QED
  BY <1>1, TokenIs

\* Likewise at a worker.
LEMMA WorkAlone ==
    ASSUME NEW id, Sole(id), NEW s \in Stage, work[s][id] > 0
    PROVE  /\ \A m \in Msg : ~(m.id = id /\ ready[m] > 0)
           /\ \A t \in Stage : work[t][id] > 0 => t = s
           /\ \A k \in Listener : ~OnDuty(k, id)
           /\ \A k \in Listener : ~Ends(k, id)
           /\ \A t \in Outcome : t \notin told[id]
<1>1. \A x \in Token(id) : x = <<"work", s>>
  BY TokenIs DEF Sole
<1>2. QED
  BY <1>1, TokenIs

\* A step after which it is in one place.
LEMMA Becomes ==
    ASSUME NEW id, NEW y,
           \A m \in Msg : m.id = id /\ ready'[m] > 0 => y = <<"ready", m>>,
           \A s \in Stage : work'[s][id] > 0 => y = <<"work", s>>,
           \A k \in Listener : OnDuty(k, id)' => y = <<"duty", k>>,
           \A k \in Listener : Ends(k, id)' => y = <<"end", k>>,
           \A t \in Outcome : t \in told'[id] => y = <<"told", t>>,
           \A m \in Msg : m.id = id => ready'[m] <= 1,
           \A s \in Stage : work'[s][id] <= 1,
           status'[id] # 0
    PROVE  Sole(id)'
<1>1. \A x \in Token(id)' : x = y
  BY DEF Token
<1>2. QED
  BY <1>1 DEF Sole

\* A step that leaves it where it is.
LEMMA Remains ==
    ASSUME NEW id, Sole(id), Reached(id),
           \A m \in Msg : m.id = id => ready'[m] = ready[m],
           \A s \in Stage : work'[s][id] = work[s][id],
           \A k \in Listener : /\ OnDuty(k, id)' <=> OnDuty(k, id)
                               /\ Ends(k, id)' <=> Ends(k, id)
                               /\ OnDuty(k, id) => /\ Before(k)' <=> Before(k)
                                                   /\ h'[k].noSpeech = h[k].noSpeech,
           told'[id] \cap Outcome = told[id] \cap Outcome,
           status'[id] = status[id], error'[id] = error[id]
    PROVE  Sole(id)' /\ Reached(id)'
<1>1. Token(id)' = Token(id)
  <2>1. {n \in Msg : n.id = id /\ ready'[n] > 0} = {n \in Msg : n.id = id /\ ready[n] > 0}
    OBVIOUS
  <2>2. {t \in Stage : work'[t][id] > 0} = {t \in Stage : work[t][id] > 0}
    OBVIOUS
  <2>3. {k \in Listener : OnDuty(k, id)'} = {k \in Listener : OnDuty(k, id)}
    OBVIOUS
  <2>4. {k \in Listener : Ends(k, id)'} = {k \in Listener : Ends(k, id)}
    OBVIOUS
  <2>5. QED
    BY <2>1, <2>2, <2>3, <2>4, Zenon DEF Token
<1>2. Sole(id)'
  BY <1>1 DEF Sole
<1>3. Reached(id)'
  BY DEF Reached
<1>4. QED
  BY <1>2, <1>3
\* A step of the handler at l, as long as nothing failed.
LEMMA CalmHandler ==
    ASSUME OneInv, NEW l \in Listener, HandlerStep(l), faults' = 0
    PROVE  /\ faults = 0 /\ Undisturbed /\ Shape
           /\ Busy(l) /\ Busy(l)' /\ Moves(l) /\ Right(l) /\ h[l].ok
           /\ h[l].id \in ID /\ h[l].err \in BOOLEAN /\ h[l].noSpeech \in BOOLEAN
           /\ \A id \in ID : Sole(id) /\ Reached(id)
           /\ ready' = ready /\ up /\ up'
<1>1. Shape /\ Busy(l) /\ Moves(l) /\ Right(l)
  BY HandlerMoves DEF OneInv, Shape
<1>2. faults = 0 /\ ready' = ready /\ up' = up
  <2>1. /\ faults \in Nat
        /\ (ready' = ready /\ up' = up /\ faults' = faults) \/ faults' = faults + 1
    BY <1>1, HandlerFaults, Zenon
  <2>2. QED
    BY <2>1
<1>3. Undisturbed /\ \A id \in ID : Sole(id) /\ Reached(id)
  BY <1>2 DEF OneInv
<1>4. up /\ h[l].ok
  BY <1>1, <1>3 DEF Undisturbed
<1>5. /\ h[l].id \in ID /\ h[l].err \in BOOLEAN /\ h[l].noSpeech \in BOOLEAN
      /\ Busy(l)'
  BY <1>1 DEF Moves, Handler, Busy, Idle, PC
<1>6. QED
  BY <1>1, <1>2, <1>3, <1>4, <1>5

\* It leaves other handlers, and so where other transcriptions are, alone.
LEMMA CalmOthers ==
    ASSUME OneInv, NEW l \in Listener, HandlerStep(l), faults' = 0, NEW id \in ID
    PROVE  /\ \A k \in Listener : k # l =>
                /\ OnDuty(k, id)' <=> OnDuty(k, id)
                /\ Ends(k, id)' <=> Ends(k, id)
                /\ Before(k)' <=> Before(k)
                /\ h'[k].noSpeech = h[k].noSpeech
           /\ h[l].id # id => /\ ~OnDuty(l, id) /\ ~OnDuty(l, id)'
                              /\ ~Ends(l, id) /\ ~Ends(l, id)'
<1>1. Moves(l) /\ up /\ up'
  BY CalmHandler
<1>2. \A k \in Listener : k # l => h'[k] = h[k]
  BY <1>1 DEF Moves
<1>3. h'[l].id = h[l].id
  BY <1>1 DEF Moves
<1>4. h[l].id # id => /\ ~OnDuty(l, id) /\ ~OnDuty(l, id)'
                      /\ ~Ends(l, id) /\ ~Ends(l, id)'
  BY <1>3 DEF OnDuty, Ends
<1>5. ASSUME NEW k \in Listener, k # l
      PROVE  /\ OnDuty(k, id)' <=> OnDuty(k, id)
             /\ Ends(k, id)' <=> Ends(k, id)
             /\ Before(k)' <=> Before(k)
             /\ h'[k].noSpeech = h[k].noSpeech
  BY <1>1, <1>2, <1>5 DEF OnDuty, Ends, Before, Publishes, Busy, Idle
<1>6. QED
  BY <1>4, <1>5

\* Where a handler without an error to return has its transcription.
LEMMA AtHandler ==
    ASSUME NEW l \in Listener, Busy(l), up, h[l].ok, h[l].err \in BOOLEAN
    PROVE  /\ OnDuty(l, h[l].id) <=>
                \/ Before(l) \/ h[l].pc \in {"started", "next"}
                \/ Publishes(l) /\ ~h[l].err /\ l # "ResultMake"
           /\ Ends(l, h[l].id) <=>
                \/ h[l].pc \in {"report", "finished", "failed"}
                \/ Publishes(l) /\ (h[l].err \/ l = "ResultMake")
<1>1. AfterPublish(l, h[l].id, h[l].err) \in {"started", "next"} <=> ~h[l].err /\ l # "ResultMake"
  BY DEF AfterPublish
<1>2. QED
  BY <1>1 DEF OnDuty, Ends, Before, Publishes

\* The handler after its step.
LEMMA AtHandlerThen ==
    ASSUME NEW l \in Listener, Busy(l)', up', h'[l].ok, h'[l].err \in BOOLEAN,
           NEW id, h'[l].id = id
    PROVE  /\ OnDuty(l, id)' <=>
                \/ Before(l)' \/ h'[l].pc \in {"started", "next"}
                \/ Publishes(l)' /\ ~h'[l].err /\ l # "ResultMake"
           /\ Ends(l, id)' <=>
                \/ h'[l].pc \in {"report", "finished", "failed"}
                \/ Publishes(l)' /\ (h'[l].err \/ l = "ResultMake")
<1>1. AfterPublish(l, id, h'[l].err) \in {"started", "next"} <=> ~h'[l].err /\ l # "ResultMake"
  BY DEF AfterPublish
<1>2. QED
  BY <1>1 DEF OnDuty, Ends, Before, Publishes

\* A step of a handler that goes to pc.
LEMMA CalmGoto ==
    ASSUME OneInv, NEW l \in Listener, HandlerStep(l), faults' = 0, NEW pc \in PC,
           Goto(l, pc) \/ (Return(l, TRUE) /\ pc = "settle"),
           NEW id, h[l].id = id
    PROVE  /\ h'[l].pc = pc /\ h'[l].err = h[l].err /\ h'[l].noSpeech = h[l].noSpeech
           /\ OnDuty(l, id)' <=>
                \/ pc \in {"result", "available", "status", "error", "started", "next"}
                \/ pc \in {"topic", "parent"} /\ ~h[l].err /\ l # "ResultMake"
           /\ Ends(l, id)' <=>
                \/ pc \in {"report", "finished", "failed"}
                \/ pc \in {"topic", "parent"} /\ (h[l].err \/ l = "ResultMake")
<1>1. Shape /\ Busy(l) /\ Busy(l)' /\ Moves(l) /\ up' /\ h[l].ok /\ h[l].err \in BOOLEAN
  BY CalmHandler
<1>2. h'[l].pc = pc /\ h'[l].ok
  BY <1>1, GotoMoves, ReturnMoves DEF Shape
<1>3. /\ h'[l].err = h[l].err /\ h'[l].noSpeech = h[l].noSpeech /\ h'[l].id = id
  BY <1>1 DEF Moves
<1>4. /\ OnDuty(l, id)' <=>
            \/ Before(l)' \/ h'[l].pc \in {"started", "next"}
            \/ Publishes(l)' /\ ~h'[l].err /\ l # "ResultMake"
      /\ Ends(l, id)' <=>
            \/ h'[l].pc \in {"report", "finished", "failed"}
            \/ Publishes(l)' /\ (h'[l].err \/ l = "ResultMake")
  BY <1>1, <1>2, <1>3, AtHandlerThen
<1>5. QED
  BY <1>2, <1>3, <1>4 DEF Before, Publishes

\* Saves.
LEMMA CalmSaves ==
    ASSUME OneInv, NEW l \in Listener, faults' = 0, NEW id \in ID, h[l].id = id,
           SaveResult(l) \/ SaveAvailable(l) \/ SaveStatus(l) \/ SaveError(l)
    PROVE  /\ Sole(id)' /\ Reached(id)'
           /\ status'[id] >= status[id]
           /\ Final(id) => status'[id] = status[id] /\ error'[id] = error[id]
<1>1. /\ HandlerStep(l) /\ faults = 0 /\ Shape /\ Busy(l) /\ Right(l) /\ h[l].ok /\ up
      /\ h[l].err \in BOOLEAN /\ h[l].noSpeech \in BOOLEAN
      /\ Sole(id) /\ Reached(id) /\ ready' = ready
  BY CalmHandler DEF HandlerStep
<1>2. ~Fault("db") /\ work' = work /\ told' = told
  <2>1. ~Fault("db")
    BY <1>1 DEF Fault
  <2>2. QED
    BY <2>1 DEF SaveResult, SaveAvailable, SaveStatus, SaveError, sentVars
<1>3. /\ \A k \in Listener : k # l =>
            /\ OnDuty(k, id)' <=> OnDuty(k, id)
            /\ Ends(k, id)' <=> Ends(k, id)
            /\ Before(k)' <=> Before(k)
            /\ h'[k].noSpeech = h[k].noSpeech
  BY <1>1, CalmOthers
<1>4. Before(l) /\ OnDuty(l, id)
  BY <1>1 DEF SaveResult, SaveAvailable, SaveStatus, SaveError, Before, OnDuty
<1>5. /\ \A m \in Msg : ~(m.id = id /\ ready[m] > 0)
      /\ \A s \in Stage : ~(work[s][id] > 0)
      /\ \A k \in Listener : OnDuty(k, id) => k = l
      /\ \A k \in Listener : ~Ends(k, id)
      /\ \A t \in Outcome : t \notin told[id]
  BY <1>1, <1>4, DutyAlone
<1>6. /\ ~error[id] /\ status[id] = StatusAt(l) /\ StatusAt(l) \in 1 .. 7
      /\ ~Final(id)
  <2>1. ~error[id] /\ status[id] = StatusAt(l)
    BY <1>1, <1>4 DEF Reached
  <2>2. StatusAt(l) \in 1 .. 7
    BY <1>1, NextStatusAdvances
  <2>3. QED
    BY <2>1, <2>2 DEF Final, Completed
<1>7. /\ \A m \in Msg : m.id = id => ready'[m] <= 1
      /\ \A s \in Stage : work'[s][id] <= 1
  BY <1>1, <1>2 DEF Sole
<1>8. ~Ends(l, id)
  BY <1>5
<1>9. CASE SaveResult(l) \/ SaveAvailable(l)
  <2>1. PICK pc \in {"available", "status"} : Goto(l, pc)
    BY <1>2, <1>9 DEF SaveResult, SaveAvailable, DbFault
  <2>2. /\ h'[l].pc = pc /\ h'[l].noSpeech = h[l].noSpeech
        /\ OnDuty(l, id)' /\ ~Ends(l, id)'
    <3>1. pc \in PC
      BY <2>1 DEF PC
    <3>2. /\ h'[l].pc = pc /\ h'[l].noSpeech = h[l].noSpeech
          /\ OnDuty(l, id)' <=>
               \/ pc \in {"result", "available", "status", "error", "started", "next"}
               \/ pc \in {"topic", "parent"} /\ ~h[l].err /\ l # "ResultMake"
          /\ Ends(l, id)' <=>
               \/ pc \in {"report", "finished", "failed"}
               \/ pc \in {"topic", "parent"} /\ (h[l].err \/ l = "ResultMake")
      BY <1>1, <2>1, <3>1, CalmGoto, Zenon
    <3>3. QED
      BY <2>1, <3>2
  <2>3. status' = status /\ error' = error
    BY <1>2, <1>9 DEF SaveResult, SaveAvailable, DbFault
  <2>4. Before(l)'
    BY <2>1, <2>2 DEF Before
  <2>5. Sole(id)' /\ Reached(id)'
    BY <1>1, <1>2, <1>3, <1>4, <1>8, <2>2, <2>3, <2>4, Remains
  <2>6. QED
    BY <1>6, <2>3, <2>5
<1>10. CASE SaveError(l)
  <2>1. h[l].pc = "error" /\ Goto(l, "topic") /\ status' = status
    BY <1>2, <1>10 DEF SaveError, DbFault
  <2>2. h[l].err
    BY <1>1, <2>1 DEF Right
  <2>3. ~OnDuty(l, id)' /\ Ends(l, id)'
    BY <1>1, <2>1, <2>2, CalmGoto DEF PC
  <2>4. Sole(id)'
    <3>1. \A k \in Listener : ~OnDuty(k, id)' /\ (Ends(k, id)' => k = l)
      BY <1>3, <1>5, <2>3
    <3>2. status'[id] # 0
      BY <1>6, <2>1
    <3>3. QED
      BY <1>1, <1>2, <1>5, <1>7, <3>1, <3>2, Becomes
  <2>5. Reached(id)'
    <3>1. \A k \in Listener : ~OnDuty(k, id)'
      BY <1>3, <1>5, <2>3
    <3>2. QED
      BY <1>1, <1>2, <1>5, <3>1 DEF Reached
  <2>6. QED
    BY <1>6, <2>1, <2>4, <2>5
<1>11. CASE SaveStatus(l)
  <2> DEFINE next == NextStatus(l, id, h[l].noSpeech)
  <2>1. /\ h[l].pc = "status" /\ Goto(l, "topic")
        /\ status' = [status EXCEPT ![id] = next] /\ error' = [error EXCEPT ![id] = FALSE]
    BY <1>2, <1>11 DEF SaveStatus, DbFault
  <2>2. next > StatusAt(l) /\ next \in 2 .. 9
    BY <1>1, NextStatusAdvances
  <2>3. status'[id] = next /\ ~error'[id]
    BY <2>1 DEF Shape, TypeOK, OneInv
  <2>4. ~h[l].err
    BY <1>1, <2>1 DEF Right
  <2>5. /\ h'[l].pc = "topic" /\ h'[l].noSpeech = h[l].noSpeech
        /\ OnDuty(l, id)' <=> l # "ResultMake"
        /\ Ends(l, id)' <=> l = "ResultMake"
    BY <1>1, <2>1, <2>4, CalmGoto DEF PC
  <2>6. \A k \in Listener : (OnDuty(k, id)' => k = l) /\ (Ends(k, id)' => k = l)
    BY <1>3, <1>5
  <2> HIDE DEF next
  <2>7. Sole(id)'
    <3>1. status'[id] # 0
      BY <2>2, <2>3
    <3>2. CASE l = "ResultMake"
      <4>1. \A k \in Listener : ~OnDuty(k, id)' /\ (Ends(k, id)' => k = l)
        BY <2>5, <2>6, <3>2
      <4>2. QED
        BY <1>1, <1>2, <1>5, <1>7, <3>1, <4>1, Becomes
    <3>3. CASE l # "ResultMake"
      <4>1. \A k \in Listener : ~Ends(k, id)' /\ (OnDuty(k, id)' => k = l)
        BY <2>5, <2>6, <3>3
      <4>2. QED
        BY <1>1, <1>2, <1>5, <1>7, <3>1, <4>1, Becomes
    <3>4. QED
      BY <3>2, <3>3
  <2>8. Reached(id)'
    <3>1. ~Before(l)'
      BY <2>5 DEF Before
    <3>2. \A k \in Listener : OnDuty(k, id)' =>
            /\ ~error'[id]
            /\ status'[id] = IF Before(k)' THEN StatusAt(k)
                                           ELSE NextStatus(k, id, h'[k].noSpeech)
      BY <2>3, <2>5, <2>6, <3>1 DEF next
    <3>3. QED
      BY <1>1, <1>2, <1>5, <3>2 DEF Reached
  <2>9. status'[id] >= status[id]
    BY <1>6, <2>2, <2>3
  <2>10. QED
    BY <1>6, <2>7, <2>8, <2>9
<1>12. QED
  BY <1>9, <1>10, <1>11
\* Sends; none of them fails.
LEMMA CalmSends ==
    ASSUME OneInv, NEW l \in Listener, faults' = 0, NEW id \in ID, h[l].id = id,
           NEW out \in SendOutcome,
           \/ Publish(l, out) \/ InformStarted(l, out) \/ SendNext(l, out)
           \/ Report(l, out) \/ InformFinished(l, out) \/ InformFailed(l, out)
    PROVE  Sole(id)' /\ Reached(id)'
<1>1. /\ HandlerStep(l) /\ faults = 0 /\ Shape /\ Busy(l) /\ Right(l) /\ h[l].ok /\ up
      /\ h[l].err \in BOOLEAN /\ h[l].noSpeech \in BOOLEAN
      /\ Sole(id) /\ Reached(id) /\ ready' = ready
  BY CalmHandler DEF HandlerStep
<1>2. out = "sent" /\ status' = status /\ error' = error
  <2>1. SendOver(out) /\ status' = status /\ error' = error
    BY DEF Publish, InformStarted, SendNext, Report, InformFinished, InformFailed, dbVars
  <2>2. out = "sent"
    BY <1>1, <2>1 DEF SendOver, Fault
  <2>3. QED
    BY <2>1, <2>2
<1>3. /\ \A k \in Listener : k # l =>
            /\ OnDuty(k, id)' <=> OnDuty(k, id)
            /\ Ends(k, id)' <=> Ends(k, id)
            /\ Before(k)' <=> Before(k)
            /\ h'[k].noSpeech = h[k].noSpeech
  BY <1>1, CalmOthers
<1>4. /\ OnDuty(l, id) <=>
           \/ Before(l) \/ h[l].pc \in {"started", "next"}
           \/ Publishes(l) /\ ~h[l].err /\ l # "ResultMake"
      /\ Ends(l, id) <=>
           \/ h[l].pc \in {"report", "finished", "failed"}
           \/ Publishes(l) /\ (h[l].err \/ l = "ResultMake")
  BY <1>1, AtHandler
<1>5. /\ \A m \in Msg : m.id = id => ready'[m] <= 1
      /\ \A s \in Stage : work[s][id] <= 1
  BY <1>1 DEF Sole
<1>6. OnDuty(l, id) =>
        /\ \A m \in Msg : ~(m.id = id /\ ready[m] > 0)
        /\ \A s \in Stage : ~(work[s][id] > 0)
        /\ \A k \in Listener : OnDuty(k, id) => k = l
        /\ \A k \in Listener : ~Ends(k, id)
        /\ \A t \in Outcome : t \notin told[id]
        /\ status[id] # 0
  <2>1. SUFFICES ASSUME OnDuty(l, id) PROVE status[id] # 0
    BY <1>1, DutyAlone
  <2>2. Token(id) # {}
    BY <2>1, TokenIs
  <2>3. QED
    BY <1>1, <2>2 DEF Sole
<1>7. Ends(l, id) =>
        /\ \A m \in Msg : ~(m.id = id /\ ready[m] > 0)
        /\ \A s \in Stage : ~(work[s][id] > 0)
        /\ \A k \in Listener : ~OnDuty(k, id)
        /\ \A k \in Listener : Ends(k, id) => k = l
        /\ \A t \in Outcome : t \notin told[id]
        /\ status[id] # 0
  <2>1. SUFFICES ASSUME Ends(l, id) PROVE status[id] # 0
    BY <1>1, EndAlone
  <2>2. Token(id) # {}
    BY <2>1, TokenIs
  <2>3. QED
    BY <1>1, <2>2 DEF Sole
\* A step that leaves the transcription at its handler.
<1>8. ASSUME NEW pc \in PC, Goto(l, pc), work' = work,
             told'[id] \cap Outcome = told[id] \cap Outcome,
             ~Before(l),
             pc \notin {"result", "available", "status", "error"},
             OnDuty(l, id) <=> pc \in {"started", "next"}
                               \/ (pc \in {"topic", "parent"} /\ ~h[l].err /\ l # "ResultMake"),
             Ends(l, id) <=> pc \in {"report", "finished", "failed"}
                             \/ (pc \in {"topic", "parent"} /\ (h[l].err \/ l = "ResultMake"))
      PROVE  Sole(id)' /\ Reached(id)'
  <2>1. /\ h'[l].pc = pc /\ h'[l].noSpeech = h[l].noSpeech
        /\ OnDuty(l, id)' <=>
             \/ pc \in {"result", "available", "status", "error", "started", "next"}
             \/ pc \in {"topic", "parent"} /\ ~h[l].err /\ l # "ResultMake"
        /\ Ends(l, id)' <=>
             \/ pc \in {"report", "finished", "failed"}
             \/ pc \in {"topic", "parent"} /\ (h[l].err \/ l = "ResultMake")
    BY <1>1, <1>8, CalmGoto, Zenon
  <2>2. (OnDuty(l, id)' <=> OnDuty(l, id)) /\ (Ends(l, id)' <=> Ends(l, id))
    BY <1>8, <2>1
  <2>3. Before(l)' <=> Before(l)
    BY <1>8, <2>1 DEF Before
  <2>4. QED
    BY <1>1, <1>2, <1>3, <1>8, <2>1, <2>2, <2>3, Remains
<1>9. CASE InformStarted(l, out)
  <2>1. /\ h[l].pc = "started" /\ Goto(l, "next") /\ work' = work /\ Inform(id, "Started")
    BY <1>2, <1>9 DEF InformStarted
  <2>2. told'[id] \cap Outcome = told[id] \cap Outcome
    BY <1>1, <2>1 DEF Inform, Shape, TypeOK, Outcome
  <2>3. "next" \in PC /\ ~Before(l) /\ OnDuty(l, id) /\ ~Ends(l, id)
    BY <1>4, <2>1 DEF PC, Before, Publishes
  <2>4. QED
    BY <1>8, <2>1, <2>2, <2>3
<1>10. CASE Publish(l, out)
  <2> DEFINE to == IF h[l].pc = "topic" /\ id \in Child THEN "parent"
                   ELSE AfterPublish(l, id, h[l].err)
  <2>1. h[l].pc \in {"topic", "parent"} /\ Goto(l, to) /\ work' = work /\ told' = told
    BY <1>10 DEF Publish
  <2>2. /\ to \in {"parent", "failed", "started", "next", "report", "finished"}
        /\ to \in {"started", "next"} => ~h[l].err /\ l # "ResultMake"
        /\ to \in {"failed", "report", "finished"} => h[l].err \/ l = "ResultMake"
    BY <1>1 DEF AfterPublish
  <2> HIDE DEF to
  <2>3. to \in PC /\ ~Before(l) /\ Publishes(l)
    BY <2>1, <2>2 DEF PC, Before, Publishes
  <2>4. /\ OnDuty(l, id) <=> to \in {"started", "next"}
                             \/ (to \in {"topic", "parent"} /\ ~h[l].err /\ l # "ResultMake")
        /\ Ends(l, id) <=> to \in {"report", "finished", "failed"}
                           \/ (to \in {"topic", "parent"} /\ (h[l].err \/ l = "ResultMake"))
    BY <1>4, <2>1, <2>2, <2>3
  <2>5. to \notin {"result", "available", "status", "error"}
    BY <2>2
  <2>6. QED
    BY <1>8, <2>1, <2>3, <2>4, <2>5
<1>11. CASE Report(l, out)
  <2> DEFINE to == IF h[l].pc = "report" THEN "finished" ELSE "settle"
  <2>1. h[l].pc \in {"report", "reportFailed"} /\ Goto(l, to) /\ work' = work /\ told' = told
    BY <1>11 DEF Report
  <2>2. /\ to = IF h[l].pc = "report" THEN "finished" ELSE "settle"
        /\ to \in PC /\ ~Before(l) /\ ~Publishes(l)
    BY <2>1 DEF PC, Before, Publishes
  <2> HIDE DEF to
  <2>3. /\ OnDuty(l, id) <=> to \in {"started", "next"}
                             \/ (to \in {"topic", "parent"} /\ ~h[l].err /\ l # "ResultMake")
        /\ Ends(l, id) <=> to \in {"report", "finished", "failed"}
                           \/ (to \in {"topic", "parent"} /\ (h[l].err \/ l = "ResultMake"))
    BY <1>4, <2>1, <2>2
  <2>4. to \notin {"result", "available", "status", "error"}
    BY <2>2
  <2>5. QED
    BY <1>8, <2>1, <2>2, <2>3, <2>4
\* The owner is told of the end.
<1>12. ASSUME NEW type \in Outcome, Ends(l, id), ~OnDuty(l, id)', ~Ends(l, id)',
              Inform(id, type), work' = work
       PROVE  Sole(id)' /\ Reached(id)'
  <2>1. \A t \in Outcome : t \in told'[id] => t = type
    BY <1>1, <1>7, <1>12 DEF Inform, Shape, TypeOK
  <2>2. \A k \in Listener : ~OnDuty(k, id)' /\ ~Ends(k, id)'
    BY <1>3, <1>7, <1>12
  <2>3. Sole(id)'
    BY <1>1, <1>2, <1>5, <1>7, <1>12, <2>1, <2>2, Becomes
  <2>4. Reached(id)'
    BY <1>1, <1>7, <1>12, <2>2 DEF Reached
  <2>5. QED
    BY <2>3, <2>4
<1>13. CASE InformFinished(l, out)
  <2>1. /\ h[l].pc = "finished" /\ Return(l, TRUE) /\ work' = work /\ Inform(id, "Finished")
    BY <1>2, <1>13 DEF InformFinished
  <2>2. Ends(l, id) /\ ~OnDuty(l, id)' /\ ~Ends(l, id)'
    BY <1>1, <1>4, <2>1, CalmGoto DEF PC
  <2>3. QED
    BY <1>12, <2>1, <2>2 DEF Outcome
<1>14. CASE InformFailed(l, out)
  <2> DEFINE to == IF id \in Child THEN "reportFailed" ELSE "settle"
  <2>1. /\ h[l].pc = "failed" /\ Goto(l, to) /\ work' = work /\ Inform(id, "Failed")
    BY <1>2, <1>14 DEF InformFailed
  <2>2. to \in {"reportFailed", "settle"} /\ to \in PC
    BY DEF PC
  <2> HIDE DEF to
  <2>3. /\ OnDuty(l, id)' <=>
             \/ to \in {"result", "available", "status", "error", "started", "next"}
             \/ to \in {"topic", "parent"} /\ ~h[l].err /\ l # "ResultMake"
        /\ Ends(l, id)' <=>
             \/ to \in {"report", "finished", "failed"}
             \/ to \in {"topic", "parent"} /\ (h[l].err \/ l = "ResultMake")
    BY <1>1, <2>1, <2>2, CalmGoto, Zenon
  <2>4. Ends(l, id) /\ ~OnDuty(l, id)' /\ ~Ends(l, id)'
    BY <1>4, <2>1, <2>2, <2>3
  <2>5. QED
    BY <1>12, <2>1, <2>4 DEF Outcome
\* It is passed on.
<1>15. CASE SendNext(l, out)
  <2> DEFINE to == NextStage(l, id, h[l].noSpeech)
  <2>1. /\ h[l].pc = "next" /\ Return(l, TRUE) /\ told' = told
        /\ IF to \in Stage THEN work' = [work EXCEPT ![to][id] = @ + 1] ELSE work' = work
    BY <1>2, <1>15 DEF SendNext
  <2>2. OnDuty(l, id) /\ ~OnDuty(l, id)' /\ ~Ends(l, id)'
    BY <1>1, <1>4, <2>1, CalmGoto DEF PC
  <2>3. \A k \in Listener : ~OnDuty(k, id)' /\ ~Ends(k, id)'
    BY <1>3, <1>6, <2>2
  <2>4. ~error[id] /\ status[id] = NextStatus(l, id, h[l].noSpeech)
    <3>1. ~Before(l)
      BY <2>1 DEF Before
    <3>2. QED
      BY <1>1, <2>2, <3>1 DEF Reached
  <2>5. CASE to \notin Stage
    <3>1. work' = work
      BY <2>1, <2>5
    <3>2. Sole(id)'
      BY <1>1, <1>2, <1>5, <1>6, <2>1, <2>2, <2>3, <3>1, Becomes
    <3>3. Reached(id)'
      BY <1>1, <1>6, <2>2, <2>3, <3>1 DEF Reached
    <3>4. QED
      BY <3>2, <3>3
  <2>6. CASE to \in Stage
    <3>1. status[id] = StatusAt(to)
      BY <1>1, <2>4, <2>6, NextStatusAdvances
    <3>2. PICK s \in Stage : s = to
      BY <2>6
    <3>3. work' = [work EXCEPT ![s][id] = @ + 1] /\ status[id] = StatusAt(s)
      BY <2>1, <2>6, <3>1, <3>2
    <3> HIDE DEF to
    <3>4. \A t \in Stage : work[t][id] = 0
      BY <1>1, <1>6, <2>2 DEF Shape, TypeOK
    <3>5. \A t \in Stage : work'[t][id] = IF t = s THEN 1 ELSE 0
      BY <1>1, <3>3, <3>4 DEF Shape, TypeOK
    <3>6. \A t \in Stage : work'[t][id] <= 1 /\ (work'[t][id] > 0 => t = s)
      BY <3>5
    <3>7. Sole(id)' /\ Reached(id)'
      <4> DEFINE y == <<"work", s>>
      <4>1. /\ \A m \in Msg : m.id = id /\ ready'[m] > 0 => y = <<"ready", m>>
            /\ \A t \in Stage : work'[t][id] > 0 => y = <<"work", t>>
            /\ \A k \in Listener : OnDuty(k, id)' => y = <<"duty", k>>
            /\ \A k \in Listener : Ends(k, id)' => y = <<"end", k>>
            /\ \A t \in Outcome : t \in told'[id] => y = <<"told", t>>
        BY <1>1, <1>6, <2>1, <2>2, <2>3, <3>6
      <4>2. status'[id] # 0
        BY <1>2, <1>6, <2>2
      <4> HIDE DEF y
      <4>3. Sole(id)'
        BY <1>5, <3>6, <4>1, <4>2, Becomes
      <4>4. Reached(id)'
        BY <1>1, <1>2, <1>6, <2>2, <2>3, <2>4, <3>3, <3>6 DEF Reached
      <4>5. QED
        BY <4>3, <4>4
    <3>8. QED
      BY <3>7
  <2>7. QED
    BY <2>5, <2>6
<1>16. QED
  BY <1>9, <1>10, <1>11, <1>13, <1>14, <1>15
\* Other transcriptions stay where they are.
LEMMA CalmElsewhere ==
    ASSUME OneInv, NEW l \in Listener, HandlerStep(l), faults' = 0,
           NEW id \in ID, id # h[l].id
    PROVE  /\ Sole(id)' /\ Reached(id)'
           /\ status'[id] = status[id] /\ error'[id] = error[id]
<1>1. /\ Shape /\ h[l].id \in ID /\ Sole(id) /\ Reached(id) /\ ready' = ready
  BY CalmHandler
<1>2. status'[id] = status[id] /\ error'[id] = error[id]
  BY <1>1, HandlerKeeps
<1>3. told'[id] = told[id]
  <2>1. told' = told \/ \E type \in {"Started", "Finished", "Failed"} : Inform(h[l].id, type)
    BY Zenon DEF HandlerStep, SaveResult, SaveAvailable, SaveStatus, SaveError, sentVars,
                 Publish, InformStarted, SendNext, Report, InformFinished, InformFailed
  <2>2. QED
    BY <1>1, <2>1 DEF Inform, Shape, TypeOK
<1>4. \A s \in Stage : work'[s][id] = work[s][id]
  <2>1. work' = work \/ \E t \in Stage : work' = [work EXCEPT ![t][h[l].id] = @ + 1]
    BY Zenon DEF HandlerStep, SaveResult, SaveAvailable, SaveStatus, SaveError, sentVars,
                 Publish, InformStarted, SendNext, Report, InformFinished, InformFailed
  <2>2. QED
    BY <1>1, <2>1 DEF Shape, TypeOK
<1>5. \A k \in Listener : /\ OnDuty(k, id)' <=> OnDuty(k, id)
                          /\ Ends(k, id)' <=> Ends(k, id)
                          /\ OnDuty(k, id) => /\ Before(k)' <=> Before(k)
                                              /\ h'[k].noSpeech = h[k].noSpeech
  BY CalmOthers
<1>6. Sole(id)' /\ Reached(id)'
  BY <1>1, <1>2, <1>3, <1>4, <1>5, Remains
<1>7. QED
  BY <1>2, <1>6

\* What a step of no fault keeps: the three parts of the invariant that are about
\* one transcription.
Calm(id) ==
    /\ Sole(id)' /\ Reached(id)'
    /\ status'[id] >= status[id]
    /\ Final(id) => status'[id] = status[id] /\ error'[id] = error[id]

\* Every step of a handler but the last.
LEMMA CalmStep ==
    ASSUME OneInv, NEW l \in Listener, HandlerStep(l), faults' = 0
    PROVE  Undisturbed' /\ \A id \in ID : Calm(id)
<1>1. /\ Shape /\ h[l].id \in ID /\ faults = 0 /\ Undisturbed /\ Moves(l) /\ h[l].ok /\ up'
      /\ Busy(l)
  BY CalmHandler
<1>2. Undisturbed'
  <2>1. h'[l].ok
    <3>1. up' /\ ~h'[l].ok => ~h[l].ok \/ DbFault(l)
      BY <1>1, HandlerFaults, Zenon
    <3>2. ~DbFault(l)
      BY <1>1 DEF DbFault, Fault
    <3>3. QED
      BY <1>1, <3>1, <3>2
  <2>2. ASSUME NEW k \in Listener, k # l, Busy(k)' PROVE h'[k].ok
    <3>1. h'[k] = h[k]
      BY <1>1, <2>2 DEF Moves
    <3>2. Busy(k)
      BY <2>2, <3>1 DEF Busy, Idle
    <3>3. QED
      BY <1>1, <3>1, <3>2 DEF Undisturbed
  <2>3. QED
    BY <1>1, <2>1, <2>2 DEF Undisturbed
<1>3. ASSUME NEW id \in ID, id # h[l].id PROVE Calm(id)
  <2>1. /\ Sole(id)' /\ Reached(id)'
        /\ status'[id] = status[id] /\ error'[id] = error[id]
    BY <1>3, CalmElsewhere
  <2>2. status[id] \in Int
    BY <1>1 DEF Shape, TypeOK, Status
  <2>3. QED
    BY <2>1, <2>2 DEF Calm
<1>4. ASSUME NEW id \in ID, id = h[l].id PROVE Calm(id)
  <2>1. CASE SaveResult(l) \/ SaveAvailable(l) \/ SaveStatus(l) \/ SaveError(l)
    BY <1>4, <2>1, CalmSaves DEF Calm
  <2>2. ASSUME NEW out \in SendOutcome,
               \/ Publish(l, out) \/ InformStarted(l, out) \/ SendNext(l, out)
               \/ Report(l, out) \/ InformFinished(l, out) \/ InformFailed(l, out)
        PROVE  Calm(id)
    <3>1. Sole(id)' /\ Reached(id)'
      BY <1>4, <2>2, CalmSends
    <3>2. status' = status /\ error' = error
      BY <2>2 DEF Publish, InformStarted, SendNext, Report, InformFinished, InformFailed,
                  dbVars
    <3>3. status[id] \in Int
      BY <1>1 DEF Shape, TypeOK, Status
    <3>4. QED
      BY <3>1, <3>2, <3>3 DEF Calm
  <2>3. QED
    BY <2>1, <2>2 DEF HandlerStep
<1>5. QED
  BY <1>2, <1>3, <1>4

\* A handler that is settled has no transcription, before and after.
LEMMA CalmSettle ==
    ASSUME OneInv, NEW l \in Listener, Settle(l), faults' = 0
    PROVE  Undisturbed' /\ \A id \in ID : Calm(id)
<1>1. /\ h[l].pc = "settle" /\ faults = 0 /\ Shape /\ work' = work /\ up' = up
      /\ status' = status /\ error' = error /\ told' = told
  BY DEF Settle, dbVars, sentVars, OneInv
<1>2. Undisturbed /\ up /\ \A id \in ID : Sole(id) /\ Reached(id)
  BY <1>1 DEF OneInv, Undisturbed
<1>3. Busy(l) /\ h[l].ok
  BY <1>1, <1>2, AtIs DEF Shape, PC, Undisturbed
<1>4. ready' = ready
  BY <1>3 DEF Settle, MustRequeue
<1>5. h'[l] = Idle /\ \A k \in Listener : k # l => h'[k] = h[k]
  BY <1>1 DEF Settle, Shape, TypeOK
<1>6. Undisturbed'
  BY <1>1, <1>2, <1>5 DEF Undisturbed, Busy, Idle
<1>7. ASSUME NEW id \in ID PROVE Calm(id)
  <2>1. ~OnDuty(l, id) /\ ~OnDuty(l, id)' /\ ~Ends(l, id) /\ ~Ends(l, id)'
    BY <1>1, <1>3, <1>5 DEF OnDuty, Ends, Busy, Publishes
  <2>2. ASSUME NEW k \in Listener, k # l
        PROVE  /\ OnDuty(k, id)' <=> OnDuty(k, id)
               /\ Ends(k, id)' <=> Ends(k, id)
               /\ Before(k)' <=> Before(k)
               /\ h'[k].noSpeech = h[k].noSpeech
    BY <1>1, <1>5, <2>2 DEF OnDuty, Ends, Before, Publishes, Busy, Idle
  <2>3. Sole(id)' /\ Reached(id)'
    BY <1>1, <1>2, <1>4, <2>1, <2>2, Remains
  <2>4. status[id] \in Int
    BY <1>1 DEF Shape, TypeOK, Status
  <2>5. QED
    BY <1>1, <2>3, <2>4 DEF Calm
<1>8. QED
  BY <1>6, <1>7

\* A message that is taken is at the handler, which is to pass it on.
LEMMA CalmTake ==
    ASSUME OneInv, NEW m \in Msg, NEW noSpeech \in BOOLEAN, Take(m, noSpeech), faults' = 0
    PROVE  Undisturbed' /\ \A id \in ID : Calm(id)
<1> DEFINE l == m.l
           r == [id |-> m.id, err |-> m.err, redelivered |-> m.redelivered,
                 noSpeech |-> noSpeech, pc |-> Entry(m.l, m.err), ok |-> TRUE]
<1>1. /\ l \in Listener /\ m.id \in ID /\ m.err \in BOOLEAN
  BY DEF Msg
<1>2. /\ faults = 0 /\ Shape /\ work' = work /\ up' = up /\ up
      /\ status' = status /\ error' = error /\ told' = told /\ ready[m] > 0
      /\ ready' = [ready EXCEPT ![m] = @ - 1]
      /\ h[l] = Idle /\ h' = [h EXCEPT ![l] = r]
  BY DEF Take, dbVars, sentVars, OneInv
<1>3. Undisturbed /\ \A id \in ID : Sole(id) /\ Reached(id)
  BY <1>2 DEF OneInv
<1>4. /\ h'[l] = r /\ r.id = m.id /\ r.pc \in {"error", "result", "status"} /\ r.ok
      /\ r # Idle
  <2>1. Entry(m.l, m.err) \in {"error", "result", "status"}
    BY <1>1 DEF Entry
  <2>2. h'[l] = r
    BY <1>1, <1>2 DEF Shape, TypeOK
  <2>3. QED
    BY <2>1, <2>2 DEF Idle
<1>5. /\ \A k \in Listener : k # l => h'[k] = h[k]
      /\ \A n \in Msg : n # m => ready'[n] = ready[n]
      /\ ready'[m] = ready[m] - 1 /\ ready[m] \in Nat
  BY <1>1, <1>2 DEF Shape, TypeOK
<1> HIDE DEF r
<1>6. Undisturbed'
  BY <1>2, <1>3, <1>4, <1>5 DEF Undisturbed, Busy
<1>7. ASSUME NEW id, NEW k \in Listener, k # l
      PROVE  /\ OnDuty(k, id)' <=> OnDuty(k, id)
             /\ Ends(k, id)' <=> Ends(k, id)
             /\ Before(k)' <=> Before(k)
             /\ h'[k].noSpeech = h[k].noSpeech
  BY <1>2, <1>5, <1>7 DEF OnDuty, Ends, Before, Publishes, Busy, Idle
<1>8. ASSUME NEW id \in ID, id # m.id PROVE Sole(id)' /\ Reached(id)'
  <2>1. ~OnDuty(l, id) /\ ~OnDuty(l, id)' /\ ~Ends(l, id) /\ ~Ends(l, id)'
    BY <1>2, <1>4, <1>8 DEF OnDuty, Ends, Busy
  <2>2. \A n \in Msg : n.id = id => ready'[n] = ready[n]
    BY <1>5, <1>8
  <2>3. QED
    BY <1>2, <1>3, <1>7, <2>1, <2>2, Remains
<1>9. ASSUME NEW id \in ID, id = m.id PROVE Sole(id)' /\ Reached(id)'
  <2>1. /\ \A n \in Msg : n.id = id /\ ready[n] > 0 => n = m
        /\ \A s \in Stage : ~(work[s][id] > 0)
        /\ \A k \in Listener : ~OnDuty(k, id)
        /\ \A k \in Listener : ~Ends(k, id)
        /\ \A t \in Outcome : t \notin told[id]
    BY <1>2, <1>3, <1>9, ReadyAlone
  <2>2. ready[m] <= 1 /\ \A s \in Stage : work[s][id] <= 1
    BY <1>3, <1>9 DEF Sole
  <2>3. \A n \in Msg : n.id = id => ~(ready'[n] > 0) /\ ready'[n] <= 1
    BY <1>2, <1>5, <2>1, <2>2 DEF Shape, TypeOK
  <2>4. Before(l)' /\ ~Ends(l, id)'
    BY <1>4 DEF Before, Ends, Publishes
  <2>5. \A k \in Listener : ~Ends(k, id)' /\ (OnDuty(k, id)' => k = l)
    BY <1>7, <2>1, <2>4
  <2>6. ~error[id] /\ status[id] = StatusAt(l)
    BY <1>2, <1>3, <1>9 DEF Reached
  <2>7. status'[id] # 0
    <3>1. <<"ready", m>> \in Token(id)
      BY <1>2, <1>9, TokenIs
    <3>2. QED
      BY <1>2, <1>3, <3>1 DEF Sole
  <2>8. Sole(id)'
    BY <1>1, <1>2, <2>1, <2>2, <2>3, <2>5, <2>7, Becomes
  <2>9. Reached(id)'
    BY <1>2, <2>1, <2>3, <2>4, <2>5, <2>6 DEF Reached
  <2>10. QED
    BY <2>8, <2>9
<1>10. ASSUME NEW id \in ID PROVE Calm(id)
  <2>1. status[id] \in Int
    BY <1>2 DEF Shape, TypeOK, Status
  <2>2. QED
    BY <1>2, <1>8, <1>9, <2>1 DEF Calm
<1>11. QED
  BY <1>6, <1>10

\* A message that arrives is the one place of its transcription.
LEMMA CalmArrives ==
    ASSUME OneInv, faults = 0, NEW m \in Msg,
           ready' = [ready EXCEPT ![m] = @ + 1], h' = h, up' = up, told' = told,
           \A n \in Msg : ~(n.id = m.id /\ ready[n] > 0),
           \A s \in Stage : ~(work'[s][m.id] > 0) /\ work'[s][m.id] <= 1,
           \A k \in Listener : ~OnDuty(k, m.id) /\ ~Ends(k, m.id),
           \A t \in Outcome : t \notin told[m.id],
           status'[m.id] = StatusAt(m.l), ~error'[m.id],
           \A id \in ID, s \in Stage : id # m.id => work'[s][id] = work[s][id],
           \A id \in ID : id # m.id => status'[id] = status[id] /\ error'[id] = error[id]
    PROVE  Undisturbed' /\ \A id \in ID : Sole(id)' /\ Reached(id)'
<1>1. m.l \in Listener /\ m.id \in ID
  BY DEF Msg
<1>2. Shape /\ Undisturbed /\ \A id \in ID : Sole(id) /\ Reached(id)
  BY DEF OneInv
<1>3. Undisturbed'
  BY <1>2 DEF Undisturbed, Busy
<1>4. /\ \A n \in Msg : n # m => ready'[n] = ready[n]
      /\ ready'[m] = ready[m] + 1
      /\ \A n \in Msg : ready[n] \in Nat
  BY <1>2 DEF Shape, TypeOK
<1>5. ASSUME NEW id, NEW k \in Listener
      PROVE  /\ OnDuty(k, id)' <=> OnDuty(k, id)
             /\ Ends(k, id)' <=> Ends(k, id)
             /\ Before(k)' <=> Before(k)
             /\ h'[k].noSpeech = h[k].noSpeech
  BY DEF OnDuty, Ends, Before, Publishes, Busy, Idle
<1>6. ASSUME NEW id \in ID, id # m.id PROVE Sole(id)' /\ Reached(id)'
  <2>1. \A n \in Msg : n.id = id => ready'[n] = ready[n]
    BY <1>4, <1>6
  <2>2. QED
    BY <1>2, <1>5, <1>6, <2>1, Remains
<1>7. ASSUME NEW id \in ID, id = m.id PROVE Sole(id)' /\ Reached(id)'
  <2>1. \A n \in Msg : n.id = id => ready'[n] <= 1 /\ (ready'[n] > 0 => n = m)
    BY <1>4, <1>7
  <2>2. \A k \in Listener : ~OnDuty(k, id)' /\ ~Ends(k, id)'
    BY <1>5, <1>7
  <2>3. status'[id] # 0
    <3>1. StatusAt(m.l) \in 1 .. 7
      BY <1>1, NextStatusAdvances
    <3>2. QED
      BY <1>7, <3>1
  <2>4. Sole(id)'
    BY <1>7, <2>1, <2>2, <2>3, Becomes
  <2>5. Reached(id)'
    BY <1>7, <2>1, <2>2 DEF Reached
  <2>6. QED
    BY <2>4, <2>5
<1>8. QED
  BY <1>3, <1>6, <1>7

\* An upload, and an answer of a worker.
LEMMA CalmUpload ==
    ASSUME OneInv, NEW id \in ID, Upload(id), faults' = 0
    PROVE  Undisturbed' /\ \A i \in ID : Calm(i)
<1> DEFINE m == [l |-> "Decode", id |-> id, err |-> FALSE, redelivered |-> FALSE]
<1>1. m \in Msg /\ m.l = "Decode" /\ m.id = id
  BY DEF Msg, Listener
<1>2. /\ faults = 0 /\ work' = work /\ up' = up /\ h' = h /\ error' = error /\ told' = told
      /\ status[id] = 0 /\ status' = [status EXCEPT ![id] = Uploaded]
      /\ ready' = [ready EXCEPT ![m] = @ + 1]
  BY DEF Upload, sentVars
<1> HIDE DEF m
<1>3. Shape /\ Sole(id) /\ Token(id) = {} /\ ~error[id]
  BY <1>2 DEF OneInv, Sole
<1>4. /\ \A n \in Msg : ~(n.id = id /\ ready[n] > 0)
      /\ \A s \in Stage : ~(work[s][id] > 0)
      /\ \A k \in Listener : ~OnDuty(k, id) /\ ~Ends(k, id)
      /\ \A t \in Outcome : t \notin told[id]
  BY <1>3, TokenIs
<1>5. /\ \A s \in Stage : work[s][id] <= 1
      /\ status'[id] = Uploaded /\ \A i \in ID : i # id => status'[i] = status[i]
  BY <1>2, <1>3 DEF Sole, Shape, TypeOK
<1>6. Undisturbed' /\ \A i \in ID : Sole(i)' /\ Reached(i)'
  <2>1. status'[m.id] = StatusAt(m.l)
    BY <1>1, <1>5 DEF StatusAt
  <2>2. QED
    BY <1>1, <1>2, <1>3, <1>4, <1>5, <2>1, CalmArrives
<1>7. ~Final(id) /\ Uploaded >= 0
  BY <1>2, <1>3 DEF Final, Completed, Uploaded
<1>8. \A i \in ID : status[i] \in Int
  BY <1>3 DEF Shape, TypeOK, Status
<1>9. ASSUME NEW i \in ID PROVE Calm(i)
  <2>1. CASE i = id
    BY <1>2, <1>5, <1>6, <1>7, <2>1 DEF Calm
  <2>2. CASE i # id
    BY <1>2, <1>5, <1>6, <1>8, <2>2 DEF Calm
  <2>3. QED
    BY <2>1, <2>2
<1>10. QED
  BY <1>6, <1>9

\* An answer leaves the worker.
LEMMA CalmWorker ==
    ASSUME OneInv, NEW s \in Stage, NEW id \in ID, NEW err \in BOOLEAN, Worker(s, id, err),
           faults' = 0
    PROVE  Undisturbed' /\ \A i \in ID : Calm(i)
<1> DEFINE m == [l |-> s, id |-> id, err |-> err, redelivered |-> FALSE]
<1>1. m \in Msg /\ m.l = s /\ m.id = id
  BY DEF Msg, Listener
<1>2. /\ h' = h /\ up' = up /\ status' = status /\ error' = error /\ told' = told
      /\ work[s][id] > 0 /\ ready' = [ready EXCEPT ![m] = @ + 1]
  BY DEF Worker, dbVars, sentVars
<1> HIDE DEF m
<1>3. faults = 0 /\ work' = [work EXCEPT ![s][id] = @ - 1]
  <2>1. faults \in Nat
    BY DEF OneInv, Shape, TypeOK
  <2>2. \/ work' = [work EXCEPT ![s][id] = @ - 1] /\ faults' = faults
        \/ faults' = faults + 1
    BY DEF Worker, Fault
  <2>3. faults' # faults + 1
    BY <2>1
  <2>4. QED
    BY <2>2, <2>3
<1>4. Shape /\ Sole(id) /\ Reached(id)
  BY <1>3 DEF OneInv
<1>5. /\ \A n \in Msg : ~(n.id = id /\ ready[n] > 0)
      /\ \A t \in Stage : work[t][id] > 0 => t = s
      /\ \A k \in Listener : ~OnDuty(k, id) /\ ~Ends(k, id)
      /\ \A t \in Outcome : t \notin told[id]
  BY <1>2, <1>4, WorkAlone
<1>6. /\ \A t \in Stage : work[t][id] <= 1 /\ work[t][id] \in Nat
      /\ \A t \in Stage : work'[t][id] = IF t = s THEN work[s][id] - 1 ELSE work[t][id]
      /\ \A i \in ID, t \in Stage : i # id => work'[t][i] = work[t][i]
  BY <1>3, <1>4 DEF Sole, Shape, TypeOK
<1>7. \A t \in Stage : ~(work'[t][id] > 0) /\ work'[t][id] <= 1
  BY <1>5, <1>6
<1>8. ~error[id] /\ status[id] = StatusAt(s)
  BY <1>2, <1>4 DEF Reached
<1>9. Undisturbed' /\ \A i \in ID : Sole(i)' /\ Reached(i)'
  <2>1. /\ \A n \in Msg : ~(n.id = m.id /\ ready[n] > 0)
        /\ \A k \in Listener : ~OnDuty(k, m.id) /\ ~Ends(k, m.id)
        /\ \A t \in Outcome : t \notin told[m.id]
    BY <1>1, <1>5
  <2>2. /\ \A t \in Stage : ~(work'[t][m.id] > 0) /\ work'[t][m.id] <= 1
        /\ \A i \in ID, t \in Stage : i # m.id => work'[t][i] = work[t][i]
    BY <1>1, <1>6, <1>7
  <2>3. /\ status'[m.id] = StatusAt(m.l) /\ ~error'[m.id]
        /\ \A i \in ID : i # m.id => status'[i] = status[i] /\ error'[i] = error[i]
    BY <1>1, <1>2, <1>8
  <2>4. QED
    BY <1>1, <1>2, <1>3, <2>1, <2>2, <2>3, CalmArrives
<1>10. \A i \in ID : status[i] \in Int
  BY <1>4 DEF Shape, TypeOK, Status
<1>11. QED
  BY <1>2, <1>9, <1>10 DEF Calm

\* Every step of no fault.
LEMMA CalmNext ==
    ASSUME OneInv, [Next]_vars, faults' = 0
    PROVE  Undisturbed' /\ \A id \in ID : Calm(id)
<1>1. ASSUME NEW l \in Listener, Handle(l) PROVE Undisturbed' /\ \A id \in ID : Calm(id)
  <2>1. HandlerStep(l) \/ Settle(l)
    BY <1>1 DEF Handle, HandlerStep
  <2>2. QED
    BY <2>1, CalmStep, CalmSettle
<1>2. CASE Restart
  <2>1. faults = 0
    <3>1. faults \in Nat /\ (faults' = faults \/ faults' = faults + 1)
      BY <1>2 DEF Restart, Fault, OneInv, Shape, TypeOK
    <3>2. QED
      BY <3>1
  <2>2. up
    BY <2>1 DEF OneInv, Undisturbed
  <2>3. faults' = faults + 1
    BY <1>2, <2>2 DEF Restart, Fault
  <2>4. QED
    BY <2>1, <2>3
<1>3. CASE UNCHANGED vars
  <2>1. /\ ready' = ready /\ work' = work /\ h' = h /\ up' = up /\ status' = status
        /\ error' = error /\ told' = told /\ faults = 0
    BY <1>3 DEF vars, dbVars, sentVars
  <2>2. Shape /\ Undisturbed /\ \A id \in ID : Sole(id) /\ Reached(id)
    BY <2>1 DEF OneInv
  <2>3. Undisturbed'
    BY <2>1, <2>2 DEF Undisturbed, Busy
  <2>4. ASSUME NEW id \in ID PROVE Calm(id)
    <3>1. \A k \in Listener : /\ OnDuty(k, id)' <=> OnDuty(k, id)
                              /\ Ends(k, id)' <=> Ends(k, id)
                              /\ Before(k)' <=> Before(k)
                              /\ h'[k].noSpeech = h[k].noSpeech
      BY <2>1 DEF OnDuty, Ends, Before, Publishes, Busy
    <3>2. Sole(id)' /\ Reached(id)'
      BY <2>1, <2>2, <3>1, Remains
    <3>3. status[id] \in Int
      BY <2>2 DEF Shape, TypeOK, Status
    <3>4. QED
      BY <2>1, <3>2, <3>3 DEF Calm
  <2>5. QED
    BY <2>3, <2>4
<1>4. QED
  BY <1>1, <1>2, <1>3, CalmUpload, CalmWorker, CalmTake DEF Next

\* Before the first fault a transcription is at one place, its record shows the
\* stage of that place, and no handler is to return an error.
THEOREM OneInvariant == Spec => []OneInv
<1>1. Init => OneInv
  <2> SUFFICES ASSUME Init PROVE Undisturbed /\ \A id \in ID : Sole(id) /\ Reached(id)
    BY ShapeInit DEF OneInv
  <2>1. Undisturbed
    BY DEF Init, Undisturbed, Busy
  <2>2. ASSUME NEW id \in ID PROVE Sole(id) /\ Reached(id)
    <3>1. /\ \A m \in Msg : ready[m] = 0
          /\ \A s \in Stage : work[s][id] = 0
          /\ \A l \in Listener : ~OnDuty(l, id) /\ ~Ends(l, id)
          /\ told[id] = {} /\ ~error[id]
      BY DEF Init, OnDuty, Ends, Busy
    <3>2. Token(id) = {}
      BY <3>1 DEF Token
    <3>3. QED
      BY <3>1, <3>2 DEF Sole, Reached
  <2>3. QED
    BY <2>1, <2>2
<1>2. OneInv /\ [Next]_vars => OneInv'
  BY ShapeStep, CalmNext DEF OneInv, Calm
<1>3. QED
  BY <1>1, <1>2, PTL DEF Spec

\* As long as nothing failed the status of a transcription never goes back, and
\* after an end it stays: the status that a handler saves is above the one with
\* which its message was sent (the table of the stages in service.go), and no second
\* handler has the transcription.
THEOREM StatusNeverGoesBack == Spec => StatusAdvances
<1>1. OneInv /\ [Next]_vars =>
        [faults' = 0 => \A id \in ID :
            /\ status'[id] >= status[id]
            /\ Final(id) => status'[id] = status[id] /\ error'[id] = error[id]]_vars
  BY CalmNext DEF Calm
<1>2. QED
  BY <1>1, OneInvariant, PTL DEF Spec, StatusAdvances

\* A set of no two different elements is empty or has one.
LEMMA AtMostOne ==
    ASSUME NEW S, \A x, y \in S : x = y
    PROVE  Cardinality(S) \in {0, 1} /\ (Cardinality(S) = 1 => S # {})
<1>1. CASE S = {}
  BY <1>1, FS_EmptySet
<1>2. CASE S # {}
  <2>1. PICK x \in S : TRUE
    BY <1>2
  <2>2. S = {x}
    BY <2>1
  <2>3. QED
    BY <1>2, <2>2, FS_Singleton
<1>3. QED
  BY <1>1, <1>2

\* As long as nothing failed a transcription has one message or handler at a time,
\* and its owner never gets both a failure and a success.
THEOREM OneOutcomeHolds == Spec => []OneOutcome
<1>1. ASSUME OneInv, faults = 0, NEW id \in ID
      PROVE  Tokens(id) <= 1 /\ ~({"Finished", "Failed"} \subseteq told[id])
  <2> DEFINE A == {p \in Msg \X (1 .. 2) : p[1].id = id /\ p[2] <= ready[p[1]]}
             B == {p \in Stage \X (1 .. 2) : p[2] <= work[p[1]][id]}
             C == {l \in Listener : OnDuty(l, id)}
  <2>1. Sole(id) /\ Shape
    BY <1>1 DEF OneInv
  <2>2. ASSUME NEW p \in A
        PROVE  p = <<p[1], 1>> /\ p[1] \in Msg /\ p[1].id = id /\ ready[p[1]] > 0
    <3>1. /\ p[1] \in Msg /\ p[2] \in 1 .. 2 /\ p = <<p[1], p[2]>>
          /\ p[1].id = id /\ p[2] <= ready[p[1]] /\ ready[p[1]] \in Nat
      BY <2>1, <2>2 DEF Shape, TypeOK
    <3>2. ready[p[1]] <= 1
      BY <2>1, <3>1 DEF Sole
    <3>3. QED
      BY <3>1, <3>2
  <2>3. ASSUME NEW p \in B
        PROVE  p = <<p[1], 1>> /\ p[1] \in Stage /\ work[p[1]][id] > 0
    <3>1. /\ p[1] \in Stage /\ p[2] \in 1 .. 2 /\ p = <<p[1], p[2]>>
          /\ p[2] <= work[p[1]][id] /\ work[p[1]][id] \in Nat
      BY <2>1, <2>3 DEF Shape, TypeOK
    <3>2. work[p[1]][id] <= 1
      BY <2>1, <3>1 DEF Sole
    <3>3. QED
      BY <3>1, <3>2
  <2>4. Tokens(id) = Cardinality(A) + Cardinality(B) + Cardinality(C)
    BY DEF Tokens
  <2>5. \A l \in C : l \in Listener /\ OnDuty(l, id)
    OBVIOUS
  <2> HIDE DEF A, B, C
  <2>6. ASSUME NEW p \in A, NEW q \in A PROVE p = q
    BY <2>1, <2>2, ReadyAlone
  <2>7. ASSUME NEW p \in B, NEW q \in B PROVE p = q
    BY <2>1, <2>3, WorkAlone
  <2>8. ASSUME NEW p \in C, NEW q \in C PROVE p = q
    BY <2>1, <2>5, DutyAlone
  <2>9. A # {} => B = {} /\ C = {}
    BY <2>1, <2>2, <2>3, <2>5, ReadyAlone
  <2>10. B # {} => C = {}
    BY <2>1, <2>3, <2>5, WorkAlone
  <2>11. /\ Cardinality(A) \in {0, 1} /\ (Cardinality(A) = 1 => A # {})
         /\ Cardinality(B) \in {0, 1} /\ (Cardinality(B) = 1 => B # {})
         /\ Cardinality(C) \in {0, 1} /\ (Cardinality(C) = 1 => C # {})
    BY <2>6, <2>7, <2>8, AtMostOne
  <2>12. Cardinality({}) = 0
    BY FS_EmptySet
  <2>13. Tokens(id) <= 1
    BY <2>4, <2>9, <2>10, <2>11, <2>12
  <2>14. ~({"Finished", "Failed"} \subseteq told[id])
    <3> SUFFICES ASSUME "Finished" \in told[id], "Failed" \in told[id] PROVE FALSE
      OBVIOUS
    <3>1. <<"told", "Finished">> \in Token(id) /\ <<"told", "Failed">> \in Token(id)
      BY TokenIs DEF Outcome
    <3>2. QED
      BY <2>1, <3>1 DEF Sole
  <2>15. QED
    BY <2>13, <2>14
<1>2. OneInv => OneOutcome
  BY <1>1 DEF OneOutcome
<1>3. QED
  BY <1>2, OneInvariant, PTL
=============================================================================
