-------------------------- MODULE DispatcherProofs --------------------------
(***************************************************************************)
(* What TLAPS proves of Dispatcher, for every set of tasks, messages and   *)
(* worker queues, every limit and every mix of faults.                     *)
(***************************************************************************)
EXTENDS Dispatcher, FiniteSetTheorems, SequenceTheorems, TLAPS

USE DispatcherAssumption

(***************************************************************************)
(* Lemmas about the operators the handlers are built from.                 *)
(***************************************************************************)
\* Deleting the response queue keeps the shape of inboxes and answers.
LEMMA AfterType ==
    ASSUME TypeOK, NEW out
    PROVE  /\ RespAfter(out) \in [Task -> Nat]
           /\ InboxAfter(out) \in [WorkerQ -> Seq(Item)]
<1>1. ASSUME NEW s \in Seq(Item) PROVE Orphan(s) \in Seq(Item)
  <2>1. Len(s) \in Nat /\ DOMAIN s = 1 .. Len(s)
    OBVIOUS
  <2>2. \A i \in 1 .. Len(s) : [s[i] EXCEPT !.live = FALSE] \in Item
    <3>1. \A i \in 1 .. Len(s) : s[i] \in Item
      BY ElementOfSeq
    <3>2. QED
      BY <3>1 DEF Item
  <2>3. [i \in 1 .. Len(s) |-> [s[i] EXCEPT !.live = FALSE]] \in Seq(Item)
    BY <2>1, <2>2
  <2>4. QED
    BY <2>1, <2>3 DEF Orphan
<1>2. QED
  BY <1>1 DEF TypeOK, RespAfter, InboxAfter

\* Ack and Nack lead from states of a delivery to states of a delivery.
LEMMA SettleType ==
    ASSUME TypeOK, NEW A, NEW N, Settle(A, N)
    PROVE  Consumer!ConsumerTypeOK'
<1>1. dstate' \in [Delivery -> Consumer!DeliveryState]
  <2>1. CASE WorkOpen
    <3>1. dstate' = [d \in Delivery |-> IF d \in A THEN "acked"
                                        ELSE IF d \in N THEN Nacked(d)
                                        ELSE dstate[d]]
      BY <2>1, Zenon DEF Settle
    <3>2. \A d \in Delivery : Nacked(d) \in Consumer!DeliveryState
      BY DEF Nacked, Consumer!DeliveryState
    <3>3. \A d \in Delivery : dstate[d] \in Consumer!DeliveryState
      BY DEF TypeOK, Consumer!ConsumerTypeOK
    <3>4. QED
      BY <3>1, <3>2, <3>3 DEF Consumer!DeliveryState
  <2>2. CASE ~WorkOpen
    BY <2>2 DEF TypeOK, Settle, Consumer!ConsumerTypeOK
  <2>3. QED
    BY <2>1, <2>2
<1>2. redelivered' \in [Delivery -> BOOLEAN]
  BY Zenon DEF TypeOK, Settle, Consumer!ConsumerTypeOK
<1>3. QED
  BY <1>1, <1>2 DEF Consumer!ConsumerTypeOK

LEMMA DisconnectType ==
    ASSUME TypeOK, Consumer!Requeue("work")
    PROVE  Consumer!ConsumerTypeOK'
<1>1. Consumer!Requeue("work")
  OBVIOUS
<1> DEFINE Back(d) == Consumer!HeldBy("work", d)
<1>2. /\ dstate' = [d \in Delivery |-> IF Back(d) THEN "queued" ELSE dstate[d]]
      /\ redelivered' = [d \in Delivery |-> Back(d) \/ redelivered[d]]
  BY DEF Consumer!Requeue
<1> HIDE DEF Back
<1>3. QED
  BY <1>2 DEF TypeOK, Consumer!ConsumerTypeOK, Consumer!DeliveryState

\* A fault is counted, and the rest of what a send changes has its type.
LEMMA SendType ==
    ASSUME TypeOK, NEW out, SendOver(out)
    PROVE  faults' \in Nat /\ conn' \subseteq AllConnections
  BY DEF TypeOK, SendOver, Fault

LEMMA DropTasksType ==
    ASSUME TypeOK, NEW S, DropTasks(S)
    PROVE  /\ delivery' \in [Task -> Delivery \cup {NoDelivery}]
           /\ runsOn' \in [Task -> WorkerQ \cup {NoWorker}]
           /\ fails' \in [Task -> Nat]
  BY DEF TypeOK, DropTasks

LEMMA DropWorkersType ==
    ASSUME TypeOK, NEW W, DropWorkers(W)
    PROVE  /\ registered' \subseteq WorkerQ
           /\ wtask' \in [WorkerQ -> Task \cup {NoTask}]
           /\ delivery' \in [Task -> Delivery \cup {NoDelivery}]
           /\ runsOn' \in [Task -> WorkerQ \cup {NoWorker}]
           /\ fails' \in [Task -> Nat]
  BY DEF TypeOK, DropWorkers

-----------------------------------------------------------------------------
(***************************************************************************)
(* Type correctness.                                                       *)
(***************************************************************************)
LEMMA RegistryType == TypeOK /\ RegistryStep => TypeOK'
<1> SUFFICES ASSUME TypeOK, RegistryStep PROVE TypeOK'
  OBVIOUS
<1> USE DEF TypeOK, brokerVars, taskVars, workerVars, envVars,
            Consumer!ConsumerTypeOK, Fault, Spawn
<1>1. ASSUME NEW w \in WorkerQ, RegisterWorker(w) PROVE TypeOK'
  BY <1>1 DEF RegisterWorker
<1>2. ASSUME NEW w \in WorkerQ, ExitWorker(w) PROVE TypeOK'
  BY <1>2, DropWorkersType DEF ExitWorker
<1>3. ASSUME NEW m \in RegMsg, IgnoreStale(m) PROVE TypeOK'
  BY <1>3 DEF IgnoreStale
<1>4. ASSUME NEW W \in SUBSET WorkerQ, ExpireWorkers(W) PROVE TypeOK'
  <2>1. Cardinality(W) \in Nat
    BY FS_Subset, FS_CardinalityType
  <2>2. QED
    BY <1>4, <2>1, DropWorkersType DEF ExpireWorkers
<1>5. QED
  BY <1>1, <1>2, <1>3, <1>4 DEF RegistryStep

LEMMA WorkType == TypeOK /\ WorkStep => TypeOK'
<1> SUFFICES ASSUME TypeOK, NEW d \in Delivery,
                    Deliver(d) \/ AddTask(d) \/ RejectWork(d)
             PROVE  TypeOK'
  BY DEF WorkStep
<1> USE DEF TypeOK, brokerVars, taskVars, workerVars, envVars,
            Consumer!ConsumerTypeOK, Consumer!DeliveryState, Spawn
<1>1. CASE Deliver(d)
  BY <1>1 DEF Deliver
<1>2. CASE AddTask(d)
  BY <1>2 DEF AddTask, FreeWorkerOf
<1>3. CASE RejectWork(d)
  BY <1>3 DEF RejectWork
<1>4. QED
  BY <1>1, <1>2, <1>3

LEMMA ReplyType == TypeOK /\ ReplyStep => TypeOK'
<1> SUFFICES ASSUME TypeOK, ReplyStep PROVE TypeOK'
  OBVIOUS
<1> USE DEF TypeOK, brokerVars, taskVars, workerVars, envVars, Spawn
<1>1. ASSUME NEW t \in Task, DropResponse(t) PROVE TypeOK'
  BY <1>1 DEF DropResponse, Consumer!ConsumerTypeOK
<1>2. ASSUME NEW t \in Task, NEW out \in SendOutcome, ProcessResponse(t, out)
      PROVE  TypeOK'
  <2>1. delivery[t] \in Delivery
    BY <1>2 DEF ProcessResponse, Known
  <2>2. Consumer!ConsumerTypeOK' /\ answered' \subseteq Delivery
    <3>1. CASE out = "failed"
      BY <1>2, <3>1, SettleType DEF ProcessResponse
    <3>2. CASE out # "failed"
      BY <1>2, <2>1, <3>2, SettleType DEF ProcessResponse
    <3>3. QED
      BY <3>1, <3>2
  <2>3. wtask' \in [WorkerQ -> Task \cup {NoTask}]
    BY <1>2 DEF ProcessResponse, FreeWorkerOf
  <2>4. resp' \in [Task -> Nat] /\ inbox' \in [WorkerQ -> Seq(Item)]
    BY <1>2, AfterType DEF ProcessResponse
  <2>5. faults' \in Nat /\ conn' \subseteq AllConnections
    BY <1>2, SendType DEF ProcessResponse
  <2>6. QED
    BY <1>2, <2>2, <2>3, <2>4, <2>5, DropTasksType DEF ProcessResponse
<1>3. ASSUME NEW U \in SUBSET Task, NEW out \in SendOutcome, CleanFailing(U, out)
      PROVE  TypeOK'
  <2>1. answered' \subseteq Delivery
    BY <1>3 DEF CleanFailing, Failing, Known
  <2>2. faults' \in Nat /\ conn' \subseteq AllConnections
    BY <1>3, SendType DEF CleanFailing
  <2>3. QED
    BY <1>3, <2>1, <2>2, AfterType, SettleType, DropTasksType DEF CleanFailing
<1>4. QED
  BY <1>1, <1>2, <1>3 DEF ReplyStep

LEMMA ChangedType == TypeOK /\ ChangedStep => TypeOK'
<1> SUFFICES ASSUME TypeOK, ChangedStep PROVE TypeOK'
  OBVIOUS
<1> USE DEF TypeOK, brokerVars, taskVars, workerVars, envVars
<1>1. CASE ChangedStart
  BY <1>1 DEF ChangedStart, Idle, Consumer!ConsumerTypeOK
<1>2. ASSUME NEW w \in WorkerQ, SkipWorker(w) PROVE TypeOK'
  BY <1>2 DEF SkipWorker, Consumer!ConsumerTypeOK
<1>3. ASSUME NEW w \in WorkerQ, NEW t \in Task, NEW out \in SendOutcome,
             StartOn(w, t, out)
      PROVE  TypeOK'
  <2>1. resp' \in [Task -> Nat]
    BY <1>3, AfterType DEF StartOn
  <2>2. inbox' \in [WorkerQ -> Seq(Item)]
    <3>1. CASE inbox' = InboxAfter(out)
      BY <3>1, AfterType
    <3>2. CASE inbox' = [InboxAfter(out) EXCEPT
                    ![w] = Append(@, [id |-> t, live |-> "main" \in conn'])]
      <4>1. [id |-> t, live |-> "main" \in conn'] \in Item
        BY DEF Item
      <4>2. QED
        BY <3>2, <4>1, AfterType
    <3>3. QED
      BY <1>3, <3>1, <3>2 DEF StartOn, Enqueue
  <2>3. faults' \in Nat /\ conn' \subseteq AllConnections
    BY <1>3, SendType DEF StartOn
  <2>4. /\ fails' \in [Task -> Nat]
        /\ runsOn' \in [Task -> WorkerQ \cup {NoWorker}]
        /\ wtask' \in [WorkerQ -> Task \cup {NoTask}]
    <3>1. CASE out = "failed"
      <4>1. fails' = [fails EXCEPT ![t] = @ + 1] /\ UNCHANGED <<runsOn, wtask>>
        BY <1>3, <3>1 DEF StartOn
      <4>2. QED
        BY <4>1
    <3>2. CASE out # "failed"
      BY <1>3, <3>2 DEF StartOn
    <3>3. QED
      BY <3>1, <3>2
  <2>5. QED
    BY <1>3, <2>1, <2>2, <2>3, <2>4 DEF StartOn, Consumer!ConsumerTypeOK
<1>4. QED
  BY <1>1, <1>2, <1>3 DEF ChangedStep

LEMMA ServiceType == TypeOK /\ ServiceStep => TypeOK'
<1> SUFFICES ASSUME TypeOK, ServiceStep PROVE TypeOK'
  OBVIOUS
<1> USE DEF TypeOK, brokerVars, taskVars, workerVars, envVars, Fault
<1>1. CASE LoseWorkChannel
  <2>1. Consumer!ConsumerTypeOK'
    BY <1>1, DisconnectType DEF LoseWorkChannel
  <2>2. conn' \subseteq AllConnections /\ faults' \in Nat
    BY <1>1 DEF LoseWorkChannel
  <2>3. QED
    BY <1>1, <2>1, <2>2 DEF LoseWorkChannel
<1>2. CASE Restart
  BY <1>2, DisconnectType, AfterType DEF Restart
<1>3. QED
  BY <1>1, <1>2 DEF ServiceStep

LEMMA WorkerType == TypeOK /\ WorkerStep => TypeOK'
<1> SUFFICES ASSUME TypeOK, NEW w \in WorkerQ,
                    \/ WorkerStart(w) \/ WorkerBeat(w) \/ WorkerReply(w)
                    \/ \E sent \in BOOLEAN : WorkerReplyReconnects(w, sent)
                    \/ WorkerQuit(w) \/ WorkerClose(w) \/ WorkerEnd(w)
                    \/ WorkerCrash(w) \/ WorkerPoisoned(w)
             PROVE  TypeOK'
  BY Zenon DEF WorkerStep
<1> USE DEF TypeOK, dispatcherVars, taskVars, workerVars, Consumer!ConsumerTypeOK,
            Fault, ProcState
<1>1. CASE WorkerStart(w)
  BY <1>1 DEF WorkerStart
<1>2. CASE WorkerBeat(w)
  BY <1>2 DEF WorkerBeat, Beat, RegMsg
<1>3. ASSUME inbox[w] # <<>>
      PROVE  Tail(inbox[w]) \in Seq(Item) /\ Head(inbox[w]).id \in Task
  <2>1. inbox[w] \in Seq(Item)
    OBVIOUS
  <2>2. Tail(inbox[w]) \in Seq(Item) /\ Head(inbox[w]) \in Item
    BY <1>3, <2>1, HeadTailProperties
  <2>3. QED
    BY <2>2 DEF Item
<1>4. CASE WorkerReply(w)
  BY <1>3, <1>4 DEF WorkerReply
<1>5. ASSUME NEW sent \in BOOLEAN, WorkerReplyReconnects(w, sent) PROVE TypeOK'
  BY <1>3, <1>5 DEF WorkerReplyReconnects
<1>6. CASE WorkerQuit(w)
  BY <1>6 DEF WorkerQuit
<1>7. CASE WorkerClose(w)
  BY <1>7 DEF WorkerClose, Exit, RegMsg
<1>8. ASSUME Gone(w), faults' \in Nat PROVE TypeOK'
  BY <1>8 DEF Gone
<1>9. CASE WorkerEnd(w) \/ WorkerCrash(w) \/ WorkerPoisoned(w)
  BY <1>8, <1>9 DEF WorkerEnd, WorkerCrash, WorkerPoisoned
<1>10. QED
  BY <1>1, <1>2, <1>4, <1>5, <1>6, <1>7, <1>9

\* The variables keep their types, whatever the dispatcher, its workers and
\* the faults do.
THEOREM TypeCorrect == Spec => []TypeOK
<1>1. Init => TypeOK
  BY DEF Init, TypeOK, Consumer!Init, Consumer!ConsumerTypeOK,
         Consumer!DeliveryState, ProcState
<1>2. TypeOK /\ [Next]_vars => TypeOK'
  <2>1. TypeOK /\ UNCHANGED vars => TypeOK'
    BY DEF TypeOK, vars, brokerVars, taskVars, workerVars, envVars,
           Consumer!ConsumerTypeOK
  <2>2. QED
    BY <2>1, RegistryType, WorkType, ReplyType, ChangedType, ServiceType,
       WorkerType DEF Next
<1>3. QED
  BY <1>1, <1>2, PTL DEF Spec

-----------------------------------------------------------------------------
(***************************************************************************)
(* The maps of tasks and workers agree.  What makes it inductive is that   *)
(* the workers a `changed' pass has yet to visit stay idle, which the      *)
(* mutex guarantees.                                                       *)
(***************************************************************************)
TodoIsIdle == todo \subseteq Idle
Agreement == PointersAgree /\ FailBound /\ TodoIsIdle

\* Dropping workers requeues exactly the tasks they run.
LEMMA DropWorkersAgreement ==
    ASSUME TypeOK, Agreement, MutexFree, UNCHANGED todo,
           NEW W \in SUBSET WorkerQ, DropWorkers(W)
    PROVE  Agreement'
<1> USE DEF TypeOK, Agreement, PointersAgree, DropWorkers, RequeuedBy,
            Known, Started, Working
<1>1. PointersAgree'
  <2>1. ASSUME NEW w \in WorkerQ, wtask'[w] # NoTask
        PROVE  /\ w \in registered'
               /\ wtask'[w] \in Known'
               /\ runsOn'[wtask'[w]] = w
    BY <2>1
  <2>2. ASSUME NEW t \in Task, runsOn'[t] # NoWorker
        PROVE  /\ t \in Known'
               /\ runsOn'[t] \in registered'
               /\ wtask'[runsOn'[t]] = t
    BY <2>2
  <2>3. QED
    BY <2>1, <2>2
<1>2. FailBound'
  BY DEF FailBound
<1>3. TodoIsIdle'
  BY DEF MutexFree, TodoIsIdle
<1>4. QED
  BY <1>1, <1>2, <1>3

\* Deleting a task together with freeing its worker leaves no trace of it.
LEMMA DropTaskAgreement ==
    ASSUME TypeOK, Agreement, MutexFree, UNCHANGED <<todo, registered>>,
           NEW t \in Task, FreeWorkerOf(t), DropTasks({t})
    PROVE  Agreement'
<1> USE DEF TypeOK, Agreement, PointersAgree, FreeWorkerOf, DropTasks,
            Known, Started, Working
<1>1. PointersAgree'
  OBVIOUS
<1>2. FailBound'
  BY DEF FailBound
<1>3. TodoIsIdle'
  BY DEF MutexFree, TodoIsIdle
<1>4. QED
  BY <1>1, <1>2, <1>3

LEMMA AgreementStep ==
    ASSUME TypeOK, Agreement, [Next]_vars
    PROVE  Agreement'
<1> DEFINE agreeVars == <<delivery, runsOn, fails, registered, wtask, todo>>
<1>1. ASSUME UNCHANGED agreeVars PROVE Agreement'
  BY <1>1 DEF Agreement, PointersAgree, FailBound, TodoIsIdle, Known, Started,
              Working, Idle
<1>2. CASE RegistryStep
  <2>1. ASSUME NEW w \in WorkerQ, RegisterWorker(w) PROVE Agreement'
    BY <2>1 DEF RegisterWorker, taskVars, Agreement, PointersAgree, FailBound,
                TodoIsIdle, MutexFree, Known, Started, Working
  <2>2. ASSUME NEW w \in WorkerQ, ExitWorker(w) PROVE Agreement'
    <3>1. CASE w \in registered
      BY <2>2, <3>1, DropWorkersAgreement DEF ExitWorker
    <3>2. CASE w \notin registered
      BY <2>2, <3>2, <1>1 DEF ExitWorker, taskVars, workerVars
    <3>3. QED
      BY <3>1, <3>2
  <2>3. ASSUME NEW m \in RegMsg, IgnoreStale(m) PROVE Agreement'
    BY <2>3, <1>1 DEF IgnoreStale, taskVars, workerVars
  <2>4. ASSUME NEW W \in SUBSET WorkerQ, ExpireWorkers(W) PROVE Agreement'
    BY <2>4, DropWorkersAgreement DEF ExpireWorkers
  <2>5. QED
    BY <1>2, <2>1, <2>2, <2>3, <2>4 DEF RegistryStep
<1>3. CASE WorkStep
  <2>1. ASSUME NEW d \in Delivery, Deliver(d) \/ RejectWork(d) PROVE Agreement'
    BY <2>1, <1>1 DEF Deliver, RejectWork, taskVars, workerVars
  <2>2. ASSUME NEW d \in Delivery, AddTask(d) PROVE Agreement'
    <3> USE <2>2 DEF AddTask, FreeWorkerOf, TypeOK, Agreement, Known, Started, Working
    <3>1. IdOf[d] \in Task /\ d # NoDelivery
      OBVIOUS
    <3>2. PointersAgree'
      BY <3>1 DEF PointersAgree
    <3>3. FailBound'
      BY <3>1 DEF FailBound
    <3>4. TodoIsIdle'
      BY DEF MutexFree, TodoIsIdle
    <3>5. QED
      BY <3>2, <3>3, <3>4
  <2>3. QED
    BY <1>3, <2>1, <2>2 DEF WorkStep
<1>4. CASE ReplyStep
  <2>1. ASSUME NEW t \in Task, DropResponse(t) PROVE Agreement'
    BY <2>1, <1>1 DEF DropResponse, taskVars, workerVars
  <2>2. ASSUME NEW t \in Task, NEW out \in SendOutcome, ProcessResponse(t, out)
        PROVE  Agreement'
    BY <2>2, DropTaskAgreement DEF ProcessResponse
  <2>3. ASSUME NEW U \in SUBSET Task, NEW out \in SendOutcome, CleanFailing(U, out)
        PROVE  Agreement'
    <3> USE <2>3 DEF CleanFailing, workerVars, DropTasks, TypeOK, Agreement, Known,
                     Started, Working
    <3>1. PointersAgree'
      BY DEF PointersAgree, Failing
    <3>2. FailBound'
      BY DEF FailBound
    <3>3. TodoIsIdle'
      BY DEF MutexFree, TodoIsIdle
    <3>4. QED
      BY <3>1, <3>2, <3>3
  <2>4. QED
    BY <1>4, <2>1, <2>2, <2>3 DEF ReplyStep
<1>5. CASE ChangedStep
  <2>1. CASE ChangedStart
    BY <2>1 DEF ChangedStart, taskVars, workerVars, Agreement, PointersAgree,
                FailBound, TodoIsIdle, Known, Started, Working, Idle
  <2>2. ASSUME NEW w \in WorkerQ, SkipWorker(w) PROVE Agreement'
    BY <2>2 DEF SkipWorker, taskVars, workerVars, Agreement, PointersAgree,
                FailBound, TodoIsIdle, Known, Started, Working, Idle
  <2>3. ASSUME NEW w \in WorkerQ, NEW t \in Task, NEW out \in SendOutcome,
               StartOn(w, t, out)
        PROVE  Agreement'
    <3>1. t \in Known /\ ~Started(t) /\ fails[t] < MaxFail
      BY <2>3 DEF StartOn, Schedulable
    <3>2. w \in registered /\ ~Working(w)
      BY <2>3 DEF StartOn, Agreement, TodoIsIdle, Idle
    <3>3. CASE out = "failed"
      <4>1. /\ fails' = [fails EXCEPT ![t] = @ + 1]
            /\ todo' = todo \ {w}
            /\ UNCHANGED <<runsOn, wtask, delivery, registered>>
        BY <2>3, <3>3 DEF StartOn
      <4>2. QED
        BY <4>1, <3>1 DEF TypeOK, Agreement, PointersAgree, FailBound, TodoIsIdle,
                          Known, Started, Working, Idle
    <3>4. CASE out # "failed"
      <4>1. /\ runsOn' = [runsOn EXCEPT ![t] = w]
            /\ wtask' = [wtask EXCEPT ![w] = t]
            /\ todo' = todo \ {w}
            /\ UNCHANGED <<fails, delivery, registered>>
        BY <2>3, <3>4 DEF StartOn
      <4>2. QED
        BY <4>1, <3>1, <3>2 DEF TypeOK, Agreement, PointersAgree, FailBound,
                                TodoIsIdle, Known, Started, Working, Idle
    <3>5. QED
      BY <3>3, <3>4
  <2>4. QED
    BY <1>5, <2>1, <2>2, <2>3 DEF ChangedStep
<1>6. CASE ServiceStep
  <2>1. CASE LoseWorkChannel
    BY <2>1, <1>1 DEF LoseWorkChannel, taskVars, workerVars
  <2>2. CASE Restart
    BY <2>2 DEF Restart, Agreement, PointersAgree, FailBound, TodoIsIdle, Known,
                Started, Working
  <2>3. QED
    BY <1>6, <2>1, <2>2 DEF ServiceStep
<1>7. CASE WorkerStep
  BY <1>7, <1>1 DEF WorkerStep, dispatcherVars, taskVars, workerVars, WorkerStart,
     WorkerBeat, WorkerReply, WorkerReplyReconnects, WorkerQuit, WorkerClose,
     WorkerEnd, WorkerCrash, WorkerPoisoned, Gone
<1>8. CASE UNCHANGED vars
  BY <1>8, <1>1 DEF vars, taskVars, workerVars
<1>9. QED
  BY <1>2, <1>3, <1>4, <1>5, <1>6, <1>7, <1>8 DEF Next

\* The dispatcher's view of who runs what is consistent in every state.
THEOREM AgreementInvariant == Spec => []Agreement
<1>1. Init => Agreement
  BY DEF Init, Agreement, PointersAgree, FailBound, TodoIsIdle, Known, Started,
         Working
<1>2. QED
  BY <1>1, TypeCorrect, AgreementStep, PTL DEF Spec

THEOREM PointersAlwaysAgree == Spec => []PointersAgree
<1>1. Agreement => PointersAgree
  BY DEF Agreement
<1>2. QED
  BY <1>1, AgreementInvariant, PTL

\* No task runs again once it failed maxTaskFailCount times.
THEOREM FailuresAreBounded == Spec => []FailBound
<1>1. Agreement => FailBound
  BY DEF Agreement
<1>2. QED
  BY <1>1, AgreementInvariant, PTL

-----------------------------------------------------------------------------
(***************************************************************************)
(* Messages are settled as they should.  KnownIsHeld alone is not          *)
(* inductive: it needs that what arrived is held, and that the loss of the *)
(* work channel marked the messages of all tasks as redelivered.           *)
(***************************************************************************)
ArrivedIsHeld == \A d \in arrived : WorkOpen /\ Consumer!Held(d)
KnownWasRequeued ==
    \A t \in Known : ~WorkOpen => redelivered[delivery[t]]
Settlement ==
    KnownIsHeld /\ ArrivedIsHeld /\ KnownWasRequeued /\ HeldIsKnown /\ NoSilentLoss

\* What Ack and Nack(false, !Redelivered) do to one message.
LEMMA SettleEffect ==
    ASSUME TypeOK, NEW A, NEW N, Settle(A, N), NEW d \in Delivery
    PROVE  /\ ~WorkOpen => dstate'[d] = dstate[d] /\ redelivered'[d] = redelivered[d]
           /\ WorkOpen /\ d \in A \ N =>
                dstate'[d] = "acked" /\ redelivered'[d] = redelivered[d]
           /\ WorkOpen /\ d \in N \ A /\ ~redelivered[d] =>
                dstate'[d] = "queued" /\ redelivered'[d]
           /\ WorkOpen /\ d \in N \ A /\ redelivered[d] =>
                dstate'[d] = "discarded" /\ redelivered'[d]
           /\ d \notin A \cup N =>
                dstate'[d] = dstate[d] /\ redelivered'[d] = redelivered[d]
<1>1. CASE WorkOpen
  <2>1. /\ dstate' = [e \in Delivery |-> IF e \in A THEN "acked"
                                         ELSE IF e \in N THEN Nacked(e)
                                         ELSE dstate[e]]
        /\ redelivered' = [e \in Delivery |->
                redelivered[e] \/ (e \in N /\ Nacked(e) = "queued")]
    BY <1>1, Zenon DEF Settle
  <2>2. dstate'[d] = IF d \in A THEN "acked"
                     ELSE IF d \in N THEN Nacked(d) ELSE dstate[d]
    BY <2>1
  <2>3. redelivered'[d] = (redelivered[d] \/ (d \in N /\ Nacked(d) = "queued"))
    BY <2>1, Zenon
  <2>4. redelivered[d] \in BOOLEAN
    BY DEF TypeOK, Consumer!ConsumerTypeOK
  <2>5. CASE redelivered[d]
    BY <1>1, <2>2, <2>3, <2>4, <2>5 DEF Nacked
  <2>6. CASE ~redelivered[d]
    BY <1>1, <2>2, <2>3, <2>4, <2>6 DEF Nacked
  <2>7. QED
    BY <2>5, <2>6
<1>2. CASE ~WorkOpen
  BY <1>2 DEF Settle
<1>3. QED
  BY <1>1, <1>2

\* The common core of ProcessResponse and CleanFailing: the messages of the
\* dropped tasks are settled, and those that were answered are acknowledged.
LEMMA DropSettledTasks ==
    ASSUME TypeOK, Settlement, NEW S \in SUBSET Known, NEW U \in SUBSET S,
           Settle({delivery[t] : t \in S \ U}, {delivery[t] : t \in U}),
           answered' = answered \cup {delivery[t] : t \in S \ U},
           DropTasks(S), UNCHANGED arrived, WorkOpen' = WorkOpen
    PROVE  Settlement'
<1> DEFINE A == {delivery[t] : t \in S \ U}
           N == {delivery[t] : t \in U}
<1>1. \A d \in Delivery :
        /\ ~WorkOpen => dstate'[d] = dstate[d] /\ redelivered'[d] = redelivered[d]
        /\ WorkOpen /\ d \in A \ N =>
             dstate'[d] = "acked" /\ redelivered'[d] = redelivered[d]
        /\ WorkOpen /\ d \in N \ A /\ ~redelivered[d] =>
             dstate'[d] = "queued" /\ redelivered'[d]
        /\ WorkOpen /\ d \in N \ A /\ redelivered[d] =>
             dstate'[d] = "discarded" /\ redelivered'[d]
        /\ d \notin A \cup N =>
             dstate'[d] = dstate[d] /\ redelivered'[d] = redelivered[d]
  BY SettleEffect
<1>2. A \cap N = {} /\ \A t \in Known \ S : delivery[t] \notin A \cup N
  BY DEF Settlement, KnownIsHeld
<1>3. /\ Known' = Known \ S
      /\ \A t \in Known \ S : delivery'[t] = delivery[t]
      /\ \A t \in Known : delivery[t] \in Delivery
  BY DEF DropTasks, Known, TypeOK
<1>4. \A d \in A \cup N : d \in Delivery /\ IdOf[d] \in S /\ d \notin Malformed
                         /\ (WorkOpen => Consumer!Held(d))
                         /\ (~WorkOpen => redelivered[d])
  BY <1>3 DEF Settlement, KnownIsHeld, KnownWasRequeued
<1> HIDE DEF A, N
<1>5. KnownIsHeld'
  BY <1>1, <1>2, <1>3 DEF Settlement, KnownIsHeld, Consumer!Held
<1>6. ArrivedIsHeld'
  <2>1. \A d \in arrived : d \in Delivery /\ d \notin A \cup N
    BY DEF A, N, Settlement, KnownIsHeld, TypeOK
  <2>2. QED
    BY <1>1, <2>1 DEF Settlement, ArrivedIsHeld, Consumer!Held
<1>7. KnownWasRequeued'
  BY <1>1, <1>2, <1>3 DEF Settlement, KnownWasRequeued, Consumer!Held
<1>8. HeldIsKnown'
  <2> SUFFICES ASSUME WorkOpen, NEW d \in Delivery, dstate'[d] = "unacked"
               PROVE  \/ d \in arrived'
                      \/ delivery'[IdOf[d]] = d
                      \/ \E e \in Delivery \ {d} :
                            IdOf[e] = IdOf[d] /\ (dstate'[e] # "queued" \/ redelivered'[e])
    BY DEF HeldIsKnown, Consumer!Held
  <2>1. d \notin A \cup N /\ dstate[d] = "unacked"
    BY <1>1, <1>2
  <2>2. CASE delivery[IdOf[d]] = d
    <3>1. IdOf[d] \in Known
      BY <2>2 DEF Known
    <3>2. IdOf[d] \notin S
      BY <2>1, <2>2 DEF A, N
    <3>3. QED
      BY <1>3, <2>2, <3>1, <3>2
  <2>3. ASSUME NEW e \in Delivery, dstate[e] # "queued" \/ redelivered[e]
        PROVE  dstate'[e] # "queued" \/ redelivered'[e]
    BY <1>1, <1>2, <2>3
  <2>4. QED
    BY <2>1, <2>2, <2>3 DEF Settlement, HeldIsKnown, Consumer!Held
<1>9. NoSilentLoss'
  <2> SUFFICES ASSUME NEW d \in Delivery
               PROVE  /\ dstate'[d] = "acked" => d \in answered'
                      /\ dstate'[d] = "discarded" => d \in Malformed \/ redelivered'[d]
                      /\ d \in answered' => dstate'[d] = "acked" \/ redelivered'[d]
    BY DEF NoSilentLoss
  <2>1. answered' = answered \cup A
    BY DEF A
  <2>2. /\ dstate[d] = "acked" => d \in answered
        /\ dstate[d] = "discarded" => d \in Malformed \/ redelivered[d]
        /\ d \in answered => dstate[d] = "acked" \/ redelivered[d]
    BY DEF Settlement, NoSilentLoss
  <2>3. CASE d \in A
    <3>1. CASE WorkOpen
      BY <1>1, <1>2, <2>1, <2>3, <3>1
    <3>2. CASE ~WorkOpen
      <4>1. redelivered'[d]
        BY <1>1, <1>4, <2>3, <3>2
      <4>2. QED
        BY <1>1, <2>1, <2>2, <3>2, <4>1
    <3>3. QED
      BY <3>1, <3>2
  <2>4. CASE d \in N
    BY <1>1, <1>2, <1>4, <2>1, <2>2, <2>4 DEF Consumer!Held
  <2>5. CASE d \notin A \cup N
    BY <1>1, <2>1, <2>2, <2>5
  <2>6. QED
    BY <2>3, <2>4, <2>5
<1>10. QED
  BY <1>5, <1>6, <1>7, <1>8, <1>9 DEF Settlement

\* What is held is held by the channel of the work queue.
LEMMA HeldByWork ==
    ASSUME NEW d \in Delivery PROVE Consumer!HeldBy("work", d) <=> Consumer!Held(d)
  BY DEF Consumer!HeldBy, Consumer!Held

\* The loss of the work channel.
LEMMA DisconnectSettlement ==
    ASSUME TypeOK, Settlement, Consumer!Requeue("work"), UNCHANGED answered,
           arrived' = {}, Known' = {} \/ (~WorkOpen' /\ UNCHANGED delivery)
    PROVE  Settlement'
<1>1. \A d \in Delivery :
        /\ dstate'[d] = IF Consumer!Held(d) THEN "queued" ELSE dstate[d]
        /\ redelivered'[d] = (Consumer!Held(d) \/ redelivered[d])
  <2>1. \A d \in Delivery :
          /\ dstate'[d] = IF Consumer!HeldBy("work", d) THEN "queued" ELSE dstate[d]
          /\ redelivered'[d] = (Consumer!HeldBy("work", d) \/ redelivered[d])
    BY Zenon DEF Consumer!Requeue
  <2>2. QED
    BY <2>1, HeldByWork
<1>2. \A d \in Delivery : ~Consumer!Held(d)'
  BY <1>1 DEF Consumer!Held
<1>3. KnownIsHeld' /\ HeldIsKnown' /\ ArrivedIsHeld'
  BY <1>2 DEF Settlement, KnownIsHeld, HeldIsKnown, ArrivedIsHeld, Known
<1>4. KnownWasRequeued'
  <2> SUFFICES ASSUME NEW t \in Known', ~WorkOpen' PROVE redelivered'[delivery'[t]]
    BY DEF KnownWasRequeued
  <2>1. delivery' = delivery /\ t \in Known /\ delivery[t] \in Delivery
    BY DEF Known, TypeOK
  <2>2. Consumer!Held(delivery[t]) \/ redelivered[delivery[t]]
    BY <2>1 DEF Settlement, KnownIsHeld, KnownWasRequeued
  <2>3. QED
    BY <1>1, <2>1, <2>2
<1>5. NoSilentLoss'
  BY <1>1 DEF Settlement, NoSilentLoss, Consumer!Held
<1>6. QED
  BY <1>3, <1>4, <1>5 DEF Settlement

LEMMA WorkSettlement ==
    ASSUME TypeOK, Settlement, WorkStep
    PROVE  Settlement'
<1> USE DEF taskVars, workerVars, envVars, brokerVars, Known
<1> SUFFICES ASSUME NEW d \in Delivery, Deliver(d) \/ AddTask(d) \/ RejectWork(d)
             PROVE  Settlement'
  BY DEF WorkStep
<1>1. CASE Deliver(d)
  <2> USE <1>1 DEF Deliver, TypeOK, Consumer!ConsumerTypeOK, Consumer!Held, Settlement,
                   WorkOpen
  <2>1. KnownIsHeld'
    BY DEF KnownIsHeld
  <2>2. ArrivedIsHeld' /\ KnownWasRequeued'
    BY DEF ArrivedIsHeld, KnownWasRequeued
  <2>3. HeldIsKnown'
    BY DEF HeldIsKnown
  <2>4. NoSilentLoss'
    BY DEF NoSilentLoss
  <2>5. QED
    BY <2>1, <2>2, <2>3, <2>4
<1>2. CASE AddTask(d)
  <2> USE <1>2 DEF AddTask, TypeOK, Consumer!ConsumerTypeOK, Consumer!Held, Settlement,
                   WorkOpen
  <2>1. IdOf[d] \in Task /\ d # NoDelivery /\ dstate[d] = "unacked" /\ "work" \in conn
    BY DEF ArrivedIsHeld
  <2>2. KnownIsHeld'
    BY <2>1 DEF KnownIsHeld
  <2>3. ArrivedIsHeld' /\ KnownWasRequeued'
    BY <2>1 DEF ArrivedIsHeld, KnownWasRequeued
  <2>4. HeldIsKnown'
    BY <2>1 DEF HeldIsKnown
  <2>5. NoSilentLoss'
    BY DEF NoSilentLoss
  <2>6. QED
    BY <2>2, <2>3, <2>4, <2>5
<1>3. CASE RejectWork(d)
  <2> USE <1>3 DEF RejectWork, TypeOK, Consumer!ConsumerTypeOK, Consumer!Held,
                   Settlement, WorkOpen
  <2>1. dstate[d] = "unacked" /\ "work" \in conn /\ d \in Malformed
    BY DEF ArrivedIsHeld
  <2>2. dstate' = [dstate EXCEPT ![d] = "discarded"]
    BY <2>1
  <2>3. KnownIsHeld'
    BY <2>1, <2>2 DEF KnownIsHeld
  <2>4. ArrivedIsHeld' /\ KnownWasRequeued'
    BY <2>1, <2>2 DEF ArrivedIsHeld, KnownWasRequeued
  <2>5. HeldIsKnown'
    BY <2>1, <2>2 DEF HeldIsKnown
  <2>6. NoSilentLoss'
    BY <2>1, <2>2 DEF NoSilentLoss
  <2>7. QED
    BY <2>3, <2>4, <2>5, <2>6
<1>4. QED
  BY <1>1, <1>2, <1>3

LEMMA SettlementStep ==
    ASSUME TypeOK, Settlement, [Next]_vars
    PROVE  Settlement'
<1>1. ASSUME UNCHANGED <<dstate, redelivered, arrived, delivery, answered>>,
             WorkOpen' = WorkOpen
      PROVE  Settlement'
  BY <1>1 DEF Settlement, KnownIsHeld, ArrivedIsHeld, KnownWasRequeued, HeldIsKnown,
              NoSilentLoss, Known, Consumer!Held
<1>2. ASSUME NEW out, SendOver(out) PROVE WorkOpen' = WorkOpen
  BY <1>2 DEF SendOver, WorkOpen
<1>3. CASE RegistryStep
  BY <1>1, <1>3 DEF RegistryStep, RegisterWorker, ExitWorker, IgnoreStale, ExpireWorkers,
     DropWorkers, brokerVars, taskVars, workerVars, envVars, WorkOpen
<1>4. CASE ReplyStep
  <2>1. ASSUME NEW t \in Task, DropResponse(t) PROVE Settlement'
    BY <1>1, <2>1 DEF DropResponse, taskVars, envVars, WorkOpen
  <2>2. ASSUME NEW t \in Task, NEW out \in SendOutcome, ProcessResponse(t, out)
        PROVE  Settlement'
    <3>1. t \in Known /\ DropTasks({t}) /\ arrived' = arrived /\ WorkOpen' = WorkOpen
      BY <1>2, <2>2 DEF ProcessResponse
    <3>2. CASE out = "failed"
      <4>1. Settle({}, {delivery[t]}) /\ answered' = answered
        BY <2>2, <3>2 DEF ProcessResponse
      <4>2. /\ {delivery[s] : s \in {t} \ {t}} = {}
            /\ {delivery[s] : s \in {t}} = {delivery[t]}
        OBVIOUS
      <4>3. QED
        BY <3>1, <4>1, <4>2, DropSettledTasks
    <3>3. CASE out # "failed"
      <4>1. Settle({delivery[t]}, {}) /\ answered' = answered \cup {delivery[t]}
        BY <2>2, <3>3 DEF ProcessResponse
      <4>2. /\ {delivery[s] : s \in {t} \ {}} = {delivery[t]}
            /\ {delivery[s] : s \in {}} = {}
        OBVIOUS
      <4>3. QED
        BY <3>1, <4>1, <4>2, DropSettledTasks
    <3>4. QED
      BY <3>2, <3>3
  <2>3. ASSUME NEW U \in SUBSET Task, NEW out \in SendOutcome, CleanFailing(U, out)
        PROVE  Settlement'
    <3>1. /\ Failing \subseteq Known /\ U \subseteq Failing
          /\ arrived' = arrived /\ WorkOpen' = WorkOpen
      BY <1>2, <2>3 DEF CleanFailing, Failing
    <3>2. QED
      BY <2>3, <3>1, DropSettledTasks DEF CleanFailing
  <2>4. QED
    BY <1>4, <2>1, <2>2, <2>3 DEF ReplyStep
<1>5. CASE ChangedStep
  <2>1. CASE ChangedStart
    BY <1>1, <2>1 DEF ChangedStart, brokerVars, taskVars, envVars, WorkOpen
  <2>2. ASSUME NEW w \in WorkerQ, SkipWorker(w) PROVE Settlement'
    BY <1>1, <2>2 DEF SkipWorker, brokerVars, taskVars, envVars, WorkOpen
  <2>3. ASSUME NEW w \in WorkerQ, NEW t \in Task, NEW out \in SendOutcome,
               StartOn(w, t, out)
        PROVE  Settlement'
    BY <1>1, <1>2, <2>3 DEF StartOn
  <2>4. QED
    BY <1>5, <2>1, <2>2, <2>3 DEF ChangedStep
<1>6. CASE ServiceStep
  <2>1. CASE LoseWorkChannel
    BY <2>1, DisconnectSettlement DEF LoseWorkChannel, taskVars, WorkOpen
  <2>2. CASE Restart
    <3>1. Known' = {}
      BY <2>2 DEF Restart, Known
    <3>2. QED
      BY <2>2, <3>1, DisconnectSettlement DEF Restart
  <2>3. QED
    BY <1>6, <2>1, <2>2 DEF ServiceStep
<1>7. CASE WorkerStep
  BY <1>1, <1>7 DEF WorkerStep, dispatcherVars, taskVars, workerVars, WorkerStart,
     WorkerBeat, WorkerReply, WorkerReplyReconnects, WorkerQuit, WorkerClose,
     WorkerEnd, WorkerCrash, WorkerPoisoned, Gone, WorkOpen
<1>8. CASE UNCHANGED vars
  BY <1>1, <1>8 DEF vars, brokerVars, taskVars, envVars, WorkOpen
<1>9. QED
  BY <1>3, <1>4, <1>5, <1>6, <1>7, <1>8, WorkSettlement DEF Next

\* The invariant behind the acknowledgements.
THEOREM SettlementInvariant == Spec => []Settlement
<1>1. Init => Settlement
  BY DEF Init, Consumer!Init, Settlement, KnownIsHeld, ArrivedIsHeld, KnownWasRequeued,
         HeldIsKnown, NoSilentLoss, Known, Consumer!Held, WorkOpen
<1>2. QED
  BY <1>1, TypeCorrect, SettlementStep, PTL DEF Spec

\* A task in the map holds an unacknowledged message of its own.
THEOREM TasksHoldTheirMessages == Spec => []KnownIsHeld
<1>1. Settlement => KnownIsHeld
  BY DEF Settlement
<1>2. QED
  BY <1>1, SettlementInvariant, PTL

\* A message that is held is in the map, on its way there, or a duplicate.
THEOREM HeldMessagesAreKnown == Spec => []HeldIsKnown
<1>1. Settlement => HeldIsKnown
  BY DEF Settlement
<1>2. QED
  BY <1>1, SettlementInvariant, PTL

\* The task map and the broker agree, in both directions.
THEOREM MapAndBrokerAgree == Spec => []HeldAreKnown
<1>1. Settlement => HeldAreKnown
  BY DEF Settlement, HeldAreKnown
<1>2. QED
  BY <1>1, SettlementInvariant, PTL

\* Nothing is acknowledged unanswered or discarded at its first failure.
THEOREM NothingIsLostSilently == Spec => []NoSilentLoss
<1>1. Settlement => NoSilentLoss
  BY DEF Settlement
<1>2. QED
  BY <1>1, SettlementInvariant, PTL

-----------------------------------------------------------------------------
(***************************************************************************)
(* The dispatcher implements the abstract consumer: Disconnect when its    *)
(* work channel is lost or it restarts, Consume otherwise.                 *)
(***************************************************************************)
LEMMA SettleIsConsume ==
    ASSUME TypeOK, NEW A, NEW N, A \cap N = {}, Settle(A, N),
           WorkOpen => \A d \in A \cup N : Consumer!Held(d)
    PROVE  Consumer!Consume("work")
<1> SUFFICES ASSUME NEW d \in Delivery
             PROVE  \/ Consumer!Taken("work", d) \/ Consumer!Acked("work", d)
                    \/ Consumer!PutBack("work", d) \/ Consumer!Discarded("work", d)
                    \/ Consumer!Kept(d)
  BY DEF Consumer!Consume
<1>1. /\ ~WorkOpen => dstate'[d] = dstate[d] /\ redelivered'[d] = redelivered[d]
      /\ WorkOpen /\ d \in A \ N =>
           dstate'[d] = "acked" /\ redelivered'[d] = redelivered[d]
      /\ WorkOpen /\ d \in N \ A /\ ~redelivered[d] =>
           dstate'[d] = "queued" /\ redelivered'[d]
      /\ WorkOpen /\ d \in N \ A /\ redelivered[d] =>
           dstate'[d] = "discarded" /\ redelivered'[d]
      /\ d \notin A \cup N =>
           dstate'[d] = dstate[d] /\ redelivered'[d] = redelivered[d]
  BY SettleEffect
<1>2. redelivered[d] \in BOOLEAN /\ redelivered'[d] \in BOOLEAN
  BY SettleType DEF TypeOK, Consumer!ConsumerTypeOK
<1>3. CASE ~WorkOpen \/ d \notin A \cup N
  BY <1>1, <1>3, HeldByWork DEF Consumer!Kept
<1>4. CASE WorkOpen /\ d \in A
  BY <1>1, <1>4, HeldByWork DEF Consumer!Acked
<1>5. CASE WorkOpen /\ d \in N /\ redelivered[d]
  BY <1>1, <1>2, <1>5, HeldByWork DEF Consumer!Discarded
<1>6. CASE WorkOpen /\ d \in N /\ ~redelivered[d]
  <2>1. redelivered'[d] = TRUE
    BY <1>1, <1>2, <1>6
  <2>2. QED
    BY <1>1, <1>6, <2>1, HeldByWork DEF Consumer!PutBack
<1>7. QED
  BY <1>3, <1>4, <1>5, <1>6

LEMMA ConsumerStep ==
    ASSUME TypeOK, Settlement, [Next]_vars
    PROVE  \/ Consumer!Consume("work") \/ Consumer!Disconnect("work")
           \/ UNCHANGED <<dstate, redelivered>>
<1>3. CASE RegistryStep
  BY <1>3 DEF RegistryStep, RegisterWorker, ExitWorker, IgnoreStale,
     ExpireWorkers, brokerVars
<1>4. CASE WorkStep
  <2>1. ASSUME NEW d \in Delivery, Deliver(d) PROVE Consumer!Consume("work")
    BY <2>1 DEF Deliver, Consumer!Consume, Consumer!Taken, Consumer!Kept, TypeOK,
                Consumer!ConsumerTypeOK
  <2>2. ASSUME NEW d \in Delivery, AddTask(d) PROVE UNCHANGED <<dstate, redelivered>>
    BY <2>2 DEF AddTask, brokerVars
  <2>3. ASSUME NEW d \in Delivery, RejectWork(d) PROVE Consumer!Consume("work")
    <3>1. dstate[d] = "unacked" /\ dstate' = [dstate EXCEPT ![d] = "discarded"]
          /\ redelivered' = redelivered
      BY <2>3 DEF RejectWork, Settlement, ArrivedIsHeld, Consumer!Held
    <3>2. SUFFICES ASSUME NEW e \in Delivery
                   PROVE  Consumer!Discarded("work", e) \/ Consumer!Kept(e)
      BY DEF Consumer!Consume
    <3>3. CASE e = d
      <4>1. dstate'[e] = "discarded" /\ redelivered'[e] = redelivered[e]
        BY <3>1, <3>3 DEF TypeOK, Consumer!ConsumerTypeOK
      <4>2. Consumer!HeldBy("work", e)
        BY <3>1, <3>3, HeldByWork DEF Consumer!Held
      <4>3. QED
        BY <4>1, <4>2 DEF Consumer!Discarded
    <3>4. CASE e # d
      <4>1. dstate'[e] = dstate[e] /\ redelivered'[e] = redelivered[e]
        BY <3>1, <3>4 DEF TypeOK, Consumer!ConsumerTypeOK
      <4>2. QED
        BY <4>1 DEF Consumer!Kept
    <3>5. QED
      BY <3>3, <3>4
  <2>4. QED
    BY <1>4, <2>1, <2>2, <2>3 DEF WorkStep
<1>5. CASE ReplyStep
  <2>1. ASSUME NEW t \in Task, DropResponse(t) PROVE UNCHANGED <<dstate, redelivered>>
    BY <2>1 DEF DropResponse
  <2>2. ASSUME NEW t \in Task, NEW out \in SendOutcome, ProcessResponse(t, out)
        PROVE  Consumer!Consume("work")
    <3>1. WorkOpen => Consumer!Held(delivery[t])
      BY <2>2 DEF ProcessResponse, Settlement, KnownIsHeld
    <3>2. CASE out = "failed"
      BY <2>2, <3>1, <3>2, SettleIsConsume DEF ProcessResponse
    <3>3. CASE out # "failed"
      BY <2>2, <3>1, <3>3, SettleIsConsume DEF ProcessResponse
    <3>4. QED
      BY <3>2, <3>3
  <2>3. ASSUME NEW U \in SUBSET Task, NEW out \in SendOutcome, CleanFailing(U, out)
        PROVE  Consumer!Consume("work")
    <3> DEFINE A == {delivery[t] : t \in Failing \ U}
               N == {delivery[t] : t \in U}
    <3>1. U \subseteq Failing /\ Failing \subseteq Known
      BY <2>3 DEF CleanFailing, Failing
    <3>2. A \cap N = {}
      BY <3>1 DEF Settlement, KnownIsHeld
    <3>3. WorkOpen => \A d \in A \cup N : Consumer!Held(d)
      BY <3>1 DEF Settlement, KnownIsHeld
    <3>4. Settle(A, N)
      BY <2>3 DEF CleanFailing
    <3> HIDE DEF A, N
    <3>5. QED
      BY <3>2, <3>3, <3>4, SettleIsConsume
  <2>4. QED
    BY <1>5, <2>1, <2>2, <2>3 DEF ReplyStep
<1>6. CASE ChangedStep
  BY <1>6 DEF ChangedStep, ChangedStart, SkipWorker, StartOn, brokerVars
<1>7. CASE ServiceStep
  <2>1. Consumer!Requeue("work") /\ <<conn, faults>>' # <<conn, faults>>
    <3>1. CASE LoseWorkChannel
      <4>1. conn' # conn
        BY <3>1 DEF LoseWorkChannel
      <4>2. QED
        BY <3>1, <4>1 DEF LoseWorkChannel
    <3>2. CASE Restart
      <4>1. conn' = AllConnections /\ (conn # AllConnections \/ Fault("restart"))
        BY <3>2 DEF Restart
      <4>2. Fault("restart") => faults' # faults
        BY DEF Fault, TypeOK
      <4>3. QED
        BY <3>2, <4>1, <4>2 DEF Restart
    <3>3. QED
      BY <1>7, <3>1, <3>2 DEF ServiceStep
  <2>2. QED
    BY <2>1 DEF Consumer!Disconnect
<1>8. CASE WorkerStep
  BY <1>8 DEF WorkerStep, dispatcherVars, WorkerStart, WorkerBeat, WorkerReply,
     WorkerReplyReconnects, WorkerQuit, WorkerClose, WorkerEnd, WorkerCrash,
     WorkerPoisoned, Gone
<1>9. CASE UNCHANGED vars
  BY <1>9 DEF vars, brokerVars
<1>10. QED
  BY <1>3, <1>4, <1>5, <1>6, <1>7, <1>8, <1>9 DEF Next

\* Each message of the work queue is taken, settled once while it is held,
\* and put back by the dispatcher at most once.
THEOREM DispatcherIsConsumer == Spec => ConsumerSpec
<1>1. Init => Consumer!Init
  BY DEF Init
<1>2. TypeOK /\ Settlement /\ [Next]_vars => [Consumer!Next]_(Consumer!consumerVars)
  <2>1. UNCHANGED <<dstate, redelivered>> => Consumer!Consume("work")
    BY DEF Consumer!Consume, Consumer!Kept
  <2>2. QED
    BY <2>1, ConsumerStep DEF Consumer!Next
<1>3. QED
  BY <1>1, <1>2, TypeCorrect, SettlementInvariant, PTL
     DEF Spec, ConsumerSpec, Consumer!Spec

-----------------------------------------------------------------------------
(***************************************************************************)
(* A started task is always somewhere.                                     *)
(***************************************************************************)
LEMMA AppendKeeps ==
    ASSUME NEW s \in Seq(Item), NEW x \in Item
    PROVE  /\ \A i \in DOMAIN s : i \in DOMAIN Append(s, x) /\ Append(s, x)[i] = s[i]
           /\ \E i \in DOMAIN Append(s, x) : Append(s, x)[i] = x
<1>1. /\ DOMAIN s = 1 .. Len(s) /\ Len(s) \in Nat
      /\ DOMAIN Append(s, x) = 1 .. Len(s) + 1
  OBVIOUS
<1>2. Append(s, x)[Len(s) + 1] = x
  OBVIOUS
<1>3. QED
  BY <1>1, <1>2

LEMMA TailKeeps ==
    ASSUME NEW s \in Seq(Item), s # <<>>, NEW i \in DOMAIN s, s[i] # Head(s)
    PROVE  \E j \in DOMAIN Tail(s) : Tail(s)[j] = s[i]
<1>1. /\ DOMAIN s = 1 .. Len(s) /\ Len(s) \in Nat /\ Len(s) # 0
      /\ DOMAIN Tail(s) = 1 .. Len(s) - 1
  OBVIOUS
<1>2. i # 1 /\ i - 1 \in DOMAIN Tail(s)
  BY <1>1
<1>3. Tail(s)[i - 1] = s[i]
  BY <1>1, <1>2
<1>4. QED
  BY <1>2, <1>3

\* Where nothing that the property reads is taken away, it is kept.
LEMMA RunningKept ==
    ASSUME StartedIsRunning,
           \A t \in Task : runsOn'[t] \in {NoWorker, runsOn[t]},
           \A t \in Task : resp'[t] = resp[t],
           UNCHANGED <<inbox, wproc>>, conn' \subseteq conn
    PROVE  StartedIsRunning'
  BY DEF StartedIsRunning, HasItem, Started

LEMMA RunningLost ==
    ASSUME "main" \notin conn'
    PROVE  StartedIsRunning'
  BY DEF StartedIsRunning

LEMMA RunningReply ==
    ASSUME TypeOK, Agreement, StartedIsRunning, ReplyStep
    PROVE  StartedIsRunning'
<1>1. ASSUME NEW t \in Task, DropResponse(t) PROVE StartedIsRunning'
  <2>1. ~Started(t)
    BY <1>1 DEF DropResponse, Agreement, PointersAgree
  <2>2. \A u \in Task \ {t} : resp'[u] = resp[u]
    BY <1>1 DEF DropResponse, TypeOK
  <2>3. UNCHANGED <<runsOn, inbox, wproc, conn>>
    BY <1>1 DEF DropResponse, taskVars, envVars
  <2>4. QED
    BY <2>1, <2>2, <2>3 DEF StartedIsRunning, HasItem, Started
<1>2. ASSUME NEW out, SendOver(out), resp' = RespAfter(out), inbox' = InboxAfter(out),
             NEW S, DropTasks(S), UNCHANGED wproc
      PROVE  StartedIsRunning'
  <2>1. CASE out = "sent"
    BY <1>2, <2>1, RunningKept DEF SendOver, RespAfter, InboxAfter, DropTasks
  <2>2. CASE out # "sent"
    BY <1>2, <2>2, RunningLost DEF SendOver
  <2>3. QED
    BY <2>1, <2>2
<1>3. ASSUME NEW t \in Task, NEW out \in SendOutcome, ProcessResponse(t, out)
      PROVE  StartedIsRunning'
  <2>1. CASE out = "sent"
    <3>1. /\ UNCHANGED <<inbox, wproc, conn>>
          /\ \A u \in Task \ {t} : resp'[u] = resp[u] /\ runsOn'[u] = runsOn[u]
          /\ runsOn'[t] = NoWorker
      BY <1>3, <2>1 DEF ProcessResponse, SendOver, RespAfter, InboxAfter, DropTasks, TypeOK
    <3>2. QED
      BY <3>1 DEF StartedIsRunning, HasItem, Started
  <2>2. CASE out # "sent"
    BY <1>3, <2>2, RunningLost DEF ProcessResponse, SendOver
  <2>3. QED
    BY <2>1, <2>2
<1>4. ASSUME NEW U \in SUBSET Task, NEW out \in SendOutcome, CleanFailing(U, out)
      PROVE  StartedIsRunning'
  BY <1>2, <1>4 DEF CleanFailing
<1>5. QED
  BY <1>1, <1>3, <1>4 DEF ReplyStep

LEMMA RunningChanged ==
    ASSUME TypeOK, StartedIsRunning, ChangedStep
    PROVE  StartedIsRunning'
<1>1. ASSUME UNCHANGED <<runsOn, resp, inbox, wproc, conn>> PROVE StartedIsRunning'
  BY <1>1, RunningKept
<1>2. CASE ChangedStart
  BY <1>1, <1>2 DEF ChangedStart, brokerVars, taskVars, envVars
<1>3. ASSUME NEW w \in WorkerQ, SkipWorker(w) PROVE StartedIsRunning'
  BY <1>1, <1>3 DEF SkipWorker, brokerVars, taskVars, envVars
<1>4. ASSUME NEW w \in WorkerQ, NEW t \in Task, NEW out \in SendOutcome,
             StartOn(w, t, out)
      PROVE  StartedIsRunning'
  <2>1. CASE out # "sent"
    BY <1>4, <2>1, RunningLost DEF StartOn, SendOver
  <2>2. CASE out = "sent"
    <3>1. /\ inbox' = Enqueue(w, t, out)
          /\ InboxAfter(out) = inbox
          /\ runsOn' = [runsOn EXCEPT ![t] = w]
          /\ resp' = resp
          /\ UNCHANGED <<wproc, conn>>
      BY <1>4, <2>2 DEF StartOn, SendOver, InboxAfter, RespAfter
    <3>2. CASE "main" \notin conn
      BY <3>1, <3>2, RunningLost
    <3>3. CASE "main" \in conn /\ wproc[w] = "off"
      <4>1. inbox' = inbox
        BY <3>1, <3>3 DEF Enqueue
      <4>2. QED
        BY <3>1, <3>3, <4>1 DEF StartedIsRunning, HasItem, Started, TypeOK
    <3>4. CASE "main" \in conn /\ wproc[w] # "off"
      <4> DEFINE x == [id |-> t, live |-> TRUE]
      <4>1. inbox' = [inbox EXCEPT ![w] = Append(@, x)]
        BY <3>1, <3>4 DEF Enqueue
      <4>2. x \in Item /\ inbox[w] \in Seq(Item)
        BY DEF Item, TypeOK
      <4>3. inbox'[w] = Append(inbox[w], x) /\ \A v \in WorkerQ \ {w} : inbox'[v] = inbox[v]
        BY <4>1 DEF TypeOK
      <4> HIDE DEF x
      <4>4. /\ \A i \in DOMAIN inbox[w] : i \in DOMAIN inbox'[w] /\ inbox'[w][i] = inbox[w][i]
            /\ \E i \in DOMAIN inbox'[w] : inbox'[w][i] = x
        BY <4>2, <4>3, AppendKeeps
      <4>5. HasItem(w, t)'
        BY <4>4 DEF HasItem, x
      <4>6. \A v \in WorkerQ, u \in Task : HasItem(v, u) => HasItem(v, u)'
        BY <4>3, <4>4 DEF HasItem
      <4>7. QED
        BY <3>1, <4>5, <4>6 DEF StartedIsRunning, Started, TypeOK
    <3>5. QED
      BY <3>2, <3>3, <3>4
  <2>3. QED
    BY <2>1, <2>2
<1>5. QED
  BY <1>2, <1>3, <1>4 DEF ChangedStep

LEMMA RunningWorker ==
    ASSUME TypeOK, Agreement, StartedIsRunning, WorkerStep
    PROVE  StartedIsRunning'
<1> SUFFICES ASSUME NEW w \in WorkerQ,
                    \/ WorkerStart(w) \/ WorkerBeat(w) \/ WorkerReply(w)
                    \/ \E sent \in BOOLEAN : WorkerReplyReconnects(w, sent)
                    \/ WorkerQuit(w) \/ WorkerClose(w) \/ WorkerEnd(w)
                    \/ WorkerCrash(w) \/ WorkerPoisoned(w),
                    NEW t \in Task, Started(t)', "main" \in conn',
                    wproc'[runsOn'[t]] = "on"
             PROVE  HasItem(runsOn[t], t)' \/ resp'[t] > 0
  BY Zenon DEF WorkerStep, StartedIsRunning, dispatcherVars, taskVars, WorkerStart,
     WorkerBeat, WorkerReply, WorkerReplyReconnects, WorkerQuit, WorkerClose,
     WorkerEnd, WorkerCrash, WorkerPoisoned, Gone
<1>1. UNCHANGED <<runsOn, registered, conn>>
  BY DEF dispatcherVars, taskVars, workerVars, WorkerStart,
     WorkerBeat, WorkerReply, WorkerReplyReconnects, WorkerQuit, WorkerClose,
     WorkerEnd, WorkerCrash, WorkerPoisoned, Gone
<1>2. runsOn[t] \in registered /\ Started(t) /\ runsOn[t] \in WorkerQ
  BY <1>1 DEF Started, Agreement, PointersAgree, TypeOK
\* It was running before: a process that just started runs nothing.
<1>3. CASE runsOn[t] = w
  <2>1. ~WorkerStart(w) /\ ~WorkerEnd(w) /\ ~WorkerCrash(w) /\ ~WorkerPoisoned(w)
        /\ ~WorkerClose(w) /\ ~WorkerQuit(w)
        /\ \A sent \in BOOLEAN : ~WorkerReplyReconnects(w, sent)
    BY <1>1, <1>2, <1>3 DEF WorkerStart, WorkerEnd, WorkerCrash, WorkerPoisoned, Gone,
       WorkerClose, WorkerQuit, WorkerReplyReconnects, TypeOK
  <2>2. wproc' = wproc
    BY <2>1 DEF WorkerBeat, WorkerReply
  <2>3. HasItem(w, t) \/ resp[t] > 0
    BY <1>1, <1>2, <1>3, <2>2 DEF StartedIsRunning
  <2>4. CASE WorkerBeat(w)
    BY <1>1, <1>3, <2>3, <2>4 DEF WorkerBeat, HasItem
  <2>5. CASE WorkerReply(w)
    <3>1. /\ inbox[w] \in Seq(Item) /\ inbox[w] # <<>>
          /\ inbox'[w] = Tail(inbox[w])
          /\ resp' = [resp EXCEPT ![Head(inbox[w]).id] =
                            IF Head(inbox[w]).live THEN @ + 1 ELSE @]
      BY <2>5 DEF WorkerReply, TypeOK
    <3>2. CASE Head(inbox[w]) = [id |-> t, live |-> TRUE]
      BY <3>1, <3>2 DEF TypeOK
    <3>3. CASE Head(inbox[w]) # [id |-> t, live |-> TRUE] /\ HasItem(w, t)
      <4>1. PICK i \in DOMAIN inbox[w] : inbox[w][i] = [id |-> t, live |-> TRUE]
        BY <3>3 DEF HasItem
      <4>2. \E j \in DOMAIN Tail(inbox[w]) : Tail(inbox[w])[j] = inbox[w][i]
        BY <3>1, <3>3, <4>1, TailKeeps
      <4>3. QED
        BY <1>1, <1>3, <3>1, <4>1, <4>2 DEF HasItem
    <3>4. CASE resp[t] > 0
      BY <3>1, <3>4 DEF TypeOK
    <3>5. QED
      BY <2>3, <3>2, <3>3, <3>4
  <2>6. QED
    BY <2>1, <2>4, <2>5
<1>4. CASE runsOn[t] # w
  <2>1. /\ inbox'[runsOn[t]] = inbox[runsOn[t]]
        /\ wproc'[runsOn[t]] = wproc[runsOn[t]]
    BY <1>2, <1>4 DEF WorkerStart, WorkerBeat, WorkerReply, WorkerReplyReconnects,
       WorkerQuit, WorkerClose, WorkerEnd, WorkerCrash, WorkerPoisoned, Gone, TypeOK
  <2>2. resp[t] > 0 => resp'[t] > 0
    <3>1. resp \in [Task -> Nat]
      BY DEF TypeOK
    <3>2. CASE WorkerReply(w)
      BY <3>1, <3>2 DEF WorkerReply
    <3>3. ASSUME NEW sent \in BOOLEAN, WorkerReplyReconnects(w, sent)
          PROVE  resp[t] > 0 => resp'[t] > 0
      BY <3>1, <3>3 DEF WorkerReplyReconnects
    <3>4. CASE resp' = resp
      BY <3>4
    <3>5. QED
      BY <3>2, <3>3, <3>4 DEF WorkerStart, WorkerBeat, WorkerQuit, WorkerClose,
         WorkerEnd, WorkerCrash, WorkerPoisoned, Gone
  <2>3. HasItem(runsOn[t], t) \/ resp[t] > 0
    BY <1>1, <1>2, <2>1 DEF StartedIsRunning
  <2>4. QED
    BY <1>1, <2>1, <2>2, <2>3 DEF HasItem
<1>5. QED
  BY <1>3, <1>4

\* A task that is started is never forgotten by everybody.
THEOREM StartedTasksRun == Spec => []StartedIsRunning
<1>1. Init => StartedIsRunning
  BY DEF Init, StartedIsRunning, Started
<1>2. TypeOK /\ Agreement /\ StartedIsRunning /\ [Next]_vars => StartedIsRunning'
  <2> SUFFICES ASSUME TypeOK, Agreement, StartedIsRunning, [Next]_vars
               PROVE  StartedIsRunning'
    OBVIOUS
  <2>1. CASE RegistryStep
    BY <2>1, RunningKept DEF RegistryStep, RegisterWorker, ExitWorker, IgnoreStale,
       ExpireWorkers, DropWorkers, brokerVars, taskVars, workerVars, envVars, TypeOK
  <2>2. CASE WorkStep
    BY <2>2, RunningKept DEF WorkStep, Deliver, AddTask, RejectWork, brokerVars,
       taskVars, envVars, TypeOK
  <2>3. CASE LoseWorkChannel
    BY <2>3, RunningKept DEF LoseWorkChannel, taskVars, InboxAfter
  <2>4. CASE Restart
    BY <2>4 DEF Restart, StartedIsRunning, Started
  <2>5. CASE UNCHANGED vars
    BY <2>5, RunningKept DEF vars, brokerVars, taskVars, envVars
  <2>6. QED
    BY <2>1, <2>2, <2>3, <2>4, <2>5, RunningReply, RunningChanged, RunningWorker
       DEF Next, ServiceStep
<1>3. QED
  BY <1>1, <1>2, TypeCorrect, AgreementInvariant, PTL DEF Spec
=============================================================================
