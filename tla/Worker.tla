------------------------------- MODULE Worker -------------------------------
(***************************************************************************)
(* The worker service (cmdworker) with a preload manager (pkg/tasks): for  *)
(* each message it makes sure that a long-lived process, which has loaded  *)
(* the model of the message's recognizer, is running, runs its command,    *)
(* and answers.                                                            *)
(*                                                                         *)
(* Four parties touch the same state: the goroutine that listens for work, *)
(* the goroutine main, which closes the preload manager when the service   *)
(* ends, one goroutine runCmd for each process that was started, and the   *)
(* reaper of zombies.  A runner has one wait group and one channel, made   *)
(* when the service starts and never made again.                           *)
(***************************************************************************)
EXTENDS Naturals, Integers, Sequences

CONSTANTS
    Msg,            \* messages of the worker's queue
    KeyOf,          \* the preload key of the recognizer of a message
    NoInfo,         \* messages whose recognizer cannot be loaded
    NoKey,          \* messages whose recognizer has no entry for the key
    NoCmd,          \* messages whose recognizer has no preload command
    Faults,         \* which kinds of fault happen
    MaxFaults,      \* bound: how many faults happen
    MaxRuns         \* bound: calls of Run in one life of the service

FaultKind == {"start", "exit", "stubborn", "stuck", "connection", "quit"}

\* An empty preload key: the task needs no process.
None == ""

ASSUME WorkerAssumption ==
    /\ NoInfo \subseteq Msg /\ NoKey \subseteq Msg /\ NoCmd \subseteq Msg
    /\ KeyOf \in [Msg -> STRING]
    /\ Faults \subseteq FaultKind
    /\ MaxFaults \in Nat /\ MaxRuns \in Nat

VARIABLES
    queue,          \* the broker: what became of each message
    redelivered,
    svc,            \* the service: it serves, main closes it, or it is gone
    pc, cur,        \* where listenQueue is, and its message (the last one if idle)
    why,            \* the error of the message, "" for none
    currentKey,     \* Manager.currentKey
    runs,           \* the calls of Run: its key, its goroutine, its process
    startWait,      \* Runner.startWait: the counter
    startErr,       \* Runner.startErr
    finished,       \* Runner.finishChan is closed
    closing,        \* who is in Runner.Close, and which signal was sent
    timedOut,       \* a Close gave up waiting
    command,        \* the command: none, running, a zombie, reaped
    answers,        \* the answers that were sent
    ran,            \* how the command of a message ended the last time
    orphans,        \* processes that outlived the service: how each came about
    faults          \* how many faults happened

runnerVars == <<runs, startWait, startErr, finished, closing, timedOut>>
worldVars == <<answers, ran, orphans>>
vars == <<queue, redelivered, svc, pc, cur, why, currentKey, runnerVars, command,
          worldVars, faults>>

PC == {"idle", "ended", "ensure", "close", "start", "wait", "check", "command", "reply"}
Error == {"", "info", "no key", "no cmd", "close", "start", "not running", "command"}
Signal == {"none", "term", "kill"}
Key == {KeyOf[m] : m \in Msg}
Run == [key : Key,
        late : BOOLEAN,             \* called after main was told to quit
        g : {"new", "started", "done"},
        proc : {"none", "up", "term", "kill", "gone", "reaped"}]

FreshRunner ==
    /\ runs' = <<>> /\ startWait' = 1 /\ startErr' = FALSE /\ finished' = FALSE
    /\ closing' = [by |-> "none", signal |-> "none"] /\ timedOut' = FALSE

Init ==
    /\ queue = [m \in Msg |-> "queued"]
    /\ redelivered = [m \in Msg |-> FALSE]
    /\ svc = "up" /\ pc = "idle" /\ cur \in Msg /\ why = "" /\ currentKey = None
    /\ runs = <<>> /\ startWait = 1 /\ startErr = FALSE /\ finished = FALSE
    /\ closing = [by |-> "none", signal |-> "none"] /\ timedOut = FALSE
    /\ command = "none"
    /\ answers = {} /\ ran = [m \in Msg |-> "no"] /\ orphans = {}
    /\ faults = 0

\* The worker is the one consumer of its queue.
Consumer == INSTANCE Consumer WITH
    Delivery <- Msg, Connection <- {"main"}, Nobody <- "none",
    dstate <- [m \in Msg |-> IF queue[m] = "held" THEN "unacked" ELSE queue[m]],
    holder <- [m \in Msg |-> IF queue[m] = "held" THEN "main" ELSE "none"],
    losses <- <<svc, faults>>

-----------------------------------------------------------------------------
Fault(kind) == /\ kind \in Faults /\ faults < MaxFaults /\ faults' = faults + 1

Alive == svc # "gone"
Last == Len(runs)                           \* r.cmd is that of the last Run
Living(r) == runs[r].proc \in {"up", "term", "kill"}

\* Runner.lock: Close keeps it while it waits for the process, Run until the
\* process was started.
LockFree == closing.by = "none" /\ pc # "wait"

\* `work' holds reapLock from its first line to its last.
InWorkUnlocked == FALSE                             \* mutant: work takes no lock
InWork == pc \notin {"idle", "ended", "reply"}

Fail(e) == pc' = "reply" /\ why' = e

(***************************************************************************)
(* The service is gone: a message that is not settled is queued again, and *)
(* processes that live on have nobody who knows them.  They are in process *)
(* groups of their own.                                                    *)
(***************************************************************************)
NotBack(m) == FALSE                                 \* mutant: auto-ack
Back(m) == queue[m] = "held"

Die(left) ==
    /\ svc' = "gone"
    /\ queue' = [m \in Msg |-> IF Back(m) THEN "queued" ELSE queue[m]]
    /\ redelivered' = [m \in Msg |-> redelivered[m] \/ Back(m)]
    /\ pc' = "idle" /\ why' = "" /\ command' = "none" /\ currentKey' = None
    /\ orphans' = orphans \cup left
    /\ FreshRunner
    /\ UNCHANGED <<cur, answers, ran>>

-----------------------------------------------------------------------------
(***************************************************************************)
(* Manager.EnsureRunning, called by work.                                  *)
(***************************************************************************)
\* Mutant of Take: the queue is consumed with auto-ack.
TakeAcked(m) ==
    /\ Alive /\ pc = "idle" /\ queue[m] = "queued"
    /\ queue' = [queue EXCEPT ![m] = "acked"]
    /\ cur' = m
    /\ CASE m \in NoInfo -> Fail("info")
         [] m \in NoKey \ NoInfo -> Fail("no key")
         [] m \notin NoKey \cup NoInfo -> pc' = "ensure" /\ why' = ""
    /\ UNCHANGED <<redelivered, svc, currentKey, runnerVars, command, worldVars, faults>>

Take(m) ==
    /\ Alive /\ pc = "idle" /\ queue[m] = "queued"
    /\ queue' = [queue EXCEPT ![m] = "held"]
    /\ cur' = m
    /\ CASE m \in NoInfo -> Fail("info")
         [] m \in NoKey \ NoInfo -> Fail("no key")
         [] m \notin NoKey \cup NoInfo -> pc' = "ensure" /\ why' = ""
    /\ UNCHANGED <<redelivered, svc, currentKey, runnerVars, command, worldVars, faults>>

\* Which way EnsureRunning goes.
NextOfAnyKey == CASE currentKey = None -> "close"   \* mutant: the keys are not compared
                  [] currentKey # None /\ finished -> "start"
                  [] currentKey # None /\ ~finished -> "command"
NextOf == CASE KeyOf[cur] = None \/ KeyOf[cur] # currentKey -> "close"
            [] KeyOf[cur] # None /\ KeyOf[cur] = currentKey /\ finished -> "start"
            [] KeyOf[cur] # None /\ KeyOf[cur] = currentKey /\ ~finished -> "command"

Ensure ==
    /\ Alive /\ pc = "ensure"
    /\ pc' = NextOf
    /\ UNCHANGED <<queue, redelivered, svc, cur, why, currentKey, runnerVars, command,
                   worldVars, faults>>

\* What follows Close in EnsureRunning.
Closed(ok) ==
    CASE KeyOf[cur] = None ->                       \* an error is only logged
            pc' = "command" /\ currentKey' = None /\ UNCHANGED why
      [] KeyOf[cur] # None /\ ok -> pc' = "start" /\ UNCHANGED <<why, currentKey>>
      [] KeyOf[cur] # None /\ ~ok -> Fail("close") /\ UNCHANGED currentKey

Start ==
    /\ Alive /\ pc = "start"
    /\ IF cur \in NoCmd
       THEN Fail("no cmd") /\ UNCHANGED runs
       ELSE /\ LockFree /\ Last < MaxRuns
            /\ runs' = Append(runs, [key |-> KeyOf[cur], late |-> svc # "up",
                                    g |-> "new", proc |-> "none"])
            /\ pc' = "wait" /\ UNCHANGED why
    /\ UNCHANGED <<queue, redelivered, svc, cur, currentKey, startWait, startErr,
                   finished, closing, timedOut, command, worldVars, faults>>

\* startWait.Wait() does not wait once the counter is zero: the second Run
\* returns the error of the first one, or none if its goroutine has reset it.
RunReturns ==
    /\ Alive /\ pc = "wait" /\ startWait = 0
    /\ \E err \in {startErr, startErr /\ runs[Last].g # "new"} :
       IF err THEN Fail("start") /\ UNCHANGED currentKey
                   ELSE pc' = "check" /\ currentKey' = KeyOf[cur] /\ UNCHANGED why
    /\ UNCHANGED <<queue, redelivered, svc, cur, runnerVars, command, worldVars, faults>>

CheckRunning ==
    /\ Alive /\ pc = "check"
    /\ IF finished THEN Fail("not running") ELSE pc' = "command" /\ UNCHANGED why
    /\ UNCHANGED <<queue, redelivered, svc, cur, currentKey, runnerVars, command,
                   worldVars, faults>>

-----------------------------------------------------------------------------
(***************************************************************************)
(* Runner.Close, by the listener or by main: SIGTERM and ten seconds, then *)
(* SIGKILL and ten seconds.                                                *)
(***************************************************************************)
Caller == {"listener", "main"}
May(a) == IF a = "main" THEN svc = "closing" ELSE Alive /\ pc = "close"

Return(a, ok) ==
    IF a = "listener" THEN Closed(ok) /\ UNCHANGED svc
                      ELSE svc' = "closed" /\ UNCHANGED <<pc, why, currentKey>>

NobodyLeft(a) == TRUE                               \* mutant: Close does nothing
NothingToClose(a) == Last = 0 \/ finished

CloseStart(a) ==
    /\ May(a) /\ LockFree
    /\ IF NothingToClose(a)
       THEN Return(a, TRUE) /\ UNCHANGED <<runs, closing>>
       ELSE /\ startWait = 0
            /\ closing' = [by |-> a, signal |-> "term"]
            /\ runs' = [runs EXCEPT ![Last].proc = IF @ = "up" THEN "term" ELSE @]
            /\ UNCHANGED <<svc, pc, why, currentKey>>
    /\ UNCHANGED <<queue, redelivered, cur, startWait, startErr, finished, timedOut,
                   command, worldVars, faults>>

CloseEnd(a) ==
    /\ closing.by = a /\ finished
    /\ closing' = [by |-> "none", signal |-> "none"]
    /\ Return(a, TRUE)
    /\ UNCHANGED <<queue, redelivered, cur, runs, startWait, startErr, finished, timedOut,
                   command, worldVars, faults>>

CloseTimeout(a) ==
    /\ closing.by = a /\ ~finished
    /\ IF closing.signal = "term"
       THEN /\ Fault("stubborn")
            /\ closing' = [closing EXCEPT !.signal = "kill"]
            /\ runs' = [runs EXCEPT ![Last].proc = IF @ = "term" THEN "kill" ELSE @]
            /\ UNCHANGED <<svc, pc, why, currentKey, timedOut>>
       ELSE /\ Fault("stuck")
            /\ closing' = [by |-> "none", signal |-> "none"]
            /\ timedOut' = TRUE
            /\ Return(a, FALSE) /\ UNCHANGED runs
    /\ UNCHANGED <<queue, redelivered, cur, startWait, startErr, finished, command,
                   worldVars>>

-----------------------------------------------------------------------------
(***************************************************************************)
(* The goroutine runCmd of each Run.  Done() on a counter of zero and      *)
(* close() of a closed channel panic, and the service is gone.             *)
(***************************************************************************)
Panics == startWait = 0

Spawned(r, ok) ==
    /\ Alive /\ runs[r].g = "new"
    /\ IF ok THEN UNCHANGED faults ELSE Fault("start")
    /\ IF Panics
       THEN Die({"panic" : x \in {y \in DOMAIN runs : Living(y) \/ (ok /\ y = r)}})
       ELSE /\ runs' = [runs EXCEPT ![r].g = IF ok THEN "started" ELSE "done",
                                    ![r].proc = IF ok THEN "up" ELSE @]
            /\ startErr' = ~ok /\ finished' = ~ok /\ startWait' = startWait - 1
            /\ UNCHANGED <<queue, redelivered, svc, pc, cur, why, currentKey, closing,
                           timedOut, command, worldVars>>

\* A process ends when it is told to, or by itself.
ProcessEnds(r) ==
    /\ Living(r)
    /\ IF runs[r].proc = "up" THEN Fault("exit") ELSE UNCHANGED faults
    /\ runs' = [runs EXCEPT ![r].proc = "gone"]
    /\ UNCHANGED <<queue, redelivered, svc, pc, cur, why, currentKey, startWait, startErr,
                   finished, closing, timedOut, command, worldVars>>

\* cmd.Wait() returns, also when the reaper was faster.
WaitReturns(r) ==
    /\ Alive /\ runs[r].g = "started" /\ runs[r].proc \in {"gone", "reaped"}
    /\ runs' = [runs EXCEPT ![r].g = "done"]
    /\ finished' = TRUE
    /\ UNCHANGED <<queue, redelivered, svc, pc, cur, why, currentKey, startWait, startErr,
                   closing, timedOut, command, worldVars, faults>>

-----------------------------------------------------------------------------
(***************************************************************************)
(* The command, the reaper and the answer.                                 *)
(***************************************************************************)
CommandStarts ==
    /\ Alive /\ pc = "command" /\ command = "none"
    /\ command' = "running"
    /\ UNCHANGED <<queue, redelivered, svc, pc, cur, why, currentKey, runnerVars,
                   worldVars, faults>>

CommandEnds(ok) ==
    /\ command = "running"
    /\ command' = "zombie"
    /\ ran' = [ran EXCEPT ![cur] = IF ok THEN "ok" ELSE "bad"]
    /\ UNCHANGED <<queue, redelivered, svc, pc, cur, why, currentKey, runnerVars,
                   answers, orphans, faults>>

\* ReapChildren waits for the children that ended, under the write lock.
Reap ==
    /\ Alive /\ ~InWork
    /\ command = "zombie" \/ \E r \in DOMAIN runs : runs[r].proc = "gone"
    /\ command' = IF command = "zombie" THEN "reaped" ELSE command
    /\ runs' = [r \in DOMAIN runs |-> [runs[r] EXCEPT !.proc =
                                            IF @ = "gone" THEN "reaped" ELSE @]]
    /\ UNCHANGED <<queue, redelivered, svc, pc, cur, why, currentKey, startWait, startErr,
                   finished, closing, timedOut, worldVars, faults>>

CommandReturns ==
    /\ Alive /\ command \in {"zombie", "reaped"}
    /\ command' = "none"
    /\ IF command = "zombie" /\ ran[cur] = "ok" THEN pc' = "reply" /\ UNCHANGED why
                                              ELSE Fail("command")
    /\ UNCHANGED <<queue, redelivered, svc, cur, currentKey, runnerVars, worldVars, faults>>

\* A publish that fails closes the connection and with it the queue, so the
\* listener ends and tells main to quit.
Reply ==
    /\ Alive /\ pc = "reply"
    /\ why' = ""
    /\ \/ /\ answers' = answers \cup {<<cur, why>>}
          /\ pc' = "idle"
          /\ queue' = [queue EXCEPT ![cur] = "acked"]
          /\ UNCHANGED <<redelivered, svc, faults>>
       \/ /\ Fault("connection")
          /\ pc' = "ended"
          /\ answers' \in {answers, answers \cup {<<cur, why>>}}
          /\ queue' = [queue EXCEPT ![cur] = "queued"]
          /\ redelivered' = [redelivered EXCEPT ![cur] = TRUE]
          /\ svc' = IF svc = "up" THEN "closing" ELSE svc
    /\ UNCHANGED <<cur, currentKey, runnerVars, command, ran, orphans>>

-----------------------------------------------------------------------------
(***************************************************************************)
(* main: it waits for a signal or for the end of the listener, closes the  *)
(* preload manager, and the process ends whatever the listener does.       *)
(***************************************************************************)
Quit ==
    /\ svc = "up" /\ Fault("quit")
    /\ svc' = "closing"
    /\ UNCHANGED <<queue, redelivered, pc, cur, why, currentKey, runnerVars, command,
                   worldVars>>

Exit ==
    /\ svc = "closed"
    /\ Die({IF timedOut THEN "timeout" ELSE IF runs[r].late THEN "late" ELSE "left" :
                r \in {x \in DOMAIN runs : Living(x)}})
    /\ UNCHANGED faults

Restart ==
    /\ svc = "gone"
    /\ svc' = "up"
    /\ UNCHANGED <<queue, redelivered, pc, cur, why, currentKey, runnerVars, command,
                   worldVars, faults>>

-----------------------------------------------------------------------------
Listen ==
    \/ \E m \in Msg : Take(m)
    \/ Ensure \/ Start \/ RunReturns \/ CheckRunning
    \/ CommandStarts \/ CommandReturns \/ Reply

Closing == \E a \in Caller : CloseStart(a) \/ CloseEnd(a) \/ CloseTimeout(a)

Process ==
    \/ \E r \in DOMAIN runs : \/ \E ok \in BOOLEAN : Spawned(r, ok)
                              \/ ProcessEnds(r) \/ WaitReturns(r)
    \/ \E ok \in BOOLEAN : CommandEnds(ok)
    \/ Reap

Next == Listen \/ Closing \/ Process \/ Quit \/ Exit \/ Restart

Spec == Init /\ [][Next]_vars

(***************************************************************************)
(* Fairness: goroutines run, signals reach the processes, commands end, a  *)
(* timer of Close that runs out is no fault when the process cannot go,    *)
(* and the service is started again.                                       *)
(***************************************************************************)
Fairness ==
    /\ WF_vars(Listen /\ UNCHANGED faults)
    /\ \A a \in Caller : WF_vars(CloseStart(a) \/ CloseEnd(a))
    /\ WF_vars(\E r \in DOMAIN runs : Spawned(r, TRUE))
    /\ WF_vars(\E r \in DOMAIN runs : ProcessEnds(r) /\ UNCHANGED faults)
    /\ WF_vars(\E r \in DOMAIN runs : WaitReturns(r))
    /\ WF_vars(\E ok \in BOOLEAN : CommandEnds(ok))
    /\ WF_vars(Exit) /\ WF_vars(Restart)

FairSpec == Spec /\ Fairness

-----------------------------------------------------------------------------
(***************************************************************************)
(* Properties.                                                             *)
(***************************************************************************)
\* The variables have their types.
TypeOK ==
    /\ queue \in [Msg -> {"queued", "held", "acked"}]
    /\ redelivered \in [Msg -> BOOLEAN]
    /\ svc \in {"up", "closing", "closed", "gone"}
    /\ pc \in PC /\ cur \in Msg /\ why \in Error
    /\ currentKey \in Key \cup {None}
    /\ runs \in Seq(Run) /\ Last <= MaxRuns
    /\ startWait \in {0, 1} /\ startErr \in BOOLEAN /\ finished \in BOOLEAN
    /\ closing \in [by : Caller \cup {"none"}, signal : Signal] /\ timedOut \in BOOLEAN
    /\ command \in {"none", "running", "zombie", "reaped"}
    /\ answers \subseteq Msg \X Error
    /\ ran \in [Msg -> {"no", "ok", "bad"}]
    /\ orphans \subseteq {"panic", "timeout", "late", "left"}
    /\ faults \in 0 .. MaxFaults

\* A command runs beside the process that has loaded its own model and no
\* other: the process of its key was started by this service and was seen
\* running, and none of another key lives, unless it withstood SIGKILL
\* (EnsureRunning closes before it starts).
CommandHasItsModel ==
    pc = "command" =>
        /\ KeyOf[cur] # None => /\ Last # 0 /\ runs[Last].key = KeyOf[cur]
                                /\ runs[Last].proc # "none"
        /\ \A r \in DOMAIN runs : Living(r) => runs[r].key = KeyOf[cur] \/ timedOut

\* The answer tells how the command ended: the reaper never takes the status
\* of a command that `work' waits for (reapLock).
StatusIsNotStolen ==
    pc = "reply" /\ why = "command" => ran[cur] = "bad"

\* A service that was told to quit leaves no process behind that it had started
\* before, whatever the listener does while main closes it.  The exceptions are
\* processes that withstood SIGKILL, and the one whose start makes the service
\* panic.
NothingLeftRunning == "left" \notin orphans

\* The worker keeps the discipline of a queue consumer through panics, restarts
\* and lost connections: a message is settled once, while the worker holds it, and
\* all that it holds is back in the queue when it dies (listenQueue).
ConsumerSpec == Consumer!Spec

\* The panic of a second Run is survived: every message is answered in the
\* end, since it comes again to a service with a new runner.
EveryMessageAnswered ==
    \A m \in Msg : <>(queue[m] = "acked" /\ \E e \in Error : <<m, e>> \in answers)

\* "EnsureRunning loads data by key and ensure it is running": it only says
\* that the process is not running when the process it started has ended.
NotRunningIsTrue ==
    why = "not running" => runs[Last].g = "done"
=============================================================================
