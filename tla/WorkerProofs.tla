---------------------------- MODULE WorkerProofs ----------------------------
(***************************************************************************)
(* Theorems about the worker service, for any messages, keys, bounds and   *)
(* faults.  All of them rest on TypeOK.  StatusIsNotStolen follows from    *)
(* the lock of the reaper alone; CommandHasItsModel and NothingLeftRunning *)
(* from what a runner that is never made again can look like; that the     *)
(* worker is a Consumer of its queue from the one message it holds.        *)
(***************************************************************************)
EXTENDS Worker, SequenceTheorems, TLAPS

(***************************************************************************)
(* The calls of Run.                                                       *)
(***************************************************************************)
\* What a change of one call leaves of the others.
LEMMA ChangedRun ==
    ASSUME runs \in Seq(Run), NEW r \in DOMAIN runs, NEW new \in Run,
           runs' = [runs EXCEPT ![r] = new]
    PROVE  /\ runs' \in Seq(Run) /\ Len(runs') = Len(runs)
           /\ DOMAIN runs' = DOMAIN runs
           /\ runs'[r] = new
           /\ \A x \in DOMAIN runs \ {r} : runs'[x] = runs[x]
<1>1. DOMAIN runs = 1 .. Len(runs)
  OBVIOUS
<1>2. QED
  BY <1>1, ExceptSeq

LEMMA ProcOfRun ==
    ASSUME runs \in Seq(Run), NEW r \in DOMAIN runs,
           NEW p \in {"none", "up", "term", "kill", "gone", "reaped"}
    PROVE  /\ [runs[r] EXCEPT !.proc = p] \in Run
           /\ [runs[r] EXCEPT !.proc = p].key = runs[r].key
           /\ [runs[r] EXCEPT !.proc = p].late = runs[r].late
           /\ [runs[r] EXCEPT !.proc = p].g = runs[r].g
           /\ [runs[r] EXCEPT !.proc = p].proc = p
<1>1. runs[r] \in Run
  OBVIOUS
<1>2. QED
  BY <1>1 DEF Run

\* The reaper takes processes that are gone, and nothing else.
Reaped(run) == [run EXCEPT !.proc = IF @ = "gone" THEN "reaped" ELSE @]

LEMMA ReapedRuns ==
    ASSUME runs \in Seq(Run), runs' = [r \in DOMAIN runs |-> Reaped(runs[r])]
    PROVE  /\ runs' \in Seq(Run) /\ Len(runs') = Len(runs)
           /\ DOMAIN runs' = DOMAIN runs
           /\ \A r \in DOMAIN runs :
                /\ runs'[r].key = runs[r].key /\ runs'[r].late = runs[r].late
                /\ runs'[r].g = runs[r].g
                /\ (runs'[r].proc = "none") = (runs[r].proc = "none")
                /\ (runs'[r].proc \in {"up", "term", "kill"})
                        = (runs[r].proc \in {"up", "term", "kill"})
<1>1. \A r \in DOMAIN runs : runs[r] \in Run
  OBVIOUS
<1>2. \A r \in DOMAIN runs : Reaped(runs[r]) \in Run
  BY <1>1 DEF Run, Reaped
<1>3. DOMAIN runs = 1 .. Len(runs) /\ Len(runs) \in Nat
  OBVIOUS
<1>4. DOMAIN runs' = 1 .. Len(runs)
  BY <1>3
<1>5. runs' \in [1 .. Len(runs) -> Run]
  BY <1>2, <1>3
<1>6. runs' \in Seq(Run) /\ Len(runs') = Len(runs)
  BY <1>3, <1>5, SeqDef, LenProperties
<1>7. \A r \in DOMAIN runs : runs'[r] = Reaped(runs[r])
  OBVIOUS
<1>8. QED
  BY <1>1, <1>3, <1>4, <1>6, <1>7 DEF Run, Reaped

-----------------------------------------------------------------------------
(***************************************************************************)
(* The type invariant.                                                     *)
(***************************************************************************)
\* The types of everything but the calls of Run, which most steps leave alone.
RestOK ==
    /\ queue \in [Msg -> {"queued", "held", "acked"}]
    /\ redelivered \in [Msg -> BOOLEAN]
    /\ svc \in {"up", "closing", "closed", "gone"}
    /\ pc \in PC /\ cur \in Msg /\ why \in Error
    /\ currentKey \in Key \cup {None}
    /\ startWait \in {0, 1} /\ startErr \in BOOLEAN /\ finished \in BOOLEAN
    /\ closing \in [by : Caller \cup {"none"}, signal : Signal] /\ timedOut \in BOOLEAN
    /\ command \in {"none", "running", "zombie", "reaped"}
    /\ answers \subseteq Msg \X Error
    /\ ran \in [Msg -> {"no", "ok", "bad"}]
    /\ orphans \subseteq {"panic", "timeout", "late", "left"}
    /\ faults \in 0 .. MaxFaults

RunsOK == runs \in Seq(Run) /\ Len(runs) <= MaxRuns

LEMMA TypeParts == TypeOK <=> RestOK /\ RunsOK
  BY DEF TypeOK, RestOK, RunsOK, Last

LEMMA FaultTyped ==
    ASSUME RestOK, NEW kind, Fault(kind)
    PROVE  faults' \in 0 .. MaxFaults
  BY WorkerAssumption DEF RestOK, Fault

\* A service that is gone leaves its variables as a new one finds them.
LEMMA DieTyped ==
    ASSUME TypeOK, NEW left, left \subseteq {"panic", "timeout", "late", "left"},
           Die(left), faults' \in 0 .. MaxFaults
    PROVE  TypeOK'
<1>1. runs' \in Seq(Run) /\ Len(runs') <= MaxRuns
  <2>1. runs' = <<>>
    BY DEF Die, FreshRunner
  <2>2. <<>> \in Seq(Run) /\ Len(<<>>) = 0
    BY EmptySeq
  <2>3. QED
    BY <2>1, <2>2, WorkerAssumption
<1>2. queue' \in [Msg -> {"queued", "held", "acked"}] /\ redelivered' \in [Msg -> BOOLEAN]
  BY DEF TypeOK, Die, Back
<1>3. closing' \in [by : Caller \cup {"none"}, signal : Signal]
  BY DEF Die, FreshRunner, Signal
<1>4. QED
  BY <1>1, <1>2, <1>3 DEF TypeOK, Die, FreshRunner, PC, Error, Last

\* What returns from Close goes on in EnsureRunning or in main.
LEMMA ReturnTyped ==
    ASSUME RestOK, NEW a \in Caller, NEW ok \in BOOLEAN, Return(a, ok)
    PROVE  /\ svc' \in {"up", "closing", "closed", "gone"} /\ pc' \in PC /\ why' \in Error
           /\ currentKey' \in Key \cup {None}
  BY DEF RestOK, Return, Closed, Fail, PC, Error, Caller

\* The signal of Close goes to the process of the last call.
LEMMA SignalTyped ==
    ASSUME RunsOK, NEW p \in {"up", "term"}, NEW q \in {"term", "kill"},
           runs' = [runs EXCEPT ![Last].proc = IF @ = p THEN q ELSE @]
    PROVE  RunsOK'
<1>1. CASE Last = 0
  <2>1. runs' = runs
    BY <1>1, EmptySeq DEF RunsOK, Last
  <2>2. QED
    BY <2>1 DEF RunsOK
<1>2. CASE Last # 0
  <2>1. Last \in DOMAIN runs
    BY <1>2, LenProperties DEF RunsOK, Last
  <2>2. runs[Last] \in Run
    BY <2>1, LenProperties, ElementOfSeq DEF RunsOK
  <2>3. [runs[Last] EXCEPT !.proc = IF runs[Last].proc = p THEN q ELSE runs[Last].proc] \in Run
    BY <2>1, <2>2, ProcOfRun DEF RunsOK, Run
  <2>4. QED
    BY <2>1, <2>3, ChangedRun DEF RunsOK
<1>3. QED
  BY <1>1, <1>2

\* Every step keeps the types: Listen, Closing, Process, Quit, Exit, Restart.
LEMMA ListenTyped == ASSUME TypeOK, Listen PROVE TypeOK'
<1> USE DEF worldVars, runnerVars
<1>0. RestOK /\ RunsOK /\ (RestOK' /\ RunsOK' => TypeOK')
  BY TypeParts DEF TypeOK, RestOK, RunsOK, Last
<1>1. ASSUME NEW m \in Msg, Take(m) PROVE TypeOK'
  BY <1>1 DEF TypeOK, Last, Take, Fail, PC, Error
<1>2. ASSUME Ensure PROVE TypeOK'
  BY <1>2 DEF TypeOK, Last, Ensure, NextOf, PC
<1>3. ASSUME Start PROVE TypeOK'
  <2>1. CASE cur \in NoCmd
    BY <1>3, <2>1 DEF TypeOK, Last, Start, Fail, PC, Error
  <2>2. CASE cur \notin NoCmd
    <3>1. [key |-> KeyOf[cur], late |-> svc # "up", g |-> "new", proc |-> "none"] \in Run
      BY DEF TypeOK, Run, Key
    <3>2. runs' = Append(runs, [key |-> KeyOf[cur], late |-> svc # "up",
                                g |-> "new", proc |-> "none"])
          /\ Len(runs) < MaxRuns
      BY <1>3, <2>2 DEF Start, Last
    <3>3. runs' \in Seq(Run) /\ Len(runs') = Len(runs) + 1
      BY <1>0, <3>1, <3>2, AppendProperties DEF RunsOK
    <3>4. RunsOK'
      BY <1>0, <3>2, <3>3, LenProperties, WorkerAssumption DEF RunsOK
    <3>5. RestOK'
      BY <1>0, <1>3, <2>2 DEF RestOK, Start, PC
    <3>6. QED
      BY <1>0, <3>4, <3>5
  <2>3. QED
    BY <2>1, <2>2
<1>4. ASSUME RunReturns PROVE TypeOK'
  <2>1. KeyOf[cur] \in Key
    BY <1>0 DEF RestOK, Key
  <2>2. pc' \in PC /\ why' \in Error /\ currentKey' \in Key \cup {None}
    BY <1>0, <1>4, <2>1 DEF RestOK, RunReturns, Fail, PC, Error
  <2>3. QED
    BY <1>0, <1>4, <2>2 DEF RestOK, RunsOK, RunReturns
<1>5. ASSUME CheckRunning PROVE TypeOK'
  <2>1. pc' \in PC /\ why' \in Error
    BY <1>0, <1>5 DEF RestOK, CheckRunning, Fail, PC, Error
  <2>2. QED
    BY <1>0, <1>5, <2>1 DEF RestOK, RunsOK, CheckRunning
<1>6. ASSUME CommandStarts PROVE TypeOK'
  BY <1>6 DEF TypeOK, Last, CommandStarts
<1>7. ASSUME CommandReturns PROVE TypeOK'
  <2>1. pc' \in PC /\ why' \in Error
    BY <1>0, <1>7 DEF RestOK, CommandReturns, Fail, PC, Error
  <2>2. QED
    BY <1>0, <1>7, <2>1 DEF RestOK, RunsOK, CommandReturns
<1>8. ASSUME Reply PROVE TypeOK'
  <2>1. faults' \in 0 .. MaxFaults
    BY <1>0, <1>8, FaultTyped DEF Reply, RestOK
  <2>2. <<cur, why>> \in Msg \X Error
    BY <1>0 DEF RestOK
  <2>3. /\ answers' \subseteq Msg \X Error
        /\ queue' \in [Msg -> {"queued", "held", "acked"}]
        /\ redelivered' \in [Msg -> BOOLEAN]
    BY <1>0, <1>8, <2>2 DEF RestOK, Reply
  <2>4. pc' \in PC /\ why' \in Error /\ svc' \in {"up", "closing", "closed", "gone"}
    BY <1>0, <1>8 DEF RestOK, Reply, PC, Error
  <2>5. QED
    BY <1>0, <1>8, <2>1, <2>3, <2>4 DEF RestOK, RunsOK, Reply
<1>9. QED
  BY <1>1, <1>2, <1>3, <1>4, <1>5, <1>6, <1>7, <1>8 DEF Listen

LEMMA ClosingTyped == ASSUME TypeOK, Closing PROVE TypeOK'
<1> USE DEF worldVars, runnerVars
<1>1. ASSUME NEW a \in Caller, CloseStart(a) PROVE TypeOK'
  <2>1. CASE NothingToClose(a)
    <3>1. Return(a, TRUE) /\ UNCHANGED <<runs, closing>>
      BY <1>1, <2>1 DEF CloseStart
    <3>2. QED
      BY <1>1, <3>1, ReturnTyped, TypeParts DEF CloseStart, TypeOK, Last, RestOK
  <2>2. CASE ~NothingToClose(a)
    <3>1. RunsOK'
      BY <1>1, <2>2, SignalTyped, TypeParts DEF CloseStart
    <3>2. RestOK'
      BY <1>1, <2>2, TypeParts DEF CloseStart, RestOK, Signal, Caller
    <3>3. QED
      BY <3>1, <3>2, TypeParts DEF TypeOK, RestOK, RunsOK, Last
  <2>3. QED
    BY <2>1, <2>2
<1>2. ASSUME NEW a \in Caller, CloseEnd(a) PROVE TypeOK'
  <2>1. closing' \in [by : Caller \cup {"none"}, signal : Signal]
    BY <1>2 DEF CloseEnd, Signal
  <2>2. QED
    BY <1>2, <2>1, ReturnTyped, TypeParts DEF CloseEnd, TypeOK, Last, RestOK
<1>3. ASSUME NEW a \in Caller, CloseTimeout(a) PROVE TypeOK'
  <2>1. CASE closing.signal = "term"
    <3>1. RunsOK'
      BY <1>3, <2>1, SignalTyped, TypeParts DEF CloseTimeout
    <3>2. faults' \in 0 .. MaxFaults
      BY <1>3, <2>1, FaultTyped, TypeParts DEF CloseTimeout
    <3>3. closing' \in [by : Caller \cup {"none"}, signal : Signal]
      BY <1>3, <2>1 DEF CloseTimeout, TypeOK, Signal
    <3>4. RestOK'
      BY <1>3, <2>1, <3>2, <3>3, TypeParts DEF CloseTimeout, RestOK
    <3>5. QED
      BY <3>1, <3>4 DEF TypeOK, RestOK, RunsOK, Last
  <2>2. CASE closing.signal # "term"
    <3>1. faults' \in 0 .. MaxFaults
      BY <1>3, <2>2, FaultTyped, TypeParts DEF CloseTimeout
    <3>2. closing' \in [by : Caller \cup {"none"}, signal : Signal]
      BY <1>3, <2>2 DEF CloseTimeout, Signal
    <3>3. Return(a, FALSE) /\ UNCHANGED runs /\ timedOut' = TRUE
      BY <1>3, <2>2 DEF CloseTimeout
    <3>4. QED
      BY <1>3, <3>1, <3>2, <3>3, ReturnTyped, TypeParts DEF CloseTimeout, TypeOK, Last, RestOK
  <2>3. QED
    BY <2>1, <2>2
<1>4. QED
  BY <1>1, <1>2, <1>3 DEF Closing

LEMMA ProcessTyped == ASSUME TypeOK, Process PROVE TypeOK'
<1> USE DEF worldVars, runnerVars
<1>0. RestOK /\ RunsOK /\ (RestOK' /\ RunsOK' => TypeOK')
  BY TypeParts DEF TypeOK, RestOK, RunsOK, Last
<1>1. ASSUME NEW r \in DOMAIN runs, NEW ok \in BOOLEAN, Spawned(r, ok) PROVE TypeOK'
  <2>1. faults' \in 0 .. MaxFaults
    BY <1>0, <1>1, FaultTyped DEF Spawned, RestOK
  <2>2. CASE Panics
    <3>1. Die({"panic" : x \in {y \in DOMAIN runs : Living(y) \/ (ok /\ y = r)}})
      BY <1>1, <2>2 DEF Spawned
    <3>2. QED
      BY <2>1, <3>1, DieTyped
  <2>3. CASE ~Panics
    <3> DEFINE new == [runs[r] EXCEPT !.g = IF ok THEN "started" ELSE "done",
                                      !.proc = IF ok THEN "up" ELSE @]
    <3>1. runs[r] \in Run
      BY <1>0 DEF RunsOK
    <3>2. new \in Run
      BY <3>1 DEF Run
    <3>3. runs' = [runs EXCEPT ![r] = new]
      BY <1>0, <1>1, <2>3, <3>1 DEF Spawned, Run, RunsOK
    <3>4. RunsOK'
      BY <1>0, <3>2, <3>3, ChangedRun DEF RunsOK
    <3>5. RestOK'
      BY <1>0, <1>1, <2>1, <2>3 DEF RestOK, Spawned, Panics
    <3>6. QED
      BY <1>0, <3>4, <3>5
  <2>4. QED
    BY <2>2, <2>3
<1>2. ASSUME NEW r \in DOMAIN runs, ProcessEnds(r) PROVE TypeOK'
  <2>1. faults' \in 0 .. MaxFaults
    BY <1>0, <1>2, FaultTyped DEF ProcessEnds, RestOK
  <2>2. [runs[r] EXCEPT !.proc = "gone"] \in Run
    BY <1>0, ProcOfRun DEF RunsOK
  <2>3. runs' = [runs EXCEPT ![r] = [runs[r] EXCEPT !.proc = "gone"]]
    BY <1>2 DEF ProcessEnds
  <2>4. RunsOK'
    BY <1>0, <2>2, <2>3, ChangedRun DEF RunsOK
  <2>5. QED
    BY <1>0, <1>2, <2>1, <2>4 DEF RestOK, ProcessEnds
<1>3. ASSUME NEW r \in DOMAIN runs, WaitReturns(r) PROVE TypeOK'
  <2>0. runs[r] \in Run
    BY <1>0 DEF RunsOK
  <2>1. [runs[r] EXCEPT !.g = "done"] \in Run
    BY <2>0 DEF Run
  <2>2. runs' = [runs EXCEPT ![r] = [runs[r] EXCEPT !.g = "done"]]
    BY <1>3 DEF WaitReturns
  <2>3. RunsOK'
    BY <1>0, <2>1, <2>2, ChangedRun DEF RunsOK
  <2>4. QED
    BY <1>0, <1>3, <2>3 DEF RestOK, WaitReturns
<1>4. ASSUME NEW ok \in BOOLEAN, CommandEnds(ok) PROVE TypeOK'
  BY <1>0, <1>4 DEF RestOK, RunsOK, CommandEnds
<1>5. ASSUME Reap PROVE TypeOK'
  <2>1. RunsOK'
    BY <1>0, <1>5, ReapedRuns DEF RunsOK, Reap, Reaped
  <2>2. QED
    BY <1>0, <1>5, <2>1 DEF RestOK, Reap
<1>6. QED
  BY <1>1, <1>2, <1>3, <1>4, <1>5 DEF Process

LEMMA MainTyped == ASSUME TypeOK, Quit \/ Exit \/ Restart PROVE TypeOK'
<1> USE DEF worldVars, runnerVars
<1>0. RestOK /\ RunsOK /\ (RestOK' /\ RunsOK' => TypeOK')
  BY TypeParts DEF TypeOK, RestOK, RunsOK, Last
<1>1. CASE Quit
  <2>1. faults' \in 0 .. MaxFaults
    BY <1>0, <1>1, FaultTyped DEF Quit, RestOK
  <2>2. QED
    BY <1>0, <1>1, <2>1 DEF RestOK, RunsOK, Quit
<1>2. CASE Exit
  <2>1. PICK left : left \subseteq {"panic", "timeout", "late", "left"} /\ Die(left)
    BY <1>2 DEF Exit
  <2>2. QED
    BY <1>0, <1>2, <2>1, DieTyped DEF Exit, RestOK
<1>3. CASE Restart
  BY <1>0, <1>3 DEF RestOK, RunsOK, Restart
<1>4. QED
  BY <1>1, <1>2, <1>3

\* The variables of the worker have their types, for any messages, keys, bounds
\* and faults.
THEOREM TypeCorrect == Spec => []TypeOK
<1>1. Init => TypeOK
  <2>1. <<>> \in Seq(Run) /\ Len(<<>>) = 0
    BY EmptySeq
  <2>2. ASSUME Init PROVE RestOK
    <3>1. closing \in [by : Caller \cup {"none"}, signal : Signal]
      BY <2>2 DEF Init, Signal
    <3>2. faults \in 0 .. MaxFaults
      <4>1. faults = 0
        BY <2>2 DEF Init
      <4>2. QED
        BY <4>1, WorkerAssumption
    <3>3. /\ queue \in [Msg -> {"queued", "held", "acked"}]
          /\ redelivered \in [Msg -> BOOLEAN] /\ ran \in [Msg -> {"no", "ok", "bad"}]
      BY <2>2 DEF Init
    <3>4. QED
      BY <2>2, <3>1, <3>2, <3>3 DEF Init, RestOK, PC, Error
  <2>3. ASSUME Init PROVE RunsOK
    <3>1. runs = <<>>
      BY <2>3 DEF Init
    <3>2. QED
      BY <2>1, <3>1, WorkerAssumption DEF RunsOK
  <2>4. QED
    BY <2>2, <2>3, TypeParts
<1>2. TypeOK /\ [Next]_vars => TypeOK'
  <2>1. ASSUME TypeOK, Next PROVE TypeOK'
    BY <2>1, ListenTyped, ClosingTyped, ProcessTyped, MainTyped DEF Next
  <2>2. ASSUME TypeOK, UNCHANGED vars PROVE TypeOK'
    BY <2>2 DEF TypeOK, Last, vars, runnerVars, worldVars
  <2>3. QED
    BY <2>1, <2>2
<1>3. QED
  BY <1>1, <1>2, PTL DEF Spec

-----------------------------------------------------------------------------
(***************************************************************************)
(* The status of the command.  While it runs, the listener is in `work',   *)
(* which holds the lock of the reaper.                                     *)
(***************************************************************************)
StatusInv ==
    /\ command # "none" => pc = "command"
    /\ command # "reaped"
    /\ closing.by = "listener" => pc = "close"
    /\ command = "zombie" => ran[cur] \in {"ok", "bad"}
    /\ why = "command" => pc = "reply" /\ ran[cur] = "bad"

LEMMA StatusStep == ASSUME TypeOK, StatusInv, Next PROVE StatusInv'
<1> USE DEF worldVars, runnerVars
<1>0. ASSUME NEW left, Die(left) PROVE StatusInv'
  <2>1. closing'.by = "none"
    BY <1>0 DEF Die, FreshRunner
  <2>2. QED
    BY <1>0, <2>1 DEF Die, StatusInv
<1>1. CASE Listen
  <2>1. ASSUME NEW m \in Msg, Take(m) PROVE StatusInv'
    BY <2>1 DEF Take, Fail, StatusInv
  <2>2. CASE Ensure
    BY <2>2 DEF Ensure, NextOf, StatusInv
  <2>3. CASE Start
    BY <2>3 DEF Start, Fail, StatusInv
  <2>4. CASE RunReturns
    BY <2>4 DEF RunReturns, Fail, StatusInv
  <2>5. CASE CheckRunning
    BY <2>5 DEF CheckRunning, Fail, StatusInv
  <2>6. CASE CommandStarts
    BY <2>6 DEF CommandStarts, StatusInv
  <2>7. CASE CommandReturns
    BY <2>7 DEF CommandReturns, Fail, StatusInv
  <2>8. CASE Reply
    BY <2>8 DEF Reply, StatusInv
  <2>9. QED
    BY <1>1, <2>1, <2>2, <2>3, <2>4, <2>5, <2>6, <2>7, <2>8 DEF Listen
<1>2. CASE Closing
  <2>1. ASSUME NEW a \in Caller, CloseStart(a) PROVE StatusInv'
    <3>1. CASE NothingToClose(a)
      <4>1. May(a) /\ Return(a, TRUE) /\ closing.by = "none" /\ UNCHANGED <<closing, command, ran, cur>>
        BY <2>1, <3>1 DEF CloseStart, LockFree
      <4>2. QED
        BY <4>1 DEF May, Return, Closed, Fail, StatusInv
    <3>2. CASE ~NothingToClose(a)
      <4>1. May(a) /\ closing'.by = a /\ UNCHANGED <<pc, why, command, ran, cur>>
        BY <2>1, <3>2 DEF CloseStart
      <4>2. QED
        BY <4>1 DEF May, StatusInv
    <3>3. QED
      BY <3>1, <3>2
  <2>2. ASSUME NEW a \in Caller, CloseEnd(a) PROVE StatusInv'
    BY <2>2 DEF CloseEnd, Return, Closed, Fail, Caller, StatusInv
  <2>3. ASSUME NEW a \in Caller, CloseTimeout(a) PROVE StatusInv'
    <3>1. CASE closing.signal = "term"
      <4>1. closing'.by = closing.by /\ UNCHANGED <<pc, why, command, ran, cur>>
        BY <2>3, <3>1 DEF CloseTimeout, TypeOK
      <4>2. QED
        BY <4>1 DEF StatusInv
    <3>2. CASE closing.signal # "term"
      <4>1. /\ closing.by = a /\ closing' = [by |-> "none", signal |-> "none"]
            /\ Return(a, FALSE)
        BY <2>3, <3>2 DEF CloseTimeout
      <4>2. UNCHANGED <<command, ran, cur>>
        BY <2>3, <3>2 DEF CloseTimeout
      <4>3. closing'.by = "none"
        BY <4>1
      <4>4. QED
        BY <4>1, <4>2, <4>3 DEF Return, Closed, Fail, Caller, StatusInv
    <3>3. QED
      BY <3>1, <3>2
  <2>4. QED
    BY <1>2, <2>1, <2>2, <2>3 DEF Closing
<1>3. CASE Process
  <2>1. ASSUME NEW r \in DOMAIN runs, NEW ok \in BOOLEAN, Spawned(r, ok) PROVE StatusInv'
    BY <1>0, <2>1 DEF Spawned, StatusInv
  <2>2. ASSUME NEW r \in DOMAIN runs, ProcessEnds(r) \/ WaitReturns(r) PROVE StatusInv'
    BY <2>2 DEF ProcessEnds, WaitReturns, StatusInv
  <2>3. ASSUME NEW ok \in BOOLEAN, CommandEnds(ok) PROVE StatusInv'
    BY <2>3 DEF CommandEnds, StatusInv, TypeOK
  <2>4. CASE Reap
    BY <2>4 DEF Reap, InWork, StatusInv
  <2>5. QED
    BY <1>3, <2>1, <2>2, <2>3, <2>4 DEF Process
<1>4. CASE Exit
  BY <1>0, <1>4 DEF Exit
<1>5. CASE Quit \/ Restart
  BY <1>5 DEF Quit, Restart, StatusInv
<1>6. QED
  BY <1>1, <1>2, <1>3, <1>4, <1>5 DEF Next

\* What the listener and the reaper know of the command, always.
LEMMA StatusInvAlways == Spec => []StatusInv
<1>1. Init => StatusInv
  <2>1. Init => command = "none" /\ why = "" /\ closing = [by |-> "none", signal |-> "none"]
    BY DEF Init
  <2>2. [by |-> "none", signal |-> "none"].by = "none"
    OBVIOUS
  <2>3. QED
    BY <2>1, <2>2 DEF StatusInv
<1>2. TypeOK /\ StatusInv /\ [Next]_vars => StatusInv'
  <2>1. ASSUME StatusInv, UNCHANGED vars PROVE StatusInv'
    <3>1. UNCHANGED <<command, pc, closing, ran, cur, why>>
      BY <2>1 DEF vars, runnerVars, worldVars
    <3>2. QED
      BY <2>1, <3>1 DEF StatusInv
  <2>2. QED
    BY <2>1, StatusStep
<1>3. QED
  BY <1>1, <1>2, TypeCorrect, PTL DEF Spec

\* The answer tells how the command ended: the reaper, which runs beside
\* everything, never takes the status that `work' waits for.
THEOREM StatusIsTrue == Spec => []StatusIsNotStolen
<1>1. StatusInv => StatusIsNotStolen
  BY DEF StatusInv, StatusIsNotStolen
<1>2. QED
  BY <1>1, StatusInvAlways, PTL

-----------------------------------------------------------------------------
(***************************************************************************)
(* The runner.  Its counter is one until the goroutine of the first call   *)
(* has tried to start the process; then no other goroutine gets past       *)
(* Done(), so the process of the first call is the only one there ever is. *)
(***************************************************************************)
Unborn(r) == runs[r].g = "new" /\ runs[r].proc = "none"

RunnerOK ==
    /\ startWait = 1 => ~finished /\ Last <= 1 /\ \A r \in DOMAIN runs : Unborn(r)
    /\ startWait = 0 => /\ Last >= 1 /\ runs[1].g # "new"
                        /\ \A r \in DOMAIN runs \ {1} : Unborn(r)
    /\ startWait = 0 /\ ~finished =>
            Last = 1 /\ runs[1].g = "started" /\ runs[1].proc # "none"
    /\ finished => startWait = 0 /\ runs[1].g = "done" /\ ~Living(1)

\* What the listener knows of the runner, where it is.
ListenerOK ==
    /\ currentKey # None => startWait = 0 /\ (~finished => runs[1].key = currentKey)
    /\ pc = "start" => KeyOf[cur] # None /\ (Last = 0 \/ finished)
    /\ pc \in {"wait", "check"} =>
            KeyOf[cur] # None /\ Last >= 1 /\ runs[Last].key = KeyOf[cur]
    /\ pc = "check" => startWait = 0
    /\ pc = "command" /\ KeyOf[cur] = None => Last = 0 \/ finished \/ timedOut
    /\ pc = "command" /\ KeyOf[cur] # None =>
            Last = 1 /\ startWait = 0 /\ runs[1].key = KeyOf[cur] /\ runs[1].proc # "none"

\* What main has seen to when it has closed the runner.
MainOK ==
    /\ svc = "closed" => timedOut \/ finished \/ \A r \in DOMAIN runs : runs[r].late
    /\ "left" \notin orphans

RunInv == RunnerOK /\ ListenerOK /\ MainOK

\* A step that starts nothing: the calls are the same, and what has a process,
\* or a process that lives, had it before.
SameRuns ==
    /\ Len(runs') = Len(runs) /\ DOMAIN runs' = DOMAIN runs
    /\ \A r \in DOMAIN runs :
        /\ runs'[r].key = runs[r].key /\ runs'[r].late = runs[r].late
        /\ runs'[r].g = runs[r].g
        /\ (runs'[r].proc = "none") = (runs[r].proc = "none")
        /\ runs'[r].proc \in {"up", "term", "kill"}
                => runs[r].proc \in {"up", "term", "kill"}

\* The first call is one of the calls when there are any, and so is the last.
LEMMA FirstAndLast ==
    ASSUME RunsOK
    PROVE  /\ Last \in Nat /\ DOMAIN runs = 1 .. Last
           /\ Last >= 1 => 1 \in DOMAIN runs /\ Last \in DOMAIN runs
           /\ \A r \in DOMAIN runs : runs[r] \in Run
  BY DEF RunsOK, Last

LEMMA UnchangedRuns == ASSUME RunsOK, UNCHANGED runs PROVE SameRuns
  BY DEF RunsOK, SameRuns

LEMMA ProcessRuns ==
    ASSUME RunsOK, NEW r \in DOMAIN runs, runs[r].proc # "none",
           NEW p \in {"none", "up", "term", "kill", "gone", "reaped"}, p # "none",
           p \in {"up", "term", "kill"} => runs[r].proc \in {"up", "term", "kill"},
           runs' = [runs EXCEPT ![r].proc = p]
    PROVE  SameRuns
<1>1. runs' = [runs EXCEPT ![r] = [runs[r] EXCEPT !.proc = p]]
  OBVIOUS
<1>2. /\ Len(runs') = Len(runs) /\ DOMAIN runs' = DOMAIN runs
      /\ runs'[r] = [runs[r] EXCEPT !.proc = p]
      /\ \A x \in DOMAIN runs \ {r} : runs'[x] = runs[x]
  BY <1>1, ProcOfRun, ChangedRun DEF RunsOK
<1>3. QED
  BY <1>2, ProcOfRun DEF RunsOK, SameRuns

\* The signal of Close changes nothing where there is no process.
LEMMA SignalRuns ==
    ASSUME RunsOK, NEW p \in {"up", "term"}, NEW q \in {"term", "kill"},
           runs' = [runs EXCEPT ![Last].proc = IF @ = p THEN q ELSE @]
    PROVE  SameRuns
<1>1. CASE Last \in DOMAIN runs /\ runs[Last].proc = p
  <2>1. runs' = [runs EXCEPT ![Last].proc = q]
    BY <1>1
  <2>2. QED
    BY <1>1, <2>1, ProcessRuns
<1>2. CASE Last \in DOMAIN runs /\ runs[Last].proc # p
  <2>1. runs[Last] \in Run
    BY <1>2, FirstAndLast
  <2>2. [runs[Last] EXCEPT !.proc = runs[Last].proc] = runs[Last]
    BY <2>1 DEF Run
  <2>3. runs' = runs
    BY <1>2, <2>2 DEF RunsOK
  <2>4. QED
    BY <2>3, UnchangedRuns
<1>3. CASE Last \notin DOMAIN runs
  <2>1. runs' = runs
    BY <1>3 DEF RunsOK
  <2>2. QED
    BY <2>1, UnchangedRuns
<1>4. QED
  BY <1>1, <1>2, <1>3

LEMMA RunnerStays ==
    ASSUME RunsOK, RunnerOK, SameRuns, UNCHANGED <<startWait, finished>>
    PROVE  RunnerOK'
<1>1. Last' = Last
  BY DEF SameRuns, Last
<1>2. \A r \in DOMAIN runs : Unborn(r)' = Unborn(r) /\ (Living(r)' => Living(r))
  BY DEF SameRuns, Unborn, Living
<1>3. Last >= 1 => 1 \in DOMAIN runs
  BY FirstAndLast
<1>4. QED
  BY <1>1, <1>2, <1>3, FirstAndLast DEF RunnerOK, SameRuns

\* The same of the listener and main, where they did not move.
LEMMA ListenerStays ==
    ASSUME RunsOK, RunnerOK, ListenerOK, SameRuns,
           UNCHANGED <<startWait, finished, pc, cur, currentKey>>, timedOut => timedOut'
    PROVE  ListenerOK'
<1>1. Last' = Last
  BY DEF SameRuns, Last
<1>2. Last >= 1 => 1 \in DOMAIN runs /\ Last \in DOMAIN runs
  BY FirstAndLast
<1>3. startWait = 0 => 1 \in DOMAIN runs
  BY <1>2 DEF RunnerOK
<1>4. QED
  BY <1>1, <1>2, <1>3, FirstAndLast DEF ListenerOK, SameRuns

LEMMA MainStays ==
    ASSUME RunsOK, MainOK, SameRuns, timedOut => timedOut', finished => finished',
           svc' = svc \/ svc' # "closed", UNCHANGED orphans
    PROVE  MainOK'
  BY DEF MainOK, SameRuns

LEMMA NewRunner == ASSUME FreshRunner PROVE RunnerOK'
<1>1. runs' = <<>> /\ startWait' = 1 /\ ~finished'
  BY DEF FreshRunner
<1>2. Len(<<>>) = 0 /\ DOMAIN <<>> = {}
  BY EmptySeq
<1>3. Last' = 0 /\ DOMAIN runs' = {}
  BY <1>1, <1>2 DEF Last
<1>4. QED
  BY <1>1, <1>3 DEF RunnerOK

LEMMA DieKeeps ==
    ASSUME NEW left, MainOK, "left" \notin left, Die(left)
    PROVE  RunInv'
<1>1. RunnerOK'
  BY NewRunner DEF Die
<1>2. ListenerOK'
  BY DEF Die, ListenerOK, FreshRunner
<1>3. MainOK'
  BY DEF Die, MainOK
<1>4. QED
  BY <1>1, <1>2, <1>3 DEF RunInv

\* The listener, in EnsureRunning and after it.
LEMMA ListenKeeps == ASSUME TypeOK, RunInv, Listen PROVE RunInv'
<1> USE DEF worldVars, runnerVars
<1>0. RunsOK /\ RestOK /\ RunnerOK /\ ListenerOK /\ MainOK
  BY TypeParts DEF RunInv
<1>1. ASSUME UNCHANGED <<runs, startWait, finished, timedOut>>,
             ListenerOK', svc' = svc \/ svc' # "closed", UNCHANGED orphans
      PROVE  RunInv'
  BY <1>0, <1>1, UnchangedRuns, RunnerStays, MainStays DEF RunInv
<1>2. ASSUME NEW m \in Msg, Take(m) PROVE RunInv'
  <2>1. ListenerOK'
    BY <1>0, <1>2 DEF Take, Fail, ListenerOK, Last
  <2>2. QED
    BY <1>1, <1>2, <2>1 DEF Take
<1>3. CASE Ensure
  <2>1. ListenerOK'
    <3>1. KeyOf[cur] # None /\ KeyOf[cur] = currentKey /\ ~finished =>
            Last = 1 /\ startWait = 0 /\ runs[1].key = KeyOf[cur] /\ runs[1].proc # "none"
      BY <1>0 DEF RunnerOK, ListenerOK
    <3>2. pc' = NextOf /\ UNCHANGED <<cur, runs, startWait, finished, timedOut, currentKey>>
      BY <1>3 DEF Ensure
    <3>3. pc' \in {"close", "start", "command"}
          /\ (pc' = "start" => KeyOf[cur] # None /\ finished)
          /\ (pc' = "command" => KeyOf[cur] # None /\ KeyOf[cur] = currentKey /\ ~finished)
      BY <3>2 DEF NextOf
    <3>4. QED
      BY <1>0, <3>1, <3>2, <3>3 DEF ListenerOK, Last
  <2>2. QED
    BY <1>1, <1>3, <2>1 DEF Ensure
<1>4. CASE Start
  <2>1. CASE cur \in NoCmd
    <3>1. ListenerOK'
      BY <1>0, <1>4, <2>1 DEF Start, Fail, ListenerOK, Last
    <3>2. QED
      BY <1>1, <1>4, <2>1, <3>1 DEF Start
  <2>2. CASE cur \notin NoCmd
    <3> DEFINE new == [key |-> KeyOf[cur], late |-> svc # "up", g |-> "new", proc |-> "none"]
    <3>1. new \in Run
      BY <1>0 DEF RestOK, Run, Key
    <3>2. runs' = Append(runs, new)
      BY <1>4, <2>2 DEF Start
    <3>3. /\ Len(runs') = Len(runs) + 1 /\ runs'[Len(runs) + 1] = new
          /\ \A r \in DOMAIN runs : runs'[r] = runs[r]
      BY <1>0, <3>1, <3>2, AppendProperties DEF RunsOK
    <3>4. DOMAIN runs = 1 .. Len(runs) /\ DOMAIN runs' = 1 .. (Len(runs) + 1) /\ Len(runs) \in Nat
      BY <1>0, <3>1, <3>2, AppendProperties, LenProperties DEF RunsOK
    <3>5. UNCHANGED <<startWait, finished, timedOut, svc, orphans, cur, currentKey>>
          /\ pc = "start" /\ pc' = "wait"
      BY <1>4, <2>2 DEF Start
    <3>6. KeyOf[cur] # None /\ (Last = 0 \/ finished)
      BY <1>0, <3>5 DEF ListenerOK
    <3>7. startWait \in {0, 1}
      BY <1>0 DEF RestOK
    <3>8. \A r \in DOMAIN runs' : r \in DOMAIN runs \/ r = Len(runs) + 1
      BY <3>4
    <3>9. CASE startWait = 1
      <4>1. ~finished /\ Len(runs) = 0
        BY <1>0, <3>6, <3>9 DEF RunnerOK, Last
      <4>2. Len(runs') = 1 /\ runs'[1] = new /\ DOMAIN runs' = {1}
        BY <3>3, <3>4, <4>1
      <4>3. RunnerOK'
        BY <3>5, <3>9, <4>1, <4>2 DEF RunnerOK, Last, Unborn
      <4>4. ListenerOK'
        <5>1. currentKey' = None /\ KeyOf[cur'] # None
          BY <1>0, <3>5, <3>6, <3>9 DEF ListenerOK
        <5>2. Last' = 1 /\ runs'[Last'].key = KeyOf[cur']
          BY <3>5, <4>2 DEF Last
        <5>3. QED
          BY <3>5, <5>1, <5>2 DEF ListenerOK
      <4>5. MainOK'
        <5>1. ASSUME svc = "closed" PROVE runs'[1].late
          <6>1. (svc # "up") = TRUE
            BY <5>1
          <6>2. new.late = TRUE
            BY <6>1
          <6>3. QED
            BY <4>2, <6>2
        <5>2. QED
          BY <1>0, <3>5, <4>2, <5>1 DEF MainOK
      <4>6. QED
        BY <4>3, <4>4, <4>5 DEF RunInv
    <3>10. CASE startWait = 0
      <4>1. Len(runs) >= 1 /\ finished
        BY <1>0, <3>6, <3>10 DEF RunnerOK, Last
      <4>2. 1 \in DOMAIN runs
        BY <3>4, <4>1
      <4>3. runs'[1] = runs[1] /\ Len(runs') >= 1
        BY <3>3, <3>4, <4>1, <4>2
      <4>4. \A r \in DOMAIN runs' \ {1} : Unborn(r)'
        BY <1>0, <3>3, <3>8, <3>10 DEF RunnerOK, Unborn
      <4>5. RunnerOK'
        BY <1>0, <3>5, <3>10, <4>1, <4>3, <4>4 DEF RunnerOK, Last, Living
      <4>6. ListenerOK'
        BY <1>0, <3>3, <3>4, <3>5, <3>6, <3>10, <4>1, <4>3 DEF ListenerOK, Last
      <4>7. MainOK'
        BY <1>0, <3>5, <4>1 DEF MainOK
      <4>8. QED
        BY <4>5, <4>6, <4>7 DEF RunInv
    <3>11. QED
      BY <3>7, <3>9, <3>10
  <2>3. QED
    BY <2>1, <2>2
<1>5. CASE RunReturns
  <2>1. ListenerOK'
    <3>1. startWait = 0 /\ ~finished => Last = 1
      BY <1>0 DEF RunnerOK
    <3>2. QED
      BY <1>0, <1>5, <3>1 DEF RunReturns, Fail, ListenerOK, Last
  <2>2. QED
    BY <1>1, <1>5, <2>1 DEF RunReturns
<1>6. CASE CheckRunning
  <2>1. ListenerOK'
    BY <1>0, <1>6 DEF CheckRunning, Fail, ListenerOK, RunnerOK, Last
  <2>2. QED
    BY <1>1, <1>6, <2>1 DEF CheckRunning
<1>7. CASE CommandStarts
  <2>1. ListenerOK'
    BY <1>0, <1>7 DEF CommandStarts, ListenerOK, Last
  <2>2. QED
    BY <1>1, <1>7, <2>1 DEF CommandStarts
<1>8. CASE CommandReturns
  <2>1. ListenerOK'
    BY <1>0, <1>8 DEF CommandReturns, Fail, ListenerOK, Last
  <2>2. QED
    BY <1>1, <1>8, <2>1 DEF CommandReturns
<1>9. CASE Reply
  <2>1. ListenerOK'
    BY <1>0, <1>9 DEF Reply, ListenerOK, Last
  <2>2. QED
    BY <1>1, <1>9, <2>1 DEF Reply
<1>10. QED
  BY <1>2, <1>3, <1>4, <1>5, <1>6, <1>7, <1>8, <1>9 DEF Listen

\* Close, by the listener or by main: nothing is started, and what returns from
\* it without an error has seen that nothing runs.
LEMMA ClosedKeeps ==
    ASSUME TypeOK, RunInv, SameRuns, UNCHANGED <<startWait, finished, cur, orphans>>,
           NEW a \in Caller, NEW ok \in BOOLEAN, Return(a, ok),
           timedOut => timedOut',
           ok => Last = 0 \/ finished, ~ok => timedOut'
    PROVE  RunInv'
<1>0. RunsOK /\ RestOK /\ RunnerOK /\ ListenerOK /\ MainOK
  BY TypeParts DEF RunInv
<1>1. RunnerOK'
  BY <1>0, RunnerStays
<1>2. Last' = Last /\ DOMAIN runs' = DOMAIN runs
  BY DEF SameRuns, Last
<1>3. CASE a = "main"
  <2>1. svc' = "closed" /\ UNCHANGED <<pc, why, currentKey>>
    BY <1>3 DEF Return
  <2>2. ListenerOK'
    BY <1>0, <2>1, ListenerStays
  <2>3. MainOK'
    <3>1. Last = 0 => DOMAIN runs = {}
      BY <1>0, FirstAndLast
    <3>2. QED
      BY <1>0, <1>2, <2>1, <3>1 DEF MainOK
  <2>4. QED
    BY <1>1, <2>2, <2>3 DEF RunInv
<1>4. CASE a = "listener"
  <2>1. Closed(ok) /\ UNCHANGED svc
    BY <1>4 DEF Return
  <2>2. /\ pc' \in {"command", "start", "reply"}
        /\ pc' = "command" => KeyOf[cur] = None
        /\ pc' = "start" => ok /\ KeyOf[cur] # None
        /\ currentKey' \in {currentKey, None}
    BY <2>1 DEF Closed, Fail
  <2>3. 1 \in DOMAIN runs \/ startWait = 1
    BY <1>0, FirstAndLast DEF RestOK, RunnerOK
  <2>4. ListenerOK'
    BY <1>0, <1>2, <2>2, <2>3 DEF ListenerOK, SameRuns
  <2>5. MainOK'
    BY <1>0, <2>1, MainStays
  <2>6. QED
    BY <1>1, <2>4, <2>5 DEF RunInv
<1>5. QED
  BY <1>3, <1>4 DEF Caller

\* A step that starts nothing and of which the others take no notice.
LEMMA StaysKeeps ==
    ASSUME TypeOK, RunInv, SameRuns,
           UNCHANGED <<startWait, finished, timedOut, pc, cur, currentKey, orphans>>,
           svc' = svc \/ svc' # "closed"
    PROVE  RunInv'
  BY TypeParts, RunnerStays, ListenerStays, MainStays DEF RunInv

LEMMA ClosingKeeps == ASSUME TypeOK, RunInv, Closing PROVE RunInv'
<1> USE DEF worldVars, runnerVars
<1>0. RunsOK /\ RestOK
  BY TypeParts
<1>1. ASSUME NEW a \in Caller, CloseStart(a) PROVE RunInv'
  <2>1. CASE NothingToClose(a)
    <3>1. Return(a, TRUE) /\ UNCHANGED runs
      BY <1>1, <2>1 DEF CloseStart
    <3>2. UNCHANGED <<startWait, finished, cur, orphans, timedOut>>
      BY <1>1 DEF CloseStart
    <3>3. QED
      BY <1>0, <2>1, <3>1, <3>2, UnchangedRuns, ClosedKeeps DEF NothingToClose
  <2>2. CASE ~NothingToClose(a)
    <3>1. runs' = [runs EXCEPT ![Last].proc = IF @ = "up" THEN "term" ELSE @]
      BY <1>1, <2>2 DEF CloseStart
    <3>2. UNCHANGED <<startWait, finished, timedOut, pc, cur, currentKey, orphans, svc>>
      BY <1>1, <2>2 DEF CloseStart
    <3>3. QED
      BY <1>0, <3>1, <3>2, SignalRuns, StaysKeeps
  <2>3. QED
    BY <2>1, <2>2
<1>2. ASSUME NEW a \in Caller, CloseEnd(a) PROVE RunInv'
  <2>1. /\ Return(a, TRUE) /\ finished
        /\ UNCHANGED <<runs, startWait, finished, cur, orphans, timedOut>>
    BY <1>2 DEF CloseEnd
  <2>2. QED
    BY <1>0, <2>1, UnchangedRuns, ClosedKeeps
<1>3. ASSUME NEW a \in Caller, CloseTimeout(a) PROVE RunInv'
  <2>1. CASE closing.signal = "term"
    <3>1. runs' = [runs EXCEPT ![Last].proc = IF @ = "term" THEN "kill" ELSE @]
      BY <1>3, <2>1 DEF CloseTimeout
    <3>2. UNCHANGED <<startWait, finished, timedOut, pc, cur, currentKey, orphans, svc>>
      BY <1>3, <2>1 DEF CloseTimeout
    <3>3. QED
      BY <1>0, <3>1, <3>2, SignalRuns, StaysKeeps
  <2>2. CASE closing.signal # "term"
    <3>1. Return(a, FALSE) /\ UNCHANGED runs /\ timedOut' = TRUE
      BY <1>3, <2>2 DEF CloseTimeout
    <3>2. UNCHANGED <<startWait, finished, cur, orphans>>
      BY <1>3, <2>2 DEF CloseTimeout
    <3>3. QED
      BY <1>0, <3>1, <3>2, UnchangedRuns, ClosedKeeps
  <2>3. QED
    BY <2>1, <2>2
<1>4. QED
  BY <1>1, <1>2, <1>3 DEF Closing

\* The goroutine of a call, its process, and the reaper.
LEMMA ProcessKeeps == ASSUME TypeOK, RunInv, Process PROVE RunInv'
<1> USE DEF worldVars, runnerVars
<1>0. RunsOK /\ RestOK /\ RunnerOK /\ ListenerOK /\ MainOK
  BY TypeParts DEF RunInv
<1>1. ASSUME NEW r \in DOMAIN runs, NEW ok \in BOOLEAN, Spawned(r, ok) PROVE RunInv'
  <2>1. CASE Panics
    <3>1. PICK left : "left" \notin left /\ Die(left)
      BY <1>1, <2>1 DEF Spawned
    <3>2. QED
      BY <1>0, <3>1, DieKeeps
  <2>2. CASE ~Panics
    <3> DEFINE new == [runs[r] EXCEPT !.g = IF ok THEN "started" ELSE "done",
                                      !.proc = IF ok THEN "up" ELSE @]
    <3>1. startWait = 1 /\ r = 1 /\ Last = 1 /\ DOMAIN runs = {1} /\ ~finished
      BY <1>0, <2>2, FirstAndLast DEF Panics, RestOK, RunnerOK
    <3>2. runs[r] \in Run /\ runs[r].proc = "none"
      BY <1>0, <3>1, FirstAndLast DEF RunnerOK, Unborn
    <3>3. new \in Run /\ new.key = runs[r].key /\ new.late = runs[r].late
          /\ new.g = (IF ok THEN "started" ELSE "done")
          /\ new.proc = (IF ok THEN "up" ELSE "none")
      BY <3>2 DEF Run
    <3>4. runs' = [runs EXCEPT ![r] = new]
      BY <1>0, <1>1, <2>2, <3>2 DEF Spawned, Run, RunsOK
    <3>5. Len(runs') = Len(runs) /\ DOMAIN runs' = DOMAIN runs /\ runs'[r] = new
      BY <1>0, <3>3, <3>4, ChangedRun DEF RunsOK
    <3>6. /\ finished' = ~ok /\ startWait' = 0
          /\ UNCHANGED <<svc, pc, cur, currentKey, timedOut, orphans>>
      BY <1>1, <2>2, <3>1 DEF Spawned
    <3>7. RunnerOK'
      <4>1. Last' = 1 /\ DOMAIN runs' = {1}
        BY <3>1, <3>5 DEF Last
      <4>2. /\ ok => finished' = FALSE /\ runs'[1].g = "started" /\ runs'[1].proc = "up"
            /\ ~ok => finished' = TRUE /\ runs'[1].g = "done" /\ runs'[1].proc = "none"
        BY <3>1, <3>3, <3>5, <3>6
      <4>3. QED
        BY <3>6, <4>1, <4>2 DEF RunnerOK, Living
    <3>8. ListenerOK'
      <4>1. Last' = Last /\ runs'[1].key = runs[1].key
        BY <3>1, <3>3, <3>5 DEF Last
      <4>2. currentKey' = None /\ pc' = pc /\ pc \notin {"check", "start"} /\ cur' = cur
        BY <1>0, <3>1, <3>6 DEF ListenerOK
      <4>3. pc = "command" => KeyOf[cur] = None /\ timedOut'
        BY <1>0, <3>1, <3>6 DEF ListenerOK
      <4>4. pc = "wait" => KeyOf[cur] # None /\ runs[1].key = KeyOf[cur]
        BY <1>0, <3>1 DEF ListenerOK
      <4>5. QED
        BY <3>1, <4>1, <4>2, <4>3, <4>4 DEF ListenerOK
    <3>9. MainOK'
      BY <1>0, <3>1, <3>3, <3>5, <3>6 DEF MainOK
    <3>10. QED
      BY <3>7, <3>8, <3>9 DEF RunInv
  <2>3. QED
    BY <2>1, <2>2
<1>2. ASSUME NEW r \in DOMAIN runs, ProcessEnds(r) PROVE RunInv'
  <2>1. runs[r].proc # "none" /\ runs' = [runs EXCEPT ![r].proc = "gone"]
    BY <1>2 DEF ProcessEnds, Living
  <2>2. SameRuns
    BY <1>0, <2>1, ProcessRuns
  <2>3. QED
    BY <1>2, <2>2, StaysKeeps DEF ProcessEnds
<1>3. ASSUME NEW r \in DOMAIN runs, WaitReturns(r) PROVE RunInv'
  <2>1. runs[r].g = "started" /\ runs[r].proc \in {"gone", "reaped"}
    BY <1>3 DEF WaitReturns
  <2>2. startWait = 0 /\ r = 1
    BY <1>0, <2>1 DEF RunnerOK, RestOK, Unborn
  <2>3. /\ runs' = [runs EXCEPT ![r] = [runs[r] EXCEPT !.g = "done"]]
        /\ finished' = TRUE
        /\ UNCHANGED <<svc, pc, cur, currentKey, timedOut, orphans, startWait>>
    BY <1>3 DEF WaitReturns
  <2>4. runs[r] \in Run
    BY <1>0, FirstAndLast
  <2>5. /\ [runs[r] EXCEPT !.g = "done"] \in Run
        /\ [runs[r] EXCEPT !.g = "done"].g = "done"
        /\ [runs[r] EXCEPT !.g = "done"].key = runs[r].key
        /\ [runs[r] EXCEPT !.g = "done"].proc = runs[r].proc
    BY <2>4 DEF Run
  <2>6. /\ Len(runs') = Len(runs) /\ DOMAIN runs' = DOMAIN runs
        /\ runs'[1].g = "done" /\ runs'[1].proc = runs[1].proc /\ runs'[1].key = runs[1].key
        /\ \A x \in DOMAIN runs \ {1} : runs'[x] = runs[x]
    BY <1>0, <2>2, <2>3, <2>5, ChangedRun DEF RunsOK
  <2>7. \A x \in DOMAIN runs \ {1} : Unborn(x)'
    BY <1>0, <2>2, <2>6 DEF RunnerOK, Unborn
  <2>8. RunnerOK'
    BY <1>0, <2>1, <2>2, <2>3, <2>6, <2>7 DEF RunnerOK, Last, Living
  <2>9. \A x \in DOMAIN runs : runs'[x].key = runs[x].key
    BY <2>6
  <2>10. ListenerOK'
    BY <1>0, <2>2, <2>3, <2>6, <2>9, FirstAndLast DEF ListenerOK, Last
  <2>11. MainOK'
    BY <1>0, <2>3 DEF MainOK
  <2>12. QED
    BY <2>8, <2>10, <2>11 DEF RunInv
<1>4. ASSUME NEW ok \in BOOLEAN, CommandEnds(ok) PROVE RunInv'
  BY <1>0, <1>4, UnchangedRuns, StaysKeeps DEF CommandEnds
<1>5. CASE Reap
  <2>1. SameRuns
    BY <1>0, <1>5, ReapedRuns DEF Reap, Reaped, RunsOK, SameRuns
  <2>2. QED
    BY <1>5, <2>1, StaysKeeps DEF Reap
<1>6. QED
  BY <1>1, <1>2, <1>3, <1>4, <1>5 DEF Process

\* When main has returned from Close, the process ends.
LEMMA MainKeeps == ASSUME TypeOK, RunInv, Quit \/ Exit \/ Restart PROVE RunInv'
<1> USE DEF worldVars, runnerVars
<1>0. RunsOK /\ RestOK /\ RunnerOK /\ MainOK
  BY TypeParts DEF RunInv
<1>1. CASE Quit
  BY <1>0, <1>1, UnchangedRuns, StaysKeeps DEF Quit
<1>2. CASE Exit
  <2>1. \A r \in DOMAIN runs : Living(r) => timedOut \/ runs[r].late
    BY <1>0, <1>2 DEF Exit, MainOK, RunnerOK, Living, Unborn
  <2>2. PICK left : "left" \notin left /\ Die(left)
    BY <1>2, <2>1 DEF Exit
  <2>3. QED
    BY <1>0, <2>2, DieKeeps
<1>3. CASE Restart
  BY <1>0, <1>3, UnchangedRuns, StaysKeeps DEF Restart
<1>4. QED
  BY <1>1, <1>2, <1>3

\* Whatever the listener, main and the goroutines do, the runner is one whose
\* first process is the only one, the listener knows what it needs of it, and
\* main leaves nothing that it knew of.
THEOREM RunInvAlways == Spec => []RunInv
<1>1. Init => RunInv
  <2>1. ASSUME Init PROVE RunInv
    <3>1. runs = <<>> /\ startWait = 1 /\ ~finished
      BY <2>1 DEF Init
    <3>2. Len(<<>>) = 0 /\ DOMAIN <<>> = {}
      BY EmptySeq
    <3>3. pc = "idle" /\ currentKey = None /\ svc = "up" /\ orphans = {}
      BY <2>1 DEF Init
    <3>4. RunnerOK
      BY <3>1, <3>2 DEF RunnerOK, Last
    <3>5. ListenerOK
      BY <3>3 DEF ListenerOK
    <3>6. MainOK
      BY <3>3 DEF MainOK
    <3>7. QED
      BY <3>4, <3>5, <3>6 DEF RunInv
  <2>2. QED
    BY <2>1
<1>2. TypeOK /\ RunInv /\ [Next]_vars => RunInv'
  <2>1. ASSUME TypeOK, RunInv, Next PROVE RunInv'
    BY <2>1, ListenKeeps, ClosingKeeps, ProcessKeeps, MainKeeps DEF Next
  <2>2. ASSUME TypeOK, RunInv, UNCHANGED vars PROVE RunInv'
    BY <2>2, TypeParts, UnchangedRuns, StaysKeeps DEF vars, runnerVars, worldVars
  <2>3. QED
    BY <2>1, <2>2
<1>3. QED
  BY <1>1, <1>2, TypeCorrect, PTL DEF Spec

\* A command runs beside the process that has loaded its own model and no other.
THEOREM ModelIsLoaded == Spec => []CommandHasItsModel
<1>1. TypeOK /\ RunInv => CommandHasItsModel
  <2>1. ASSUME TypeOK, RunInv, pc = "command" PROVE CommandHasItsModel
    <3>1. RunsOK /\ RestOK /\ RunnerOK /\ ListenerOK
      BY <2>1, TypeParts DEF RunInv
    <3>2. CASE KeyOf[cur] # None
      <4>1. Last = 1 /\ runs[1].key = KeyOf[cur] /\ runs[1].proc # "none"
        BY <2>1, <3>1, <3>2 DEF ListenerOK
      <4>2. DOMAIN runs = {1}
        BY <3>1, <4>1, FirstAndLast
      <4>3. QED
        BY <4>1, <4>2 DEF CommandHasItsModel
    <3>3. CASE KeyOf[cur] = None
      <4>1. Last = 0 \/ finished \/ timedOut
        BY <2>1, <3>1, <3>3 DEF ListenerOK
      <4>2. Last = 0 => DOMAIN runs = {}
        BY <3>1, FirstAndLast
      <4>3. finished => \A r \in DOMAIN runs : ~Living(r)
        BY <3>1 DEF RunnerOK, Unborn, Living
      <4>4. QED
        BY <3>3, <4>1, <4>2, <4>3 DEF CommandHasItsModel
    <3>4. QED
      BY <3>2, <3>3
  <2>2. QED
    BY <2>1 DEF CommandHasItsModel
<1>2. QED
  BY <1>1, TypeCorrect, RunInvAlways, PTL

\* A service that was told to quit leaves none of the processes behind that it
\* had started before, for any interleaving of main and the listener.
THEOREM NothingIsLeft == Spec => []NothingLeftRunning
<1>1. RunInv => NothingLeftRunning
  BY DEF RunInv, MainOK, NothingLeftRunning
<1>2. QED
  BY <1>1, RunInvAlways, PTL

-----------------------------------------------------------------------------
(***************************************************************************)
(* The worker implements the abstract consumer.  It holds the message it   *)
(* works on and no other, so that what an answer settles is held, and what *)
(* a lost connection or the end of the service requeues is that message.   *)
(***************************************************************************)
AtWork == pc \notin {"idle", "ended"}

OneHeld ==
    /\ AtWork => queue[cur] = "held"
    /\ \A m \in Msg : queue[m] = "held" => AtWork /\ m = cur

\* A step that leaves the queue alone and the listener where it was, at work or
\* not.
LEMMA QueueStays ==
    ASSUME OneHeld, UNCHANGED <<queue, cur>>, AtWork' <=> AtWork
    PROVE  OneHeld'
  BY DEF OneHeld

\* When the service dies nothing is held.
LEMMA DieHolds == ASSUME TypeOK, NEW left, Die(left) PROVE OneHeld'
<1>1. \A m \in Msg : queue'[m] # "held"
  BY DEF TypeOK, Die, Back
<1>2. pc' = "idle"
  BY DEF Die
<1>3. QED
  BY <1>1, <1>2 DEF OneHeld, AtWork

\* Where Close returns to.
LEMMA ReturnHolds ==
    ASSUME OneHeld, NEW a \in Caller, NEW ok, Return(a, ok), UNCHANGED <<queue, cur>>,
           a = "listener" => pc = "close"
    PROVE  OneHeld'
<1>1. CASE a = "listener"
  <2>1. pc' \in {"command", "start", "reply"}
    BY <1>1 DEF Return, Closed, Fail
  <2>2. AtWork /\ AtWork'
    BY <1>1, <2>1 DEF AtWork
  <2>3. QED
    BY <2>2, QueueStays
<1>2. CASE a # "listener"
  BY <1>2, QueueStays DEF Return, AtWork
<1>3. QED
  BY <1>1, <1>2

\* The steps of the listener.
LEMMA ListenHolds == ASSUME TypeOK, StatusInv, OneHeld, Listen PROVE OneHeld'
<1>1. ASSUME NEW m \in Msg, Take(m) PROVE OneHeld'
  <2>1. /\ pc = "idle" /\ queue' = [queue EXCEPT ![m] = "held"] /\ cur' = m
        /\ pc' \in {"reply", "ensure"}
    BY <1>1 DEF Take, Fail
  <2>2. \A n \in Msg : queue[n] # "held"
    BY <2>1 DEF OneHeld, AtWork
  <2>3. /\ queue'[m] = "held" /\ \A n \in Msg : n # m => queue'[n] # "held"
    BY <2>1, <2>2 DEF TypeOK
  <2>4. AtWork'
    BY <2>1 DEF AtWork
  <2>5. QED
    BY <2>1, <2>3, <2>4 DEF OneHeld
<1>2. CASE Ensure
  BY <1>2, QueueStays DEF Ensure, NextOf, AtWork
<1>3. CASE Start \/ RunReturns \/ CheckRunning
  BY <1>3, QueueStays DEF Start, RunReturns, CheckRunning, Fail, AtWork
<1>4. CASE CommandStarts
  BY <1>4, QueueStays DEF CommandStarts, AtWork
<1>5. CASE Reply
  <2>1. /\ pc = "reply" /\ pc' \in {"idle", "ended"} /\ cur' = cur
        /\ \E x \in {"acked", "queued"} : queue' = [queue EXCEPT ![cur] = x]
    BY <1>5 DEF Reply
  <2>2. \A n \in Msg : queue'[n] # "held"
    BY <2>1 DEF TypeOK, OneHeld
  <2>3. QED
    BY <2>1, <2>2 DEF OneHeld, AtWork
<1>6. CASE CommandReturns
  <2>1. pc = "command" /\ pc' = "reply" /\ UNCHANGED <<queue, cur>>
    BY <1>6 DEF CommandReturns, Fail, StatusInv
  <2>2. QED
    BY <2>1, QueueStays DEF AtWork
<1>7. QED
  BY <1>1, <1>2, <1>3, <1>4, <1>5, <1>6 DEF Listen

\* The steps of those who close the runner.
LEMMA ClosingHolds == ASSUME TypeOK, StatusInv, OneHeld, Closing PROVE OneHeld'
<1>1. ASSUME NEW a \in Caller, CloseStart(a) PROVE OneHeld'
  <2>1. UNCHANGED <<queue, cur>> /\ (a = "listener" => pc = "close")
    BY <1>1 DEF CloseStart, May
  <2>2. CASE NothingToClose(a)
    <3>1. Return(a, TRUE)
      BY <1>1, <2>2 DEF CloseStart
    <3>2. QED
      BY <2>1, <3>1, ReturnHolds
  <2>3. CASE ~NothingToClose(a)
    BY <1>1, <2>1, <2>3, QueueStays DEF CloseStart, AtWork
  <2>4. QED
    BY <2>2, <2>3
<1>2. ASSUME NEW a \in Caller, CloseEnd(a) PROVE OneHeld'
  <2>1. UNCHANGED <<queue, cur>> /\ (a = "listener" => pc = "close") /\ Return(a, TRUE)
    BY <1>2 DEF CloseEnd, StatusInv
  <2>2. QED
    BY <2>1, ReturnHolds
<1>3. ASSUME NEW a \in Caller, CloseTimeout(a) PROVE OneHeld'
  <2>1. UNCHANGED <<queue, cur>> /\ (a = "listener" => pc = "close")
    BY <1>3 DEF CloseTimeout, StatusInv
  <2>2. CASE closing.signal = "term"
    BY <1>3, <2>1, <2>2, QueueStays DEF CloseTimeout, AtWork
  <2>3. CASE closing.signal # "term"
    <3>1. Return(a, FALSE)
      BY <1>3, <2>3 DEF CloseTimeout
    <3>2. QED
      BY <2>1, <3>1, ReturnHolds
  <2>4. QED
    BY <2>2, <2>3
<1>4. QED
  BY <1>1, <1>2, <1>3 DEF Closing

\* The steps of the processes, the reaper and main.
LEMMA ProcessHolds == ASSUME TypeOK, OneHeld, Process PROVE OneHeld'
<1>1. ASSUME NEW r \in DOMAIN runs, NEW ok \in BOOLEAN, Spawned(r, ok) PROVE OneHeld'
  <2>1. CASE Panics
    <3>1. PICK left : Die(left)
      BY <1>1, <2>1 DEF Spawned
    <3>2. QED
      BY <3>1, DieHolds
  <2>2. CASE ~Panics
    BY <1>1, <2>2, QueueStays DEF Spawned, AtWork
  <2>3. QED
    BY <2>1, <2>2
<1>2. ASSUME NEW r \in DOMAIN runs, ProcessEnds(r) \/ WaitReturns(r) PROVE OneHeld'
  BY <1>2, QueueStays DEF ProcessEnds, WaitReturns, AtWork
<1>3. ASSUME NEW ok \in BOOLEAN, CommandEnds(ok) PROVE OneHeld'
  BY <1>3, QueueStays DEF CommandEnds, AtWork
<1>4. CASE Reap
  BY <1>4, QueueStays DEF Reap, AtWork
<1>5. QED
  BY <1>1, <1>2, <1>3, <1>4 DEF Process

LEMMA MainHolds == ASSUME TypeOK, OneHeld, Quit \/ Exit \/ Restart PROVE OneHeld'
<1>1. CASE Quit \/ Restart
  BY <1>1, QueueStays DEF Quit, Restart, AtWork
<1>2. CASE Exit
  <2>1. PICK left : Die(left)
    BY <1>2 DEF Exit
  <2>2. QED
    BY <2>1, DieHolds
<1>3. QED
  BY <1>1, <1>2

LEMMA OneHeldAlways == Spec => []OneHeld
<1>1. Init => OneHeld
  BY DEF Init, OneHeld, AtWork
<1>2. TypeOK /\ StatusInv /\ OneHeld /\ [Next]_vars => OneHeld'
  <2>1. ASSUME TypeOK, StatusInv, OneHeld, Next PROVE OneHeld'
    BY <2>1, ListenHolds, ClosingHolds, ProcessHolds, MainHolds DEF Next
  <2>2. ASSUME OneHeld, UNCHANGED vars PROVE OneHeld'
    BY <2>2, QueueStays DEF vars, AtWork
  <2>3. QED
    BY <2>1, <2>2
<1>3. QED
  BY <1>1, <1>2, TypeCorrect, StatusInvAlways, PTL DEF Spec

(***************************************************************************)
(* The refinement.  What the consumer sees of a message is the state of    *)
(* the message alone; the worker holds what is "held".                     *)
(***************************************************************************)
DeliveryOf == [m \in Msg |-> IF queue[m] = "held" THEN "unacked" ELSE queue[m]]
HolderOf == [m \in Msg |-> IF queue[m] = "held" THEN "main" ELSE "none"]

\* A step that leaves the queue alone.
LEMMA KeptAll ==
    ASSUME UNCHANGED <<queue, redelivered>>
    PROVE  Consumer!Consume("main")
  BY DEF Consumer!Consume, Consumer!Kept

\* A message is taken.
LEMMA TakeConsumes ==
    ASSUME TypeOK, NEW m \in Msg, Take(m)
    PROVE  Consumer!Consume("main")
<1>1. queue[m] = "queued" /\ queue' = [queue EXCEPT ![m] = "held"] /\ UNCHANGED redelivered
  BY DEF Take
<1>2. queue'[m] = "held" /\ \A d \in Msg \ {m} : queue'[d] = queue[d]
  BY <1>1 DEF TypeOK
<1>3. Consumer!Taken("main", m)
  BY <1>1, <1>2 DEF Consumer!Taken
<1>4. \A d \in Msg \ {m} : Consumer!Kept(d)
  BY <1>1, <1>2 DEF Consumer!Kept
<1>5. QED
  BY <1>3, <1>4 DEF Consumer!Consume

\* A message is answered and acknowledged.
LEMMA ReplyConsumes ==
    ASSUME TypeOK, OneHeld, pc = "reply", queue' = [queue EXCEPT ![cur] = "acked"],
           UNCHANGED redelivered
    PROVE  Consumer!Consume("main")
<1>1. PICK m \in Msg : m = cur
  BY DEF TypeOK
<1>2. queue[m] = "held"
  BY <1>1 DEF OneHeld, AtWork
<1>3. queue'[m] = "acked" /\ \A d \in Msg \ {m} : queue'[d] = queue[d]
  BY <1>1 DEF TypeOK
<1>4. Consumer!Acked("main", m)
  BY <1>2, <1>3 DEF Consumer!Acked, Consumer!HeldBy, Consumer!Held
<1>5. \A d \in Msg \ {m} : Consumer!Kept(d)
  BY <1>3 DEF Consumer!Kept
<1>6. QED
  BY <1>4, <1>5 DEF Consumer!Consume

\* All that is held is queued again: the connection is lost.
LEMMA AllBack ==
    ASSUME TypeOK,
           \A m \in Msg : queue'[m] = IF queue[m] = "held" THEN "queued" ELSE queue[m],
           redelivered' = [m \in Msg |-> redelivered[m] \/ queue[m] = "held"]
    PROVE  Consumer!Requeue("main")
<1>1. \A m \in Msg : Consumer!HeldBy("main", m) = (queue[m] = "held")
  BY DEF Consumer!HeldBy, Consumer!Held, TypeOK
<1>2. DeliveryOf' = [m \in Msg |-> IF Consumer!HeldBy("main", m) THEN "queued" ELSE DeliveryOf[m]]
  <2>1. ASSUME NEW m \in Msg
        PROVE  (IF queue'[m] = "held" THEN "unacked" ELSE queue'[m])
                 = IF queue[m] = "held" THEN "queued"
                   ELSE IF queue[m] = "held" THEN "unacked" ELSE queue[m]
    OBVIOUS
  <2>2. QED
    BY <1>1, <2>1 DEF DeliveryOf
<1>3. HolderOf' = [m \in Msg |-> IF Consumer!HeldBy("main", m) THEN "none" ELSE HolderOf[m]]
  BY <1>1 DEF HolderOf
<1>4. redelivered' = [m \in Msg |-> Consumer!HeldBy("main", m) \/ redelivered[m]]
  BY <1>1
<1>5. QED
  BY <1>2, <1>3, <1>4 DEF Consumer!Requeue, DeliveryOf, HolderOf

\* The service dies with all that it holds.
LEMMA DieDisconnects ==
    ASSUME TypeOK, NEW left, Die(left), svc # "gone"
    PROVE  Consumer!Disconnect("main")
<1>1. /\ \A m \in Msg : queue'[m] = IF queue[m] = "held" THEN "queued" ELSE queue[m]
      /\ redelivered' = [m \in Msg |-> redelivered[m] \/ queue[m] = "held"]
      /\ svc' = "gone"
  BY DEF Die, Back
<1>2. <<svc, faults>>' # <<svc, faults>>
  BY <1>1
<1>3. QED
  BY <1>1, <1>2, AllBack DEF Consumer!Disconnect

\* The answer cannot be published: the connection is lost with the message.
LEMMA ReplyDisconnects ==
    ASSUME TypeOK, OneHeld, pc = "reply", Fault("connection"),
           queue' = [queue EXCEPT ![cur] = "queued"],
           redelivered' = [redelivered EXCEPT ![cur] = TRUE]
    PROVE  Consumer!Disconnect("main")
<1>1. cur \in Msg /\ \A m \in Msg : (queue[m] = "held") <=> (m = cur)
  BY DEF TypeOK, OneHeld, AtWork
<1>2. \A m \in Msg : queue'[m] = IF queue[m] = "held" THEN "queued" ELSE queue[m]
  BY <1>1 DEF TypeOK
<1>3. redelivered' = [m \in Msg |-> redelivered[m] \/ queue[m] = "held"]
  BY <1>1 DEF TypeOK
<1>4. <<svc, faults>>' # <<svc, faults>>
  BY DEF Fault, TypeOK
<1>5. QED
  BY <1>2, <1>3, <1>4, AllBack DEF Consumer!Disconnect

LEMMA StepConsumes ==
    ASSUME TypeOK, OneHeld, Next
    PROVE  Consumer!Consume("main") \/ Consumer!Disconnect("main")
<1> USE DEF worldVars, runnerVars
<1>1. CASE Listen
  <2>1. ASSUME NEW m \in Msg, Take(m) PROVE Consumer!Consume("main")
    BY <2>1, TakeConsumes
  <2>2. CASE Ensure \/ Start \/ RunReturns \/ CheckRunning
    BY <2>2, KeptAll DEF Ensure, Start, RunReturns, CheckRunning
  <2>3. CASE CommandStarts \/ CommandReturns
    BY <2>3, KeptAll DEF CommandStarts, CommandReturns
  <2>4. CASE Reply
    <3>1. pc = "reply"
      BY <2>4 DEF Reply
    <3>2. \/ /\ queue' = [queue EXCEPT ![cur] = "acked"]
             /\ UNCHANGED redelivered
          \/ /\ Fault("connection")
             /\ queue' = [queue EXCEPT ![cur] = "queued"]
             /\ redelivered' = [redelivered EXCEPT ![cur] = TRUE]
      BY <2>4 DEF Reply
    <3>3. QED
      BY <3>1, <3>2, ReplyConsumes, ReplyDisconnects
  <2>5. QED
    BY <1>1, <2>1, <2>2, <2>3, <2>4 DEF Listen
<1>2. CASE Closing
  BY <1>2, KeptAll DEF Closing, CloseStart, CloseEnd, CloseTimeout
<1>3. CASE Process
  <2>1. ASSUME NEW r \in DOMAIN runs, NEW ok \in BOOLEAN, Spawned(r, ok)
        PROVE  Consumer!Consume("main") \/ Consumer!Disconnect("main")
    <3>1. CASE Panics
      <4>1. PICK left : Die(left)
        BY <2>1, <3>1 DEF Spawned
      <4>2. svc # "gone"
        BY <2>1 DEF Spawned, Alive
      <4>3. QED
        BY <4>1, <4>2, DieDisconnects
    <3>2. CASE ~Panics
      BY <2>1, <3>2, KeptAll DEF Spawned
    <3>3. QED
      BY <3>1, <3>2
  <2>2. ASSUME NEW r \in DOMAIN runs, ProcessEnds(r) \/ WaitReturns(r)
        PROVE  Consumer!Consume("main")
    BY <2>2, KeptAll DEF ProcessEnds, WaitReturns
  <2>3. ASSUME NEW ok \in BOOLEAN, CommandEnds(ok) PROVE Consumer!Consume("main")
    BY <2>3, KeptAll DEF CommandEnds
  <2>4. CASE Reap
    BY <2>4, KeptAll DEF Reap
  <2>5. QED
    BY <1>3, <2>1, <2>2, <2>3, <2>4 DEF Process
<1>4. CASE Quit \/ Restart
  BY <1>4, KeptAll DEF Quit, Restart
<1>5. CASE Exit
  <2>1. PICK left : Die(left)
    BY <1>5 DEF Exit
  <2>2. svc # "gone"
    BY <1>5 DEF Exit
  <2>3. QED
    BY <2>1, <2>2, DieDisconnects
<1>6. QED
  BY <1>1, <1>2, <1>3, <1>4, <1>5 DEF Next

\* The worker is a consumer of its queue: it settles a message once, while it
\* holds it, and what it held when it died or lost its connection is queued
\* again (listenQueue).
THEOREM WorkerIsConsumer == Spec => ConsumerSpec
<1>1. Init => Consumer!Init
  BY DEF Init, Consumer!Init
<1>2. TypeOK /\ OneHeld /\ [Next]_vars => [Consumer!Next]_(Consumer!consumerVars)
  <2>1. ASSUME TypeOK, OneHeld, Next PROVE Consumer!Next
    BY <2>1, StepConsumes DEF Consumer!Next
  <2>2. ASSUME UNCHANGED vars PROVE UNCHANGED Consumer!consumerVars
    BY <2>2 DEF vars, Consumer!consumerVars
  <2>3. QED
    BY <2>1, <2>2
<1>3. QED
  BY <1>1, <1>2, TypeCorrect, OneHeldAlways, PTL DEF Spec, ConsumerSpec, Consumer!Spec
====
