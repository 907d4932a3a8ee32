-------------------------------- MODULE Cost --------------------------------
(***************************************************************************)
(* The cost strategy, with what the dispatcher does around it: an idle     *)
(* worker is given the task that FindBest selects for it, or waits, when   *)
(* FindBest expects a busy worker that has the model to be free sooner.    *)
(* Durations are in seconds, costs in units of 1 / Unit of a second.       *)
(***************************************************************************)
EXTENDS Naturals, Integers, Sequences, FiniteSets, SequencesExt

CONSTANTS
    Task,           \* records [type, arrived, duration]
    Worker,         \* 1..n: the order in which workers are looked at
    NoModel,        \* the type of a worker that has no model, "<none>"
    LoadTime,       \* modelLoadTime
    RtFactor,       \* rtFactor
    Unit, DelayCost,\* delayCostPerSec is DelayCost / Unit
    MaxNow,         \* how far time goes
    None

CostMax == 100000 * Unit

\* The type "", the first in order, of a task whose model could not be had.
NoType == 0

VARIABLES
    todo,           \* the tasks that wait
    workers,        \* [type, end, working]
    now

costVars == <<todo, workers, now>>

-----------------------------------------------------------------------------
Positive(x) == IF x > 0 THEN x ELSE 0

Waited(t) == Positive(now - t.arrived)

\* groupTasks: the types in order, and the tasks of a type, the oldest first;
\* sort.Slice leaves the order of equal ones open.
Keys == {t.type : t \in todo}

SortedKeys ==
    CHOOSE s \in SetToSeqs(Keys) : \A i, j \in DOMAIN s : i < j => s[i] < s[j]

Group(k) == {t \in todo : t.type = k}

Orders(k) ==
    {s \in SetToSeqs(Group(k)) :
        \A i, j \in DOMAIN s : i < j => s[i].arrived <= s[j].arrived}

Oldest(k) == {t \in Group(k) : \A u \in Group(k) : t.arrived <= u.arrived}

CalcCost(w, k) ==
    (IF workers[w].type = k THEN 0 ELSE LoadTime * Unit)
        - (CHOOSE c \in {Waited(t) * DelayCost : t \in Oldest(k)} : TRUE)

IsBestColumnValue(w, k) == \A v \in Worker : CalcCost(v, k) >= CalcCost(w, k)

\* getBest: the cheapest of the types that no worker is cheaper for.
Candidates(w) == {k \in Keys : CalcCost(w, k) < CostMax /\ IsBestColumnValue(w, k)}

GetBest(w) ==
    {k \in Candidates(w) : \A j \in Candidates(w) : CalcCost(w, k) <= CalcCost(w, j)}

-----------------------------------------------------------------------------
(***************************************************************************)
(* getTaskByV2: for every type, the tasks are handed out in order to the   *)
(* worker that is free first; the first that would be this worker's is the *)
(* choice, when it could begin sooner than the choice of an earlier type.  *)
(***************************************************************************)
\* Mutant of FreeAt: what a worker still has to do is forgotten.
FreeAtOnce(k) ==
    [v \in Worker |-> IF workers[v].type = k THEN 0 ELSE LoadTime * Unit]

FreeAt(k) ==
    [v \in Worker |-> Positive(workers[v].end - now) * Unit
                        + IF workers[v].type = k THEN 0 ELSE LoadTime * Unit]

IsLowest(arr, w) == \A v \in Worker : arr[w] <= arr[v]

LowestOf(arr) == CHOOSE v \in Worker :
    /\ IsLowest(arr, v)
    /\ \A u \in Worker : IsLowest(arr, u) => v <= u

AddToLowest(arr, t) ==
    [arr EXCEPT ![LowestOf(arr)] =
        @ + t.duration * RtFactor * Unit - Waited(t) * DelayCost]

\* One task of a type: `choice' is [task, at, over], over ending the type.
Look(w, choice, t) ==
    IF choice.over THEN choice
    ELSE IF IsLowest(choice.arr, w) /\ choice.arr[w] < choice.at
         THEN [choice EXCEPT !.task = t, !.at = choice.arr[w], !.over = TRUE]
         ELSE [choice EXCEPT !.arr = AddToLowest(@, t)]

ByV2(w, order) ==
    FoldLeft(LAMBDA choice, k :
                 FoldLeft(LAMBDA c, t : Look(w, c, t),
                          [choice EXCEPT !.arr = FreeAt(k), !.over = FALSE],
                          order[k]),
             [task |-> None, at |-> CostMax, arr |-> <<>>, over |-> FALSE],
             SortedKeys).task

GetTaskByV2(w) ==
    {ByV2(w, order) :
        order \in {f \in [Keys -> UNION {Orders(k) : k \in Keys}] :
                      \A k \in Keys : f[k] \in Orders(k)}}

\* The tasks that FindBest may select for a worker, None for none.  A task of
\* no type is not told from no task by getBest.
FindBest(w) ==
    (UNION {Oldest(k) : k \in GetBest(w) \ {NoType}})
        \cup IF GetBest(w) = {} \/ NoType \in GetBest(w) THEN GetTaskByV2(w) ELSE {}

-----------------------------------------------------------------------------
\* Any workers, idle or not for how long, and any tasks.
Init ==
    /\ todo \in SUBSET Task
    /\ workers \in [Worker -> [type : {NoModel} \cup ({t.type : t \in Task} \ {NoType}),
                               end : {0}, working : {FALSE}]]
    /\ now = 0

\* The worker has the model of its task then; of an untyped one it has none.
ModelOf(t) == IF t.type = NoType THEN NoModel ELSE t.type

Started(w, t) ==
    [workers EXCEPT ![w] =
        [type |-> ModelOf(t), working |-> TRUE,
         end |-> now + t.duration * RtFactor + IF @.type = t.type THEN 0 ELSE LoadTime]]

\* `changed' asks for an idle worker; a task it finds is started there.
Changed(w) ==
    /\ ~workers[w].working
    /\ \E t \in FindBest(w) \ {None} :
          /\ todo' = todo \ {t}
          /\ workers' = Started(w, t)
    /\ UNCHANGED now

\* completeTask, sooner or later than expected.
CompleteTask(w) ==
    /\ workers[w].working
    /\ workers' = [workers EXCEPT ![w].working = FALSE, ![w].end = now]
    /\ UNCHANGED <<todo, now>>

Tick ==
    /\ now < MaxNow
    /\ now' = now + 1
    /\ UNCHANGED <<todo, workers>>

Next == (\E w \in Worker : Changed(w) \/ CompleteTask(w)) \/ Tick

Idle == {w \in Worker : ~workers[w].working}

-----------------------------------------------------------------------------
\* The strategy never leaves all workers idle while a task waits: it finds
\* one for some of them.  This is what the dispatcher relies on when it lets
\* a worker wait (MayWait in module Dispatcher).
SomeIdleIsServed ==
    Idle = Worker /\ todo # {} => \E w \in Worker : None \notin FindBest(w)

\* An idle worker that gets nothing is right to wait: every type of task
\* that waits has its model at another worker, which is expected to be free
\* before this one could load it.
WaitsForSooner ==
    \A w \in Idle : None \in FindBest(w) =>
        \A t \in todo : \E v \in Worker \ {w} :
            /\ workers[v].type = t.type
            /\ workers[v].end - now < LoadTime

\* A task of no type has waited no less: getBest may come to it first, which
\* looks like nothing found (`bg' is "").
Hidden(u) == \E z \in todo : z.type = NoType /\ Waited(z) >= Waited(u)

\* A task whose waiting has cost more than the loading of a model, compared
\* to the one that is selected, is passed over only by a worker that would
\* load its model while another one has it, unless a task of no type hides it.
NotPassedOver ==
    \A w \in Idle : \A t \in FindBest(w) \ {None} : \A u \in todo :
        Waited(u) * DelayCost > Waited(t) * DelayCost + LoadTime * Unit =>
            \/ Hidden(u)
            \/ /\ workers[w].type # u.type
               /\ \E v \in Worker : workers[v].type = u.type

\* The choice of the strategy is right for each worker that is idle.
ChoiceIsRight == SomeIdleIsServed /\ WaitsForSooner /\ NotPassedOver
=============================================================================
