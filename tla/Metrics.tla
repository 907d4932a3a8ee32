------------------------------- MODULE Metrics -------------------------------
(***************************************************************************)
(* The metrics service: workers post the start and the end of a task, in   *)
(* requests that may be repeated and may come in any order; the service    *)
(* keeps the open starts, observes a duration when an end meets a start,   *)
(* and forgets starts nobody ends.  Each handler holds the lock.  A task   *)
(* that is delivered again runs again under its id.                        *)
(***************************************************************************)
EXTENDS Naturals, Integers, FiniteSets, Sequences, SequencesExt

CONSTANTS
    Tracked,        \* the tasks: an id under a worker, a task and a model
    KeyOf,          \* its worker, task and model
    Length,         \* how long each takes, in hours
    MaxHours,       \* how far time goes
    MaxRuns,        \* how often it is run
    MaxPosts,       \* how many starts and how many ends of each are posted
    None

VARIABLES
    dMap,           \* the keys that have a map, and in it the open starts
    hour,           \* the time
    runs,           \* when its runs began
    starts, ends,   \* the start and end requests that were posted for it
    tasksStarted, tasksEnded,
    observed        \* the durations observed for it

metricVars == <<dMap, hour, runs, starts, ends, tasksStarted, tasksEnded, observed>>

Key == {KeyOf[p] : p \in Tracked}

Init ==
    /\ dMap = [k \in {} |-> [p \in {} |-> None]]
    /\ hour = 0
    /\ runs = [p \in Tracked |-> {}]
    /\ starts = [p \in Tracked |-> 0]
    /\ ends = [p \in Tracked |-> 0]
    /\ tasksStarted = [k \in Key |-> 0]
    /\ tasksEnded = [k \in Key |-> 0]
    /\ observed = [p \in Tracked |-> <<>>]

\* A map with an entry more, and with one less.
With(f, x, y) == [z \in DOMAIN f \cup {x} |-> IF z = x THEN y ELSE f[z]]
Without(f, x) == [z \in DOMAIN f \ {x} |-> f[z]]

Open(k) == IF k \in DOMAIN dMap THEN dMap[k] ELSE [p \in {} |-> None]

\* validate: the time stamp is at most two hours old and not of the future
\* (by more than a minute, which is none of these hours).
Recent(stamp) == stamp + 2 >= hour
Valid(stamp) == Recent(stamp) /\ stamp <= hour

\* A run of the task begins.
Begin(p) ==
    /\ Cardinality(runs[p]) < MaxRuns
    /\ runs' = [runs EXCEPT ![p] = @ \cup {hour}]
    /\ runs' # runs
    /\ UNCHANGED <<dMap, hour, starts, ends, tasksStarted, tasksEnded, observed>>

\* Its start is posted; the one of an earlier run is written over.
Start(p) ==
    LET k == KeyOf[p] IN
    \E b \in runs[p] :
        /\ starts[p] < MaxPosts[p]
        /\ Valid(b)
        /\ starts' = [starts EXCEPT ![p] = @ + 1]
        /\ tasksStarted' = [tasksStarted EXCEPT ![k] = @ + 1]
        /\ dMap' = With(dMap, k, With(Open(k), p, [stamp |-> b, added |-> hour]))
        /\ UNCHANGED <<hour, runs, ends, tasksEnded, observed>>

\* Mutant of Closed: the start is not deleted.
KeptOpen(p) == dMap

\* An end that meets a start deletes it.
Closed(p) == With(dMap, KeyOf[p], Without(Open(KeyOf[p]), p))

\* The end is of an open start, and not before it.
Ended(p, stamp) ==
    p \in DOMAIN Open(KeyOf[p]) /\ Open(KeyOf[p])[p].stamp <= stamp

\* The end of a run is posted; an end without a start is only counted.
End(p) ==
    LET k == KeyOf[p] IN
    \E b \in runs[p] :
        LET stamp == b + Length[p] IN
        /\ ends[p] < MaxPosts[p]
        /\ Valid(stamp)
        /\ ends' = [ends EXCEPT ![p] = @ + 1]
        /\ tasksEnded' = [tasksEnded EXCEPT ![k] = @ + 1]
        /\ IF Ended(p, stamp)
           THEN /\ observed' = [observed EXCEPT ![p] = Append(@, stamp - Open(k)[p].stamp)]
                /\ dMap' = Closed(p)
           ELSE UNCHANGED <<observed, dMap>>
        /\ UNCHANGED <<hour, runs, starts, tasksStarted>>

\* checkForExpired, every hour: starts of more than three hours ago are
\* forgotten, and the keys that have none left.
Fresh(k) == {p \in DOMAIN dMap[k] : dMap[k][p].added + 3 >= hour + 1}

Hour ==
    /\ hour < MaxHours
    /\ hour' = hour + 1
    /\ dMap' = [k \in {j \in DOMAIN dMap : Fresh(j) # {}} |->
                   [p \in Fresh(k) |-> dMap[k][p]]]
    /\ UNCHANGED <<runs, starts, ends, tasksStarted, tasksEnded, observed>>

Next == Hour \/ \E p \in Tracked : Begin(p) \/ Start(p) \/ End(p)

-----------------------------------------------------------------------------
\* Every duration that is observed took a start and an end of its own, so
\* that requests posted again are not observed again, and none is negative,
\* though the end of a run may come after the start of the next.
ObservedOnce ==
    \A p \in Tracked :
        /\ Len(observed[p]) <= starts[p] /\ Len(observed[p]) <= ends[p]
        /\ Range(observed[p]) \subseteq Nat

\* The start of a task that runs once and for at most an hour is kept
\* until its end can no longer be posted, whatever is forgotten of others.
NoStartIsLost ==
    \A p \in Tracked : \A b \in runs[p] :
        /\ starts[p] > 0 /\ Cardinality(runs[p]) = 1
        /\ Length[p] <= 1 /\ Recent(b + Length[p])
        => observed[p] # <<>> \/ p \in DOMAIN Open(KeyOf[p])

\* Each task is measured once, and none is missed that can be measured.
TasksAreMeasured == ObservedOnce /\ NoStartIsLost
=============================================================================
