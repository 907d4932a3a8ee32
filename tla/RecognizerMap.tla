---------------------------- MODULE RecognizerMap ----------------------------
(***************************************************************************)
(* The map from recognizer keys to recognizers that the upload service     *)
(* reads from a file, and the cache of what is known of them.  A watcher   *)
(* loads the file again when it is written; requests read the map under    *)
(* vLock and the cache under a lock of its own.                            *)
(***************************************************************************)
EXTENDS Naturals, FiniteSets

CONSTANTS
    Versions,       \* how often the file is written
    Broken,         \* the versions that are no map
    BadInfo,        \* those that name a recognizer without an info file
    Caller,         \* clients that ask for all recognizers
    MaxCalls,       \* how often each does
    Faults, MaxFaults, None

VARIABLES
    file,           \* the version in the file
    noticed,        \* the last version that was written under the watch, None
                    \* when the reading it asked for has failed
    events,         \* write events the watcher has not read
    mpc,            \* where the watcher is
    copyV,          \* the version it has read
    vLock,          \* whether it holds vLock for writing
    v,              \* the version that requests use
    cLock,          \* the holder of the cache's lock
    needsReload,
    cached,         \* the version whose recognizers are cached
    lastErr,
    gpc,            \* where a client's request is
    calls,          \* the requests of a client
    faults

mapVars == <<file, noticed, events, mpc, copyV, vLock, v, cLock, needsReload, cached,
             lastErr, gpc, calls>>

Fault(kind) ==
    /\ kind \in Faults \ faults
    /\ Cardinality(faults) < MaxFaults
    /\ faults' = faults \cup {kind}

-----------------------------------------------------------------------------
Init ==
    /\ file = 0
    /\ noticed = None
    /\ events = 0
    /\ mpc = "init"
    /\ copyV = None
    /\ vLock = FALSE
    /\ v = None
    /\ cLock = None
    /\ needsReload = TRUE
    /\ cached = None
    /\ lastErr = FALSE
    /\ gpc = [c \in Caller |-> "start"]
    /\ calls = [c \in Caller |-> 0]

callVars == <<gpc, calls>>
cacheVars == <<cached, lastErr>>

\* newFileRecognizerMap reads the file, and then has it watched.  A service
\* that cannot read it stops, and reads it again when it is started anew.
ReadFirst ==
    /\ mpc = "init"
    /\ file \notin Broken
    /\ v' = file
    /\ mpc' = "add"
    /\ UNCHANGED <<file, noticed, events, copyV, vLock, cLock, needsReload, cacheVars,
                   callVars, faults>>

AddWatcher ==
    /\ mpc = "add"
    /\ mpc' = "wait"
    /\ UNCHANGED <<file, noticed, events, copyV, vLock, v, cLock, needsReload,
                   cacheVars, callVars, faults>>

\* Somebody writes the file; there is no event before it is watched, and the
\* events of two writes may come as one.
Started == mpc \notin {"init", "add"}

WriteFile ==
    /\ file < Versions
    /\ file' = file + 1
    /\ IF Started
       THEN /\ noticed' = file'
            /\ events' \in {events + 1, IF events = 0 THEN 1 ELSE events}
       ELSE UNCHANGED <<noticed, events>>
    /\ UNCHANGED <<mpc, copyV, vLock, v, cLock, needsReload, cacheVars, callVars, faults>>

\* onConfigChange: with vLock, the file is read; what is no map is not used.
OnConfigChange ==
    /\ mpc = "wait"
    /\ events > 0
    /\ events' = events - 1
    /\ mpc' = "read"
    /\ vLock' = TRUE
    /\ UNCHANGED <<file, noticed, copyV, v, cLock, needsReload, cacheVars, callVars, faults>>

\* The reading itself may fail too, and is not repeated.
InitViper ==
    /\ mpc = "read"
    /\ \/ /\ file \notin Broken
          /\ mpc' = "swap" /\ copyV' = file
          /\ UNCHANGED <<vLock, noticed, faults>>
       \/ /\ \/ file \in Broken /\ UNCHANGED <<noticed, faults>>
             \/ Fault("read") /\ noticed' = IF events = 0 THEN None ELSE noticed
          /\ mpc' = "wait" /\ vLock' = FALSE
          /\ UNCHANGED copyV
    /\ UNCHANGED <<file, events, v, cLock, needsReload, cacheVars, callVars>>

\* Mutant of Swap: the cache's lock is not waited for.
SwapUnlocked ==
    /\ mpc = "swap"
    /\ v' = copyV
    /\ needsReload' = TRUE
    /\ mpc' = "wait"
    /\ copyV' = None
    /\ vLock' = FALSE
    /\ UNCHANGED <<file, noticed, events, cLock, cacheVars, callVars, faults>>

Swap ==
    /\ mpc = "swap"
    /\ cLock = None
    /\ v' = copyV
    /\ needsReload' = TRUE
    /\ mpc' = "wait"
    /\ copyV' = None
    /\ vLock' = FALSE
    /\ UNCHANGED <<file, noticed, events, cLock, cacheVars, callVars, faults>>

Watcher == ReadFirst \/ AddWatcher \/ OnConfigChange \/ InitViper \/ Swap

-----------------------------------------------------------------------------
GetAll(c) ==
    /\ Started
    /\ gpc[c] = "start"
    /\ calls[c] < MaxCalls
    /\ calls' = [calls EXCEPT ![c] = @ + 1]
    /\ cLock = None
    /\ cLock' = c
    /\ gpc' = [gpc EXCEPT ![c] = IF needsReload THEN "reload" ELSE "answer"]
    /\ UNCHANGED <<file, noticed, events, mpc, copyV, vLock, v, needsReload, cacheVars,
                   faults>>

\* The settings of the map are taken; then reload marks the cache as loaded
\* and reads the info files.  An error is remembered until the map changes.
Reload(c) ==
    /\ gpc[c] = "reload"
    /\ cached' = v
    /\ gpc' = [gpc EXCEPT ![c] = "load"]
    /\ UNCHANGED <<file, noticed, events, mpc, copyV, vLock, v, cLock, needsReload, lastErr,
                   calls, faults>>

Load(c) ==
    /\ gpc[c] = "load"
    /\ needsReload' = FALSE
    /\ gpc' = [gpc EXCEPT ![c] = "answer"]
    /\ \/ lastErr' = (cached \in BadInfo) /\ UNCHANGED faults
       \/ Fault("info") /\ lastErr' = TRUE
    /\ UNCHANGED <<file, noticed, events, mpc, copyV, vLock, v, cLock, cached, calls>>

Answer(c) ==
    /\ gpc[c] = "answer"
    /\ gpc' = [gpc EXCEPT ![c] = "start"]
    /\ cLock' = None
    /\ UNCHANGED <<file, noticed, events, mpc, copyV, vLock, v, needsReload, cacheVars,
                   calls, faults>>

Call(c) == GetAll(c) \/ Reload(c) \/ Load(c) \/ Answer(c)

Next == WriteFile \/ Watcher \/ \E c \in Caller : Call(c)

-----------------------------------------------------------------------------
\* Between requests the cache is of the map in use, or is to be loaded anew:
\* a map that is swapped while the recognizers of the old one are loaded is
\* not lost (RecognizersCache.lock).
CacheIsOfMap == cLock = None /\ ~needsReload => cached = v
=============================================================================
