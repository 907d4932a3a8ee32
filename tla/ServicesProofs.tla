---------------------------- MODULE ServicesProofs ----------------------------
\* Proofs about the services that Services composes: the recognizer map of the
\* dispatcher (CacheIsCurrent), the punctuator (TextIsPunctuated), the status
\* service's web socket connections and its listener (EveryoneIsServed), the upload
\* service (SentIsStored), the metrics (EveryTaskIsMeasured) and the cost strategy of
\* the dispatcher (ChoiceStaysRight). Each part has an inductive invariant over its
\* own variables: a step of another part leaves them.
EXTENDS Services, PositionLemmas, SequenceTheorems, FiniteSetTheorems, TLAPS

\* A step of the services is one of the recognizer map or leaves its variables.
LEMMA MapSteps == ASSUME [Next]_vars PROVE Recognizers!Next \/ UNCHANGED mapVars
  BY DEF Next, vars, UploadStep, CleanStep, InformStep, EventStep, CostStep, PunctStep,
         MapStep, MeterStep

\* A client past the first step of its request holds the cache's lock, and no map
\* is swapped while it does: what it loads is the map in use, and what is cached
\* is of the map in use unless it is to be loaded anew. Nothing is asked before the
\* file is read and watched.
CacheInv ==
    /\ gpc \in [Caller -> {"start", "reload", "load", "answer"}]
    /\ mpc \in {"init", "add"} => needsReload /\ cLock = None
    /\ \A c \in Caller : gpc[c] # "start" => cLock = c
    /\ \A c \in Caller : gpc[c] = "load" => cached = v
    /\ ~needsReload => cached = v

\* Every step keeps it.
LEMMA CacheStep == CacheInv /\ [Next]_vars => CacheInv'
<1> SUFFICES ASSUME CacheInv, [Next]_vars PROVE CacheInv'
  OBVIOUS
<1> USE DEF CacheInv, Recognizers!callVars, Recognizers!cacheVars
<1>1. CASE Recognizers!WriteFile
  BY <1>1 DEF Recognizers!WriteFile
<1>2. CASE Recognizers!Watcher
  BY <1>2, ServicesAssumption DEF Recognizers!Watcher, Recognizers!ReadFirst, Recognizers!AddWatcher,
     Recognizers!OnConfigChange, Recognizers!InitViper, Recognizers!Swap
<1>3. ASSUME NEW c \in Caller, Recognizers!Call(c) PROVE CacheInv'
  <2>1. CASE Recognizers!GetAll(c)
    BY <2>1, ServicesAssumption DEF Recognizers!GetAll, Recognizers!Started
  <2>2. CASE Recognizers!Reload(c)
    BY <2>2 DEF Recognizers!Reload
  <2>3. CASE Recognizers!Load(c)
    BY <2>3, ServicesAssumption DEF Recognizers!Load
  <2>4. CASE Recognizers!Answer(c)
    BY <2>4 DEF Recognizers!Answer
  <2>5. QED
    BY <1>3, <2>1, <2>2, <2>3, <2>4 DEF Recognizers!Call
<1>4. CASE UNCHANGED mapVars
  BY <1>4 DEF mapVars
<1>5. QED
  BY <1>1, <1>2, <1>3, <1>4, MapSteps DEF Recognizers!Next

\* Between requests the cache is of the map in use or is to be loaded anew,
\* however writes of the file, the watcher and the requests of any number of
\* clients interleave: Swap waits for the lock that a client holds from GetAll to
\* Answer (RecognizersCache.lock).
THEOREM CacheIsCurrent == Spec => []CacheIsOfMap
<1>1. Init => CacheInv
  BY DEF Init, Recognizers!Init, CacheInv
<1>2. CacheInv => CacheIsOfMap
  BY DEF CacheInv, CacheIsOfMap, Recognizers!CacheIsOfMap
<1>3. QED
  BY <1>1, <1>2, CacheStep, PTL DEF Spec
-----------------------------------------------------------------------------
\* A step of the services is one of the punctuator or leaves its variables.
LEMMA PunctSteps == ASSUME [Next]_vars PROVE Punct!Next \/ UNCHANGED punctVars
  BY DEF Next, vars, UploadStep, CleanStep, InformStep, EventStep, CostStep, PunctStep,
         MapStep, MeterStep

\* The words of a window; the model sees a sequence end word besides.
Width == timesteps - 1

\* A window of w words begins after word c: at the first word, after the end of a
\* sentence, or right after a whole window that had none.
Begins(ms, at, w, c) ==
    \/ c = 0
    \/ ms[c] \in SentenceEnd
    \/ /\ c >= w
       /\ \A j \in (c - w + 1) .. c : ms[j] \notin SentenceEnd /\ at[j] = c - w + 1

\* Word k has its mark, and it was made by a window that begins at a right place
\* and reaches over k.
Whole(k) ==
    /\ marks[k] \in Mark
    /\ madeAt[k] \in 1 .. k /\ k < madeAt[k] + Width
    /\ Begins(marks, madeAt, Width, madeAt[k] - 1)

\* The marks are made from the first word on: those up to ci are whole, and the
\* next window begins after ci.
PunctInv ==
    /\ length \in Nat /\ timesteps \in Nat /\ timesteps >= 3 /\ ci \in Nat
    /\ marks \in [1 .. length -> Mark \cup {Unset}] /\ madeAt \in [1 .. length -> Nat]
    /\ ppc = "done" => ci >= length
    /\ \A k \in 1 .. length : k <= ci => Whole(k)
    /\ ci < length => Begins(marks, madeAt, Width, ci)

\* One call of the network: the marks of its window up to the last end of a
\* sentence, or of all of it when it has none.
LEMMA InvokeKeeps == ASSUME PunctInv, Punct!Invoke PROVE PunctInv'
<1> DEFINE n == Punct!InText
<1>1. /\ Width \in Nat /\ Width >= 2 /\ Width' = Width /\ Punct!Width = Width
      /\ length' = length /\ timesteps' = timesteps /\ ppc' = ppc /\ ppc = "run"
  BY DEF PunctInv, Punct!Invoke, Width, Punct!Width
<1>2. /\ n \in 1 .. Width /\ ci + n <= length /\ ci < length
      /\ n # Width => ci + n = length
      /\ ci + n # length => n = Width
  BY <1>1 DEF PunctInv, Punct!InText, Punct!Invoke
<1>3. PICK res \in [1 .. Width -> Mark] :
          /\ marks' = [k \in 1 .. length |->
                IF k \in (ci + 1) .. (ci + n) THEN res[k - ci] ELSE marks[k]]
          /\ madeAt' = [k \in 1 .. length |->
                IF k \in (ci + 1) .. (ci + n) THEN ci + 1 ELSE madeAt[k]]
          /\ ci' = Punct!NextCi(res)
  BY <1>1 DEF Punct!Invoke
<1> HIDE DEF n
<1>4. /\ marks' \in [1 .. length -> Mark \cup {Unset}] /\ madeAt' \in [1 .. length -> Nat]
  BY <1>1, <1>2, <1>3 DEF PunctInv
<1>5. \A k \in 1 .. ci : marks'[k] = marks[k] /\ madeAt'[k] = madeAt[k]
  BY <1>2, <1>3 DEF PunctInv
<1>6. \A k \in (ci + 1) .. (ci + n) : marks'[k] = res[k - ci] /\ madeAt'[k] = ci + 1
  BY <1>2, <1>3 DEF PunctInv
<1>7. \A c \in 0 .. ci : Begins(marks, madeAt, Width, c) => Begins(marks', madeAt', Width, c)
  BY <1>1, <1>5 DEF Begins, PunctInv
<1>8. \A k \in 1 .. ci : Whole(k)'
  <2> SUFFICES ASSUME NEW k \in 1 .. ci PROVE Whole(k)'
    OBVIOUS
  <2>1. k \in 1 .. length /\ Whole(k)
    BY <1>2 DEF PunctInv
  <2>2. madeAt[k] - 1 \in 0 .. ci /\ Begins(marks, madeAt, Width, madeAt[k] - 1)
    BY <2>1 DEF Whole, PunctInv
  <2>3. Begins(marks', madeAt', Width, madeAt[k] - 1)
    BY <1>7, <2>2
  <2>4. marks'[k] = marks[k] /\ madeAt'[k] = madeAt[k]
    BY <1>5
  <2>5. QED
    BY <1>1, <2>1, <2>3, <2>4 DEF Whole
<1>9. \A k \in (ci + 1) .. (ci + n) : Whole(k)'
  <2> SUFFICES ASSUME NEW k \in (ci + 1) .. (ci + n) PROVE Whole(k)'
    OBVIOUS
  <2>1. marks'[k] \in Mark /\ madeAt'[k] = ci + 1 /\ madeAt'[k] \in 1 .. k
    BY <1>1, <1>2, <1>3, <1>6 DEF PunctInv
  <2>2. k < madeAt'[k] + Width
    BY <1>1, <1>2, <2>1 DEF PunctInv
  <2>3. Begins(marks, madeAt, Width, ci)
    BY <1>2 DEF PunctInv
  <2>4. Begins(marks', madeAt', Width, ci)
    BY <1>7, <2>3 DEF PunctInv
  <2>5. madeAt'[k] - 1 = ci
    BY <2>1 DEF PunctInv
  <2>6. QED
    BY <1>1, <2>1, <2>2, <2>4, <2>5 DEF Whole
<1>10. \/ ci' = ci + Width /\ (ci + n = length \/ \A i \in 1 .. n : res[i] \notin SentenceEnd)
       \/ \E i \in 1 .. n : ci' = ci + i /\ res[i] \in SentenceEnd
  <2> DEFINE E == {i \in 1 .. n : res[i] \in SentenceEnd}
  <2>1. Punct!Ends(res) = E
    BY DEF Punct!Ends, n
  <2>2. CASE E = {} \/ ci + n = length
    BY <1>1, <1>3, <2>1, <2>2 DEF Punct!NextCi, n
  <2>3. CASE ~(E = {} \/ ci + n = length)
    <3>1. \E i \in E : \A j \in E : j <= i
      <4>1. n \in Nat /\ E \subseteq 1 .. n
        BY <1>1, <1>2
      <4>2. QED
        BY <2>3, <4>1, LargestOf
    <3>2. Punct!LastEnd(res) \in E
      BY <2>1, <3>1 DEF Punct!LastEnd
    <3>3. ci' = ci + Punct!LastEnd(res)
      BY <1>3, <2>1, <2>3 DEF Punct!NextCi, n
    <3>4. QED
      BY <3>2, <3>3
  <2>4. QED
    BY <2>2, <2>3
<1>11. ci' \in Nat /\ ci' >= ci /\ (ci' <= ci + n \/ ci + n = length)
  BY <1>1, <1>2, <1>10 DEF PunctInv
<1>12. ASSUME ci' < length PROVE Begins(marks', madeAt', Width, ci')
  <2>1. CASE \E i \in 1 .. n : ci' = ci + i /\ res[i] \in SentenceEnd
    <3>1. marks'[ci'] \in SentenceEnd
      BY <1>1, <1>2, <1>6, <2>1 DEF PunctInv
    <3>2. QED
      BY <3>1 DEF Begins
  <2>2. CASE ci' = ci + Width /\ \A i \in 1 .. n : res[i] \notin SentenceEnd
    <3>1. n = Width
      BY <1>1, <1>2, <1>12, <2>2 DEF PunctInv
    <3>2. ci' >= Width /\ ci' - Width = ci /\ ci' = ci + n
      BY <1>1, <2>2, <3>1 DEF PunctInv
    <3>3. \A j \in (ci' - Width + 1) .. ci' :
              marks'[j] \notin SentenceEnd /\ madeAt'[j] = ci' - Width + 1
      BY <1>1, <1>2, <1>6, <2>2, <3>2 DEF PunctInv
    <3>4. QED
      BY <1>1, <3>2, <3>3 DEF Begins
  <2>3. CASE ci' = ci + Width /\ ci + n = length
    BY <1>1, <1>2, <1>12, <2>3 DEF PunctInv
  <2>4. QED
    BY <1>10, <2>1, <2>2, <2>3
<1>13. \A k \in 1 .. length : k <= ci' => Whole(k)'
  BY <1>2, <1>8, <1>9, <1>11 DEF PunctInv
<1>14. QED
  BY <1>1, <1>4, <1>11, <1>12, <1>13 DEF PunctInv

\* What the other steps leave alone.
LEMMA PunctStays == ASSUME PunctInv, UNCHANGED <<length, timesteps, ci, marks, madeAt>>,
                           ppc' = "done" => ci >= length
                    PROVE  PunctInv'
  BY DEF PunctInv, Whole, Begins, Width

\* Every step keeps it.
LEMMA PunctKeeps == PunctInv /\ [Next]_vars => PunctInv'
<1> SUFFICES ASSUME PunctInv, [Next]_vars PROVE PunctInv'
  OBVIOUS
<1>1. CASE Punct!InvokeFails \/ Punct!Done \/ UNCHANGED punctVars
  BY <1>1, PunctStays DEF Punct!InvokeFails, Punct!Done, punctVars, PunctInv
<1>2. QED
  BY <1>1, InvokeKeeps, PunctSteps DEF Punct!Next, Punct!Punctuate

\* Before the first window no mark is made.
LEMMA PunctStarts == Init => PunctInv
<1> SUFFICES ASSUME Init PROVE PunctInv
  OBVIOUS
<1>1. CASE part = "punctuation"
  <2>1. length \in 0 .. MaxWords /\ timesteps \in Timesteps /\ ci = 0 /\ ppc = "run"
    BY <1>1 DEF Init, PunctInit, Punct!Init
  <2>2. marks = [k \in 1 .. length |-> Unset] /\ madeAt = [k \in 1 .. length |-> 0]
    BY <1>1 DEF Init, PunctInit, Punct!Init
  <2>3. QED
    BY <2>1, <2>2, ServicesAssumption DEF PunctInv, Begins
<1>2. CASE part # "punctuation"
  <2>1. length = 0 /\ timesteps = 3 /\ ci = 0 /\ ppc = "done" /\ marks = <<>> /\ madeAt = <<>>
    BY <1>2 DEF Init, PunctInit
  <2>2. <<>> \in [1 .. 0 -> Mark \cup {Unset}] /\ <<>> \in [1 .. 0 -> Nat]
    BY EmptySeq, LenProperties
  <2>3. QED
    BY <2>1, <2>2 DEF PunctInv
<1>3. QED
  BY <1>1, <1>2

\* A punctuated text has a mark of the model at every word, given by a window that
\* began at a word with a capital or right after a whole window without a sentence
\* end, for texts of any length, windows of any width and every answer of the model
\* (punctuation.PunctuatorImpl, fillResult).
THEOREM TextIsPunctuated == Spec => []MarksAreWhole
<1>1. PunctInv => MarksAreWhole
  <2> SUFFICES ASSUME PunctInv, ppc = "done", NEW k \in 1 .. length
               PROVE  /\ marks[k] # Unset /\ k < madeAt[k] + Punct!Width
                      /\ \/ madeAt[k] \in Punct!Capital
                         \/ \A j \in (madeAt[k] - Punct!Width)..(madeAt[k] - 1) :
                                 /\ marks[j] \notin SentenceEnd
                                 /\ madeAt[j] = madeAt[k] - Punct!Width
    BY DEF MarksAreWhole, Punct!MarksAreWhole
  <2>1. Whole(k) /\ Punct!Width = Width
    BY DEF PunctInv, Width, Punct!Width
  <2>2. madeAt[k] \in 1 .. length
    BY <2>1 DEF PunctInv, Whole
  <2>3. marks[k] # Unset
    BY <2>1, ServicesAssumption DEF Whole
  <2>4. CASE madeAt[k] - 1 = 0 \/ marks[madeAt[k] - 1] \in SentenceEnd
    <3>1. madeAt[k] \in Punct!Capital
      BY <2>2, <2>4 DEF Punct!Capital
    <3>2. QED
      BY <2>1, <2>3, <3>1 DEF Whole
  <2>5. CASE ~(madeAt[k] - 1 = 0 \/ marks[madeAt[k] - 1] \in SentenceEnd)
    <3>1. \A j \in (madeAt[k] - 1 - Width + 1) .. (madeAt[k] - 1) :
              marks[j] \notin SentenceEnd /\ madeAt[j] = madeAt[k] - 1 - Width + 1
      BY <2>1, <2>5 DEF Whole, Begins
    <3>2. madeAt[k] - 1 - Width + 1 = madeAt[k] - Width
      BY <2>2 DEF PunctInv, Width
    <3>3. QED
      BY <2>1, <2>3, <3>1, <3>2 DEF Whole
  <2>6. QED
    BY <2>4, <2>5
<1>2. QED
  BY <1>1, PunctStarts, PunctKeeps, PTL DEF Spec
-----------------------------------------------------------------------------
\* A step of the services is one of the status service or leaves its variables.
LEMMA EventSteps == ASSUME [Next]_vars PROVE Status!Next \/ UNCHANGED eventVars
  BY DEF Next, vars, UploadStep, CleanStep, InformStep, EventStep, CostStep, PunctStep,
         MapStep, MeterStep

\* A message about t waits in the queue.
Waits(q, t) == \E k \in DOMAIN q : q[k] = t

\* Types of the connections, and the agreement of their two maps
\* (saveConnection, deleteConnection).
ConnTypes ==
    /\ connectionID \in [Conn -> Topic \cup {None}]
    /\ idConnections \in [Topic -> SUBSET Conn]
    /\ cpc \in [Conn -> {"open", "closing", "closed"}]
    /\ Status!MapsAgree

\* What the listener has: the event it works on and the status it read for it,
\* which is no newer than the one in the database.
ListenTypes ==
    /\ current \in [Topic -> Nat] /\ announced \in [Topic -> Nat]
    /\ \A t \in Topic : announced[t] <= current[t]
    /\ queue \in Seq(Topic)
    /\ event \in Topic \cup {None}
    /\ result \in Nat \cup {None}
    /\ (lpc = "event") = (event # None)
    /\ result # None => event # None /\ result <= current[event]
    /\ result = None => visited = {}
    /\ shown \in [Conn -> Nat \cup {None}]

\* An open connection that subscribes to t and missed nothing was written its newest
\* status, or something is on the way that will write it: a change that is not
\* published yet, an event in the queue, an event whose status is not read yet, or
\* the listener, with the newest status, before it. A listener with an older status
\* has a newer one behind it.
Served(c, t) ==
    connectionID[c] = t /\ c \notin missed =>
        /\ cpc[c] = "open" =>
              \/ shown[c] = current[t]
              \/ announced[t] < current[t]
              \/ Waits(queue, t)
              \/ event = t /\ result = None
              \/ event = t /\ result = current[t] /\ c \in toSend \ visited
        /\ event = t /\ result # None =>
              result = current[t] \/ announced[t] < current[t] \/ Waits(queue, t)

\* The invariant of the status service.
EventInv ==
    /\ ConnTypes
    /\ ListenTypes
    /\ \A c \in Conn, t \in Topic : Served(c, t)

\* A message put in a queue waits there, and those before it still do.
LEMMA WaitsAppend ==
    ASSUME NEW q \in Seq(Topic), NEW x \in Topic, NEW t
    PROVE  /\ Append(q, x) \in Seq(Topic)
           /\ Waits(q, t) \/ t = x => Waits(Append(q, x), t)
<1>1. /\ Append(q, x) \in Seq(Topic) /\ Len(Append(q, x)) = Len(q) + 1
      /\ \A i \in 1 .. Len(q) : Append(q, x)[i] = q[i]
      /\ Append(q, x)[Len(q) + 1] = x
  BY AppendProperties
<1>2. DOMAIN q = 1 .. Len(q) /\ DOMAIN Append(q, x) = 1 .. Len(q) + 1 /\ Len(q) \in Nat
  BY <1>1, LenProperties
<1>3. QED
  BY <1>1, <1>2 DEF Waits

\* The first message of a queue taken, the others still wait.
LEMMA WaitsTail ==
    ASSUME NEW q \in Seq(Topic), q # <<>>, NEW t
    PROVE  /\ Head(q) \in Topic /\ Tail(q) \in Seq(Topic)
           /\ Waits(q, t) => Head(q) = t \/ Waits(Tail(q), t)
<1>1. /\ Head(q) \in Topic /\ Tail(q) \in Seq(Topic) /\ Len(Tail(q)) = Len(q) - 1
      /\ \A i \in 1 .. Len(Tail(q)) : Tail(q)[i] = q[i + 1]
  BY HeadTailProperties
<1>2. /\ DOMAIN q = 1 .. Len(q) /\ Len(q) \in Nat \ {0}
      /\ DOMAIN Tail(q) = 1 .. Len(q) - 1 /\ Head(q) = q[1]
  BY <1>1, LenProperties, EmptySeq
<1>3. ASSUME NEW k \in DOMAIN q, q[k] = t, k # 1 PROVE Waits(Tail(q), t)
  <2>1. k - 1 \in DOMAIN Tail(q) /\ Tail(q)[k - 1] = q[k]
    BY <1>1, <1>2, <1>3
  <2>2. QED
    BY <1>3, <2>1 DEF Waits
<1>4. QED
  BY <1>1, <1>2, <1>3 DEF Waits

\* The steps of a connection: it subscribes, and missed what is not on the way, is
\* closed, and is deleted from the maps.
LEMMA ConnSteps ==
    ASSUME EventInv, NEW c \in Conn, Status!Connection(c)
    PROVE  EventInv'
<1> USE DEF EventInv, ConnTypes, Status!MapsAgree, Status!busVars, Status!listenVars,
            Status!clientVars
<1>1. ASSUME NEW t \in Topic, Status!Subscribe(c, t) PROVE EventInv'
  <2>1. ConnTypes'
    BY <1>1, ServicesAssumption DEF Status!Subscribe, Status!Subscribed, Status!Without
  <2>2. ListenTypes'
    BY <1>1 DEF Status!Subscribe, ListenTypes
  <2>3. ASSUME NEW b \in Conn, NEW s \in Topic PROVE Served(b, s)'
    <3>1. CASE b = c
      <4>1. /\ connectionID'[b] = t
            /\ b \notin missed' => Waits(queue, t) \/ (event = t /\ result = None)
        BY <1>1, <3>1 DEF Status!Subscribe, Status!Coming, Status!Queued, Waits
      <4>2. UNCHANGED <<queue, event, result>>
        BY <1>1 DEF Status!Subscribe
      <4>3. QED
        BY <4>1, <4>2 DEF Served, Waits
    <3>2. CASE b # c
      <4>1. Served(b, s)
        OBVIOUS
      <4>2. connectionID'[b] = connectionID[b] /\ shown'[b] = shown[b]
            /\ (b \in missed') = (b \in missed)
        BY <1>1, <3>2 DEF Status!Subscribe, ListenTypes
      <4>3. UNCHANGED <<cpc, current, announced, queue, event, result, toSend, visited>>
        BY <1>1 DEF Status!Subscribe
      <4>4. QED
        BY <4>1, <4>2, <4>3 DEF Served, Waits
    <3>3. QED
      BY <3>1, <3>2
  <2>4. QED
    BY <2>1, <2>2, <2>3
<1>2. CASE Status!CloseConn(c) \/ Status!DeleteConnection(c)
  <2>1. ConnTypes'
    BY <1>2, ServicesAssumption DEF Status!CloseConn, Status!DeleteConnection, Status!Without
  <2>2. ListenTypes'
    BY <1>2 DEF Status!CloseConn, Status!DeleteConnection, ListenTypes
  <2>3. ASSUME NEW b \in Conn, NEW s \in Topic PROVE Served(b, s)'
    <3>1. Served(b, s)
      OBVIOUS
    <3>2. /\ cpc'[b] = "open" => cpc[b] = "open"
          /\ connectionID'[b] = s => connectionID[b] = s
      BY <1>2, ServicesAssumption DEF Status!CloseConn, Status!DeleteConnection
    <3>3. UNCHANGED <<current, announced, queue, event, result, toSend, visited, shown,
                      missed>>
      BY <1>2 DEF Status!CloseConn, Status!DeleteConnection
    <3>4. QED
      BY <3>1, <3>2, <3>3 DEF Served, Waits
  <2>4. QED
    BY <2>1, <2>2, <2>3
<1>3. QED
  BY <1>1, <1>2 DEF Status!Connection

\* A status is saved, and an event about it is published after that.
LEMMA BusSteps == ASSUME EventInv, Status!Bus PROVE EventInv'
<1> USE DEF EventInv, ConnTypes, Status!connVars, Status!listenVars, Status!clientVars
<1>1. PICK t \in Topic : Status!Change(t) \/ Status!Publish(t)
  BY DEF Status!Bus
<1>2. UNCHANGED <<connectionID, idConnections, cpc, event, result, toSend, visited, shown, lpc>>
  BY <1>1 DEF Status!Change, Status!Publish
<1>3. ConnTypes'
  BY <1>2 DEF Status!MapsAgree
<1>4. CASE Status!Change(t)
  <2>1. /\ announced[t] = current[t] /\ current' = [current EXCEPT ![t] = @ + 1]
        /\ UNCHANGED <<announced, queue, missed>>
    BY <1>4 DEF Status!Change
  <2>2. ListenTypes'
    BY <1>2, <2>1 DEF ListenTypes
  <2>3. ASSUME NEW c \in Conn, NEW s \in Topic PROVE Served(c, s)'
    <3>1. Served(c, s) /\ current[t] \in Nat
      BY DEF ListenTypes
    <3>2. CASE s = t
      BY <2>1, <3>1, <3>2 DEF Served, ListenTypes
    <3>3. CASE s # t
      <4>1. current'[s] = current[s]
        BY <2>1, <3>3 DEF ListenTypes
      <4>2. QED
        BY <1>2, <2>1, <3>1, <4>1 DEF Served, Waits
    <3>4. QED
      BY <3>2, <3>3
  <2>4. QED
    BY <1>3, <2>2, <2>3
<1>5. CASE Status!Publish(t)
  <2>1. announced' = [announced EXCEPT ![t] = current[t]] /\ current' = current
    BY <1>5 DEF Status!Publish
  <2>2. \/ queue' = Append(queue, t) /\ missed' = missed \ idConnections[t]
        \/ queue' = queue /\ missed' = missed \cup idConnections[t]
    BY <1>5 DEF Status!Publish
  <2>3. queue' \in Seq(Topic)
    BY <2>2, WaitsAppend DEF ListenTypes
  <2>4. ListenTypes'
    BY <1>2, <2>1, <2>3 DEF ListenTypes
  <2>5. ASSUME NEW c \in Conn, NEW s \in Topic PROVE Served(c, s)'
    <3>1. Served(c, s)
      OBVIOUS
    <3>2. CASE s = t
      <4>1. Waits(queue', t) \/ (connectionID[c] = t => c \in missed')
        BY <2>2, WaitsAppend DEF ListenTypes, Status!MapsAgree, Waits
      <4>2. QED
        BY <1>2, <3>2, <4>1 DEF Served
    <3>3. CASE s # t
      <4>1. /\ announced'[s] = announced[s]
            /\ connectionID[c] = s /\ c \in missed => c \in missed'
        BY <2>1, <2>2, <3>3 DEF ListenTypes, Status!MapsAgree
      <4>2. Waits(queue, s) => Waits(queue', s)
        BY <2>2, WaitsAppend DEF ListenTypes
      <4>3. QED
        BY <1>2, <2>1, <3>1, <4>1, <4>2 DEF Served
    <3>4. QED
      BY <3>2, <3>3
  <2>6. QED
    BY <1>3, <2>4, <2>5
<1>6. QED
  BY <1>1, <1>4, <1>5

\* The listener's steps leave the maps and what the rest of the system wrote.
Kept == UNCHANGED <<connectionID, idConnections, cpc, current, announced>>

\* So the maps still agree.
LEMMA KeptTypes == ASSUME ConnTypes, Kept PROVE ConnTypes'
  BY DEF ConnTypes, Kept, Status!MapsAgree

\* The listener ends its work on an event, at the end of the loop or after an
\* error: the connections it did not write the newest status to are missed.
LEMMA EndSteps ==
    ASSUME EventInv, Kept, Status!EndEvent,
           UNCHANGED <<queue, shown>>, missed \subseteq missed',
           \A c \in Conn : event # None /\ c \in idConnections[event] /\ c \notin missed' =>
                 \/ Waits(queue, event)
                 \/ result # None /\ (result = current[event] => c \notin toSend \ visited)
    PROVE  EventInv'
<1>1. ConnTypes'
  BY KeptTypes DEF EventInv
<1>2. lpc' # "event" /\ event' = None /\ result' = None /\ visited' = {}
  BY DEF Status!EndEvent
<1>3. ListenTypes'
  BY <1>2 DEF EventInv, ListenTypes, Kept
<1>4. ASSUME NEW c \in Conn, NEW t \in Topic PROVE Served(c, t)'
  <2>1. Served(c, t)
    BY DEF EventInv
  <2>2. event' # t /\ queue' = queue /\ shown' = shown
    BY <1>2, ServicesAssumption
  <2>3. /\ connectionID' = connectionID /\ cpc' = cpc /\ current' = current
        /\ announced' = announced /\ (connectionID[c] = t => c \in idConnections[t])
    BY DEF Kept, EventInv, ConnTypes, Status!MapsAgree
  <2>4. event = t /\ connectionID[c] = t /\ c \notin missed' =>
            \/ Waits(queue, t)
            \/ result # None /\ (result = current[t] => c \notin toSend \ visited)
    BY <2>3, ServicesAssumption
  <2> DEFINE Shows == \/ shown[c] = current[t] \/ announced[t] < current[t]
                      \/ Waits(queue, t)
  <2>5. connectionID[c] = t /\ c \notin missed' /\ cpc[c] = "open" => Shows
    <3>1. CASE event = t
      BY <2>1, <2>4, <3>1 DEF Served
    <3>2. CASE event # t
      BY <2>1, <3>2 DEF Served
    <3>3. QED
      BY <3>1, <3>2
  <2>6. QED
    BY <2>2, <2>3, <2>5 DEF Served, Waits
<1>5. QED
  BY <1>1, <1>3, <1>4 DEF EventInv

\* The listener writes the status to one connection.
LEMMA WriteSteps == ASSUME EventInv, NEW c \in Conn, Status!Write(c) PROVE EventInv'
<1> USE DEF EventInv
<1>1. Kept /\ UNCHANGED <<queue, lpc, event, toSend, result>>
  BY DEF Status!Write, Kept, Status!connVars, Status!busVars
<1>2. /\ lpc = "event" /\ event \in Topic /\ result # None /\ result \in Nat
      /\ c \in idConnections[event] /\ visited' = visited \cup {c}
  BY DEF Status!Write, ListenTypes
<1>3. \/ /\ missed' = IF Waits(queue, event) THEN missed ELSE missed \cup {c}
         /\ shown' = shown
      \/ /\ shown' = IF cpc[c] = "open" THEN [shown EXCEPT ![c] = result] ELSE shown
         /\ missed' = missed
  BY DEF Status!Write, Status!Lost, Status!Queued, Waits
<1>4. ConnTypes'
  BY <1>1, KeptTypes
<1>5. ListenTypes'
  BY <1>1, <1>2, <1>3 DEF ListenTypes, Kept
<1>6. ASSUME NEW b \in Conn, NEW t \in Topic PROVE Served(b, t)'
  <2>1. Served(b, t)
    OBVIOUS
  <2>2. CASE b # c
    <3>1. shown'[b] = shown[b] /\ (b \in missed') = (b \in missed)
      BY <1>3, <2>2 DEF ListenTypes
    <3>2. (b \in visited') = (b \in visited)
      BY <1>2, <2>2
    <3>3. QED
      BY <1>1, <2>1, <3>1, <3>2 DEF Served, Kept, Waits
  <2>3. CASE b = c /\ t = event
    <3>1. c \notin missed' => c \notin missed
      BY <1>3
    <3>2. c \notin missed' /\ cpc[c] = "open" => shown'[c] = result \/ Waits(queue, t)
      BY <1>3, <2>3 DEF ListenTypes
    <3>3. connectionID[c] = t /\ c \notin missed =>
              result = current[t] \/ announced[t] < current[t] \/ Waits(queue, t)
      BY <1>2, <2>1, <2>3 DEF Served
    <3>4. QED
      BY <1>1, <2>3, <3>1, <3>2, <3>3 DEF Served, Kept, Waits
  <2>4. CASE b = c /\ t # event
    <3>1. connectionID[c] # t
      BY <1>2, <2>4 DEF ConnTypes, Status!MapsAgree
    <3>2. QED
      BY <1>1, <2>4, <3>1 DEF Served, Kept
  <2>5. QED
    BY <2>2, <2>3, <2>4
<1>7. QED
  BY <1>4, <1>5, <1>6

\* The steps of the listener, the loss of its channel, and the race on the maps
\* that ends the process.
LEMMA ListenSteps ==
    ASSUME EventInv, Status!Listen \/ Status!ChannelLost \/ Status!Race
    PROVE  EventInv'
<1> USE DEF EventInv, Status!connVars, Status!busVars, Status!clientVars
<1>1. ASSUME NEW c \in Conn, Status!Write(c) PROVE EventInv'
  BY <1>1, WriteSteps
<1>2. CASE Status!EndLoop
  <2>1. Kept /\ Status!EndEvent /\ UNCHANGED <<queue, shown, missed>>
    BY <1>2 DEF Status!EndLoop, Kept
  <2>2. result # None /\ toSend \cap idConnections[event] \subseteq visited
    BY <1>2 DEF Status!EndLoop
  <2>3. QED
    BY <2>1, <2>2, EndSteps
<1>3. CASE Status!Get
  <2>1. CASE Status!EndEvent /\ Status!Lost(event, idConnections[event])
    <3>1. Kept /\ UNCHANGED <<queue, shown>>
      BY <1>3 DEF Status!Get, Kept
    <3>2. missed' = IF Waits(queue, event) THEN missed ELSE missed \cup idConnections[event]
      BY <2>1 DEF Status!Lost, Status!Queued, Waits
    <3>3. QED
      BY <2>1, <3>1, <3>2, EndSteps
  <2>2. CASE /\ result' = current[event] /\ toSend' = idConnections[event]
             /\ UNCHANGED <<lpc, event, visited, missed>>
    <3>1. Kept /\ UNCHANGED <<queue, shown>> /\ lpc = "event" /\ result = None
      BY <1>3 DEF Status!Get, Kept
    <3>2. event \in Topic /\ visited = {}
      BY <3>1 DEF ListenTypes
    <3>3. ConnTypes'
      BY <3>1, KeptTypes
    <3>4. ListenTypes'
      BY <2>2, <3>1, <3>2 DEF ListenTypes, Kept
    <3>5. ASSUME NEW c \in Conn, NEW t \in Topic PROVE Served(c, t)'
      <4>1. Served(c, t) /\ (connectionID[c] = t => c \in idConnections[t])
        BY DEF ConnTypes, Status!MapsAgree
      <4>2. QED
        BY <2>2, <3>1, <3>2, <4>1 DEF Served, Kept, Waits
    <3>6. QED
      BY <3>3, <3>4, <3>5
  <2>3. QED
    BY <1>3, <2>1, <2>2 DEF Status!Get
<1>4. CASE Status!Connect \/ Status!Again
  <2>1. Kept /\ UNCHANGED <<queue, event, toSend, visited, result, shown, missed>>
    BY <1>4 DEF Status!Connect, Status!Again, Kept
  <2>2. lpc # "event" /\ lpc' # "event"
    BY <1>4 DEF Status!Connect, Status!Again, Status!Refused
  <2>3. ListenTypes'
    BY <2>1, <2>2 DEF ListenTypes, Kept
  <2>4. ASSUME NEW c \in Conn, NEW t \in Topic PROVE Served(c, t)'
    BY <2>1 DEF Served, Kept, Waits
  <2>5. QED
    BY <2>1, <2>3, <2>4, KeptTypes
<1>5. CASE Status!Take
  <2>1. Kept /\ UNCHANGED <<toSend, visited, result, shown, missed>>
    BY <1>5 DEF Status!Take, Kept
  <2>2. /\ lpc = "listen" /\ queue # <<>> /\ queue' = Tail(queue)
        /\ \/ idConnections[Head(queue)] = {} /\ UNCHANGED <<lpc, event>>
           \/ lpc' = "event" /\ event' = Head(queue)
    BY <1>5 DEF Status!Take
  <2>3. event = None /\ result = None /\ Head(queue) \in Topic /\ Tail(queue) \in Seq(Topic)
    BY <2>2, WaitsTail DEF ListenTypes
  <2>4. ListenTypes'
    BY <2>1, <2>2, <2>3, ServicesAssumption DEF ListenTypes, Kept
  <2>5. ASSUME NEW c \in Conn, NEW t \in Topic PROVE Served(c, t)'
    <3>1. Served(c, t) /\ (connectionID[c] = t => c \in idConnections[t])
      BY DEF ConnTypes, Status!MapsAgree
    <3>2. Waits(queue, t) => Head(queue) = t \/ Waits(queue', t)
      BY <2>2, WaitsTail DEF ListenTypes
    <3>3. event # t
      BY <2>3, ServicesAssumption
    <3>4. QED
      BY <2>1, <2>2, <2>3, <3>1, <3>2, <3>3 DEF Served, Kept
  <2>6. QED
    BY <2>1, <2>4, <2>5, KeptTypes
<1>6. CASE Status!ChannelLost
  <2>1. Kept /\ UNCHANGED <<event, toSend, visited, result, shown>>
    BY <1>6 DEF Status!ChannelLost, Kept
  <2>2. /\ (lpc' = "event") = (lpc = "event") /\ queue' = <<>>
        /\ missed' = missed \cup UNION {idConnections[queue[k]] : k \in DOMAIN queue}
    BY <1>6 DEF Status!ChannelLost
  <2>3. ListenTypes'
    BY <2>1, <2>2, EmptySeq DEF ListenTypes, Kept
  <2>4. ASSUME NEW c \in Conn, NEW t \in Topic PROVE Served(c, t)'
    <3>1. Served(c, t) /\ (connectionID[c] = t => c \in idConnections[t])
      BY DEF ConnTypes, Status!MapsAgree
    <3>2. Waits(queue, t) /\ c \in idConnections[t] => c \in missed'
      BY <2>2 DEF Waits
    <3>3. QED
      BY <2>1, <2>2, <3>1, <3>2 DEF Served, Kept
  <2>5. QED
    BY <2>1, <2>3, <2>4, KeptTypes
<1>7. CASE Status!Race
  <2>1. /\ connectionID' = [c \in Conn |-> None] /\ idConnections' = [t \in Topic |-> {}]
        /\ cpc' = [c \in Conn |-> "closed"]
    BY <1>7 DEF Status!Race
  <2>2. /\ queue' = <<>> /\ lpc' = "connect" /\ event' = None /\ visited' = {} /\ result' = None
        /\ UNCHANGED <<current, announced, shown>>
    BY <1>7 DEF Status!Race
  <2>3. ConnTypes'
    BY <2>1, ServicesAssumption DEF ConnTypes, Status!MapsAgree
  <2>4. ListenTypes'
    BY <2>2, EmptySeq DEF ListenTypes
  <2>5. ASSUME NEW c \in Conn, NEW t \in Topic PROVE Served(c, t)'
    BY <2>1, ServicesAssumption DEF Served
  <2>6. QED
    BY <2>3, <2>4, <2>5
<1>8. QED
  BY <1>1, <1>2, <1>3, <1>4, <1>5, <1>6, <1>7 DEF Status!Listen

\* What the steps of the other parts leave alone.
LEMMA EventStays == ASSUME EventInv, UNCHANGED eventVars PROVE EventInv'
  BY DEF EventInv, ConnTypes, ListenTypes, Served, Waits, eventVars, Status!MapsAgree

\* When nothing about an id is under way, every connection that subscribes to it
\* was written its newest status, unless the event of it was lost by an error or was
\* in work or done when the connection subscribed, and the two maps agree, for any
\* number of connections, ids, changes and faults (statusservice.listenQueue,
\* api.WSConnHandler). A subscription by itself writes nothing.
THEOREM EveryoneIsServed == Spec => []SubscribersAreServed
<1>1. Init => EventInv
  <2> SUFFICES ASSUME Init PROVE EventInv
    OBVIOUS
  <2>1. Status!Init
    BY DEF Init
  <2>2. ConnTypes
    BY <2>1, ServicesAssumption DEF Status!Init, ConnTypes, Status!MapsAgree
  <2>3. ListenTypes
    BY <2>1, EmptySeq DEF Status!Init, ListenTypes
  <2>4. ASSUME NEW c \in Conn, NEW t \in Topic PROVE Served(c, t)
    BY <2>1 DEF Status!Init, Served
  <2>5. QED
    BY <2>2, <2>3, <2>4 DEF EventInv
<1>2. EventInv /\ [Next]_vars => EventInv'
  BY EventSteps, EventStays, ConnSteps, BusSteps, ListenSteps DEF Status!Next
<1>3. EventInv => SubscribersAreServed
  <2> SUFFICES ASSUME EventInv PROVE Status!NewestIsShown /\ Status!MapsAgree
    BY DEF SubscribersAreServed, Status!SubscribersAreServed
  <2>1. Status!NewestIsShown
    <3>1. SUFFICES ASSUME NEW c \in Conn, NEW t \in Topic,
                          cpc[c] = "open", connectionID[c] = t, c \notin missed,
                          announced[t] = current[t], event # t, ~Waits(queue, t)
                   PROVE  shown[c] = current[t]
      BY DEF Status!NewestIsShown, Status!Queued, Waits
    <3>2. Served(c, t)
      BY DEF EventInv
    <3>3. ~ (announced[t] < current[t])
      BY <3>1 DEF EventInv, ListenTypes
    <3>4. QED
      BY <3>1, <3>2, <3>3 DEF Served, Waits
  <2>2. QED
    BY <2>1 DEF EventInv, ConnTypes
<1>4. QED
  BY <1>1, <1>2, <1>3, PTL DEF Spec
-----------------------------------------------------------------------------
\* A step of the services is one of the upload service or leaves its variables.
LEMMA UploadSteps == ASSUME [Next]_vars PROVE Uploads \/ UNCHANGED uploadVars
  BY DEF Next, vars, UploadStep, CleanStep, InformStep, EventStep, CostStep, PunctStep,
         MapStep, MeterStep, storageVars, Deletes, Expire, TimerStep, CleanCrash, Cleans

\* The number of files that are taken from the form.
Files(id) == Cardinality(Up!Taken(form[id]))

\* The instance of the upload service counts as FiniteSets does.
LEMMA UpCardinality == ASSUME NEW S PROVE Up!Cardinality(S) = Cardinality(S)
  BY DEF Up!Cardinality, Cardinality

\* File k of the form is saved, or another field overwrote it under the same
\* name.
Has(id, k) ==
    \/ \E w \in written[id] : w[2] = k
    \/ \E j \in Up!Fields(form[id]) : j # k /\ form[id].names[j] = form[id].names[k]

\* Where the handler is before the first file.
Early == {"free", "check", "request", "status"}

\* Where it is after the last one.
Late == {"send", "reply", "done"}

\* The types of what the upload service keeps, without those of the names.
UploadTypes ==
    /\ upc \in [Id -> Early \cup {"files"} \cup Late]
    /\ nfile \in [Id -> Nat]
    /\ form \in [Id -> Forms \cup {None}]
    /\ written = [id \in Id |-> written[id]]
    /\ sent = [id \in Id |-> sent[id]]

\* How far the handler of an id is: a form that goes on is no longer refused, the
\* files saved so far are the first ones, and once it is about to send the
\* message, or has sent it, all of them are.
UploadOK(id) ==
    /\ upc[id] \in {"request", "status", "files", "send", "reply"} => Up!Refusal(form[id]) = 0
    /\ upc[id] \in Early => nfile[id] = 0
    /\ upc[id] = "files" => nfile[id] < Files(id)
    /\ upc[id] \in Early \cup {"files"} => sent[id] = None
    /\ \A w \in written[id] : w[1] = Up!FileName(id, w[2]) /\ w[2] \in 1 .. nfile[id]
    /\ upc[id] = "files" => \A k \in 1 .. nfile[id] : Has(id, k)
    /\ upc[id] = "send" \/ sent[id] # None => \A k \in Up!Fields(form[id]) : Has(id, k)

\* The invariant of the upload service.
UploadInv == UploadTypes /\ \A id \in Id : UploadOK(id)
\* The fields of a form that is accepted are the first ones.
LEMMA AcceptedForm ==
    ASSUME NEW f, Up!Refusal(f) = 0
    PROVE  \E n \in 1 .. MaxFiles : /\ Up!Fields(f) = 1 .. n /\ Up!Taken(f) = 1 .. n
                                    /\ Cardinality(Up!Taken(f)) = n
<1>1. Up!ValidFormFiles(f)
  BY DEF Up!Refusal
<1>2. PICK n \in 1 .. MaxFiles : Up!Fields(f) = 1 .. n
  BY <1>1 DEF Up!ValidFormFiles
<1>3. n \in Nat \ {0} /\ n <= MaxFiles
  BY ServicesAssumption
<1>4. Up!Taken(f) = 1 .. n
  BY <1>2, <1>3, ServicesAssumption DEF Up!Taken
<1>5. Cardinality(1 .. n) = n
  BY <1>3, FS_Interval
<1>6. QED
  BY <1>2, <1>4, <1>5

\* A step of the handler of an id.
Only(id) ==
    \A b \in Id \ {id} : /\ upc'[b] = upc[b] /\ nfile'[b] = nfile[b] /\ form'[b] = form[b]
                         /\ written'[b] = written[b] /\ sent'[b] = sent[b]

\* The handlers of other ids keep what they have.
LEMMA OthersStay ==
    ASSUME UploadInv, NEW id \in Id, Only(id), UploadTypes', UploadOK(id)'
    PROVE  UploadInv'
<1>1. ASSUME NEW b \in Id \ {id} PROVE UploadOK(b)'
  <2>1. UploadOK(b)
    BY DEF UploadInv
  <2>2. /\ upc'[b] = upc[b] /\ nfile'[b] = nfile[b] /\ form'[b] = form[b]
        /\ written'[b] = written[b] /\ sent'[b] = sent[b]
    BY DEF Only
  <2>3. QED
    BY <2>1, <2>2 DEF UploadOK, Has, Files, Up!FileName, Up!Taken, Up!Fields, Up!Refusal,
           Up!ValidFormFiles, Up!ValidFiles
<1>2. QED
  BY <1>1 DEF UploadInv

\* Going on, or the answer after an error.
LEMMA GoesIs ==
    ASSUME UploadTypes, NEW id \in Id, NEW pc, Up!Goes(id, pc) \/ (pc = "done" /\ Up!Answer(id, 500))
    PROVE  \E to \in {pc, "done"} : upc' = [upc EXCEPT ![id] = to]
  BY DEF Up!Goes, Up!Answer

\* One file is saved: it is the next one, and a file saved under the same name
\* before is the one it replaces.
LEMMA SaveFileStep == ASSUME UploadInv, NEW id \in Id, Up!SaveFile(id) PROVE UploadInv'
<1> DEFINE k == nfile[id] + 1
           name == Up!FileName(id, k)
<1>1. /\ UploadTypes /\ UploadOK(id) /\ upc[id] = "files" /\ nfile[id] \in Nat
      /\ UNCHANGED <<form, sent>> /\ nfile' = [nfile EXCEPT ![id] = k]
      /\ written' = [written EXCEPT ![id] = {w \in @ : w[1] # name} \cup {<<name, k>>}]
  BY DEF UploadInv, UploadTypes, Up!SaveFile
<1>2. \E to \in {IF k = Files(id) THEN "send" ELSE "files", "done"} :
          upc' = [upc EXCEPT ![id] = to]
  <2>1. Up!Goes(id, IF k = Files(id) THEN "send" ELSE "files")
    BY UpCardinality DEF Up!SaveFile, Files
  <2>2. QED
    BY <1>1, <2>1, GoesIs
<1>3. PICK n \in 1 .. MaxFiles : Up!Fields(form[id]) = 1 .. n /\ Files(id) = n
  BY <1>1, AcceptedForm DEF UploadOK, Files
<1>4. n \in Nat /\ n >= 1 /\ nfile[id] < n /\ k \in 1 .. n
  BY <1>1, <1>3, ServicesAssumption DEF UploadOK
<1>5. /\ upc' \in [Id -> Early \cup {"files"} \cup Late] /\ nfile' \in [Id -> Nat]
      /\ written' = [i \in Id |-> written'[i]] /\ nfile'[id] = k /\ form' = form
      /\ sent'[id] = sent[id]
      /\ written'[id] = {w \in written[id] : w[1] # name} \cup {<<name, k>>}
      /\ upc'[id] \in {IF k = n THEN "send" ELSE "files", "done"}
  <2>1. nfile' \in [Id -> Nat] /\ nfile'[id] = k
    BY <1>1 DEF UploadTypes
  <2>2. /\ written' = [i \in Id |-> written'[i]]
        /\ written'[id] = {w \in written[id] : w[1] # name} \cup {<<name, k>>}
    BY <1>1 DEF UploadTypes
  <2>3. upc' \in [Id -> Early \cup {"files"} \cup Late]
    BY <1>1, <1>2 DEF UploadTypes, Late, Early
  <2>4. upc'[id] \in {IF k = n THEN "send" ELSE "files", "done"}
    BY <1>1, <1>2, <1>3 DEF UploadTypes
  <2>5. QED
    BY <1>1, <2>1, <2>2, <2>3, <2>4
<1>6. UploadTypes'
  BY <1>1, <1>5 DEF UploadTypes
<1>7. Only(id)
  BY <1>1, <1>2 DEF Only, UploadTypes
<1>8. \A i \in 1 .. n : Up!FileName(id, i) = IF n = 1 THEN id ELSE form[id].names[i]
  BY <1>3, UpCardinality DEF Up!FileName, Files
<1>9. ASSUME NEW w \in written'[id]
      PROVE  w[1] = Up!FileName(id, w[2]) /\ w[2] \in 1 .. k
  BY <1>1, <1>5, <1>4 DEF UploadOK
<1> HIDE DEF k, name
<1>10. ASSUME NEW i \in 1 .. k PROVE Has(id, i)'
  <2>1. CASE i = k
    <3>1. <<name, k>> \in written'[id] /\ <<name, k>>[2] = i
      BY <1>5, <2>1
    <3>2. QED
      BY <3>1 DEF Has
  <2>2. CASE i # k
    <3>1. i \in 1 .. nfile[id] /\ i \in 1 .. n /\ n # 1
      <4>1. k = nfile[id] + 1 /\ nfile[id] \in Nat /\ k <= n
        BY <1>1, <1>4 DEF k
      <4>2. QED
        BY <1>4, <2>2, <4>1
    <3>2. Has(id, i)
      BY <1>1, <3>1 DEF UploadOK
    <3>3. ASSUME NEW w \in written[id], w[2] = i, w \notin written'[id]
          PROVE  form[id].names[k] = form[id].names[i]
      <4>1. w[1] = name /\ w[1] = Up!FileName(id, i)
        BY <1>1, <1>5, <3>3 DEF UploadOK
      <4>2. QED
        BY <1>4, <1>8, <3>1, <4>1 DEF name
    <3>4. k \in Up!Fields(form[id])
      BY <1>3, <1>4
    <3>5. QED
      BY <1>5, <2>2, <3>2, <3>3, <3>4 DEF Has, Up!Fields
  <2>3. QED
    BY <2>1, <2>2
<1>11. UploadOK(id)'
  <2>1. /\ Up!Refusal(form'[id]) = 0 /\ sent'[id] = None /\ Up!Fields(form'[id]) = 1 .. n
        /\ Files(id)' = n
    BY <1>1, <1>3, <1>5 DEF UploadOK, Files
  <2>2. \A w \in written'[id] : w[1] = Up!FileName(id, w[2])' /\ w[2] \in 1 .. nfile'[id]
    BY <1>5, <1>9 DEF Up!FileName
  <2>3. upc'[id] = "files" => nfile'[id] < n
    BY <1>4, <1>5
  <2>4. upc'[id] = "send" => k = n
    BY <1>5
  <2>5. upc'[id] \in {"send", "files", "done"}
    BY <1>5
  <2>6. QED
    BY <1>5, <1>10, <2>1, <2>2, <2>3, <2>4, <2>5 DEF UploadOK, Early
<1>12. QED
  BY <1>6, <1>7, <1>11, OthersStay

\* A step that leaves the files that are saved as they are.
LEMMA PlainStep ==
    ASSUME UploadInv, NEW id \in Id, NEW to \in Early \cup {"files"} \cup Late,
           upc' = [upc EXCEPT ![id] = to],
           UNCHANGED <<form, nfile, written, sent>>,
           UploadOK(id)'
    PROVE  UploadInv'
<1>1. UploadTypes' /\ Only(id)
  BY DEF UploadInv, UploadTypes, Only
<1>2. QED
  BY <1>1, OthersStay

\* The steps of the handler of an id.
LEMMA HandleKeeps == ASSUME UploadInv, NEW id \in Id, Up!Handle(id) PROVE UploadInv'
<1>1. UploadTypes /\ UploadOK(id)
  BY DEF UploadInv
<1> USE DEF Early, Late
<1>2. ASSUME NEW to \in Early \cup {"files"} \cup Late, upc' = [upc EXCEPT ![id] = to],
             UNCHANGED <<form, nfile, written, sent>>,
             \/ to = "done"
             \/ upc[id] = "check" /\ to = "request" /\ Up!Refusal(form[id]) = 0
             \/ upc[id] = "request" /\ to = "status"
             \/ upc[id] = "status" /\ to = "files"
      PROVE  UploadInv'
  <2>1. upc'[id] = to
    BY <1>1, <1>2 DEF UploadTypes
  <2>2. upc[id] = "status" => 0 < Files(id)
    <3> SUFFICES ASSUME upc[id] = "status" PROVE 0 < Files(id)
      OBVIOUS
    <3>1. PICK n \in 1 .. MaxFiles : Files(id) = n
      BY <1>1, AcceptedForm DEF UploadOK, Files
    <3>2. QED
      BY <3>1, ServicesAssumption
  <2>3. UploadOK(id)'
    BY <1>1, <1>2, <2>1, <2>2 DEF UploadOK, Has, Files, Up!FileName, Up!Fields
  <2>4. QED
    BY <1>2, <2>3, PlainStep
<1>3. CASE Up!Check(id)
  <2>1. UNCHANGED <<form, nfile, written, sent>> /\ upc[id] = "check"
    BY <1>3 DEF Up!Check
  <2>2. \/ upc' = [upc EXCEPT ![id] = "request"] /\ Up!Refusal(form[id]) = 0
        \/ upc' = [upc EXCEPT ![id] = "done"]
    BY <1>3 DEF Up!Check, Up!Answer
  <2>3. QED
    BY <1>2, <2>1, <2>2
<1>4. CASE Up!SaveRequest(id)
  <2>1. UNCHANGED <<form, nfile, written, sent>> /\ upc[id] = "request"
    BY <1>4 DEF Up!SaveRequest
  <2>2. \E to \in {"status", "done"} : upc' = [upc EXCEPT ![id] = to]
    BY <1>1, <1>4, GoesIs DEF Up!SaveRequest
  <2>3. QED
    BY <1>2, <2>1, <2>2
<1>5. CASE Up!SaveStatus(id)
  <2>1. UNCHANGED <<form, nfile, written, sent>> /\ upc[id] = "status"
    BY <1>5 DEF Up!SaveStatus
  <2>2. \E to \in {"files", "done"} : upc' = [upc EXCEPT ![id] = to]
    BY <1>1, <1>5, GoesIs DEF Up!SaveStatus
  <2>3. QED
    BY <1>2, <2>1, <2>2
<1>6. CASE Up!Reply(id) \/ Up!Fail(id)
  <2>1. UNCHANGED <<form, nfile, written, sent>> /\ upc' = [upc EXCEPT ![id] = "done"]
    BY <1>6 DEF Up!Reply, Up!Fail, Up!Answer
  <2>2. QED
    BY <1>2, <2>1
<1>7. CASE Up!Send(id)
  <2>1. /\ UNCHANGED <<form, nfile, written>> /\ upc[id] = "send"
        /\ sent' = [sent EXCEPT ![id] = Up!Queue(form[id])]
    BY <1>7 DEF Up!Send
  <2>2. PICK to \in {"reply", "done"} : upc' = [upc EXCEPT ![id] = to]
    BY <1>1, <1>7, GoesIs DEF Up!Send
  <2>3. upc'[id] = to
    BY <1>1, <2>2 DEF UploadTypes
  <2>4. UploadTypes' /\ Only(id)
    BY <1>1, <2>1, <2>2 DEF UploadTypes, Only
  <2>5. UploadOK(id)'
    BY <1>1, <2>1, <2>3 DEF UploadOK, Has, Files, Up!FileName, Up!Fields
  <2>6. QED
    BY <2>4, <2>5, OthersStay
<1>8. QED
  BY <1>3, <1>4, <1>5, <1>6, <1>7, SaveFileStep DEF Up!Handle

\* Every step keeps it.
LEMMA UploadKeeps == UploadInv /\ [Next]_vars => UploadInv'
<1> SUFFICES ASSUME UploadInv, [Next]_vars PROVE UploadInv'
  OBVIOUS
<1> USE DEF Early, Late
<1>1. ASSUME NEW id \in NewIds, NEW f \in Forms, Up!Post(id, f) PROVE UploadInv'
  <2>1. id \in Id /\ UploadTypes /\ UploadOK(id)
    BY ServicesAssumption DEF UploadInv
  <2>2. /\ upc[id] = "free" /\ upc' = [upc EXCEPT ![id] = "check"]
        /\ form' = [form EXCEPT ![id] = f] /\ UNCHANGED <<nfile, written, sent>>
    BY <1>1 DEF Up!Post
  <2>3. upc'[id] = "check" /\ form'[id] = f /\ UploadTypes' /\ Only(id)
    BY <2>1, <2>2 DEF UploadTypes, Only
  <2>4. written[id] = {}
    BY <2>1, <2>2 DEF UploadOK
  <2>5. UploadOK(id)'
    BY <2>1, <2>2, <2>3, <2>4 DEF UploadOK
  <2>6. QED
    BY <2>1, <2>3, <2>5, OthersStay
<1>2. CASE Up!UploadCrash
  <2>1. /\ upc' = [id \in Id |-> IF Up!Busy(id) THEN "done" ELSE upc[id]]
        /\ UNCHANGED <<form, nfile, written, sent>>
    BY <1>2 DEF Up!UploadCrash
  <2>2. UploadTypes'
    BY <2>1 DEF UploadInv, UploadTypes
  <2>3. ASSUME NEW id \in Id PROVE UploadOK(id)'
    <3>1. UploadOK(id) /\ (upc'[id] = "done" \/ upc'[id] = upc[id])
      BY <2>1 DEF UploadInv
    <3>2. QED
      BY <2>1, <3>1 DEF UploadOK, Has, Files, Up!FileName, Up!Fields
  <2>4. QED
    BY <2>2, <2>3 DEF UploadInv
<1>3. CASE UNCHANGED uploadVars
  <2>1. UNCHANGED <<upc, form, nfile, written, sent>>
    BY <1>3 DEF uploadVars
  <2>2. QED
    BY <2>1 DEF UploadInv, UploadTypes, UploadOK, Has, Files, Up!FileName, Up!Fields
<1>4. QED
  BY <1>1, <1>2, <1>3, UploadSteps, HandleKeeps DEF Uploads

\* A message that starts a transcription is sent only when every file of the form
\* is stored, unless two of them have the same name (saveFiles): the invariant
\* counts the files from the first to the one being saved, for forms of any number
\* of files.
THEOREM SentIsStored == Spec => []SentHasItsFiles
<1>1. Init => UploadInv
  <2> SUFFICES ASSUME Init PROVE UploadInv
    OBVIOUS
  <2>1. Up!Init
    BY DEF Init, StorageInit
  <2>2. UploadTypes
    BY <2>1 DEF Up!Init, UploadTypes, Early
  <2>3. ASSUME NEW id \in Id PROVE UploadOK(id)
    BY <2>1 DEF Up!Init, UploadOK, Early
  <2>4. QED
    BY <2>2, <2>3 DEF UploadInv
<1>2. UploadInv => SentHasItsFiles
  BY DEF UploadInv, UploadOK, Has, SentHasItsFiles
<1>3. QED
  BY <1>1, <1>2, UploadKeeps, PTL DEF Spec
-----------------------------------------------------------------------------
\* A step of the services is one of the metrics or leaves their variables.
LEMMA MeterSteps == ASSUME [Next]_vars PROVE Meter!Next \/ UNCHANGED metricVars
  BY DEF Next, vars, UploadStep, CleanStep, InformStep, EventStep, CostStep, PunctStep,
         MapStep, MeterStep

\* The instance of the metrics counts as FiniteSets does.
LEMMA MeterCardinality == ASSUME NEW S PROVE Meter!Cardinality(S) = Cardinality(S)
  BY DEF Meter!Cardinality, Cardinality

\* The task has an open start.
IsOpen(p) == KeyOf[p] \in DOMAIN dMap /\ p \in DOMAIN dMap[KeyOf[p]]

\* Which one it is.
OpenAt(p) == dMap[KeyOf[p]][p]

\* The types of what the metrics keep, without those of the maps.
MeterTypes ==
    /\ hour \in Nat
    /\ runs \in [Tracked -> SUBSET (0 .. hour)]
    /\ starts \in [Tracked -> Nat] /\ ends \in [Tracked -> Nat]
    /\ observed \in [Tracked -> Seq(Nat)]

\* An open start is of a run that began, and was posted after that; it will be
\* observed once at most, like each of the starts before it; and nothing was posted
\* of a task that never ran.
Metered(p) ==
    /\ IsOpen(p) => /\ OpenAt(p).stamp \in runs[p] /\ OpenAt(p).added \in 0 .. hour
                    /\ OpenAt(p).stamp <= OpenAt(p).added
                    /\ Len(observed[p]) < starts[p]
    /\ Len(observed[p]) <= starts[p] /\ Len(observed[p]) <= ends[p]
    /\ starts[p] > 0 => runs[p] # {}

\* The start of a task that ran once, and not for long, waits for its end.
Remembered(p) ==
    \A b \in runs[p] :
        starts[p] > 0 /\ runs[p] = {b} /\ Length[p] <= 1 /\ b + Length[p] + 2 >= hour
            => observed[p] # <<>> \/ IsOpen(p)

\* The invariant of TasksAreMeasured.
MeterInv == MeterTypes /\ \A p \in Tracked : Metered(p) /\ Remembered(p)

\* A key without a map has no open starts.
LEMMA OpenIs == ASSUME NEW p PROVE /\ IsOpen(p) <=> p \in DOMAIN Meter!Open(KeyOf[p])
                                   /\ IsOpen(p) => Meter!Open(KeyOf[p])[p] = OpenAt(p)
  BY DEF IsOpen, OpenAt, Meter!Open

\* A start that is added is open, and other tasks keep theirs.
LEMMA StartOpens ==
    ASSUME NEW p \in Tracked, NEW r,
           dMap' = Meter!With(dMap, KeyOf[p], Meter!With(Meter!Open(KeyOf[p]), p, r))
    PROVE  /\ IsOpen(p)' /\ OpenAt(p)' = r
           /\ \A q \in Tracked : q # p =>
                (IsOpen(q)' <=> IsOpen(q)) /\ (IsOpen(q) => OpenAt(q)' = OpenAt(q))
<1> DEFINE k == KeyOf[p]
           f == Meter!With(Meter!Open(k), p, r)
<1>1. /\ DOMAIN f = DOMAIN Meter!Open(k) \cup {p} /\ f[p] = r
      /\ \A q \in DOMAIN Meter!Open(k) : q # p => f[q] = Meter!Open(k)[q]
  BY DEF Meter!With
<1>2. /\ DOMAIN dMap' = DOMAIN dMap \cup {k} /\ dMap'[k] = f
      /\ \A j \in DOMAIN dMap : j # k => dMap'[j] = dMap[j]
  BY DEF Meter!With
<1> HIDE DEF f
<1>3. IsOpen(p)' /\ OpenAt(p)' = r
  BY <1>1, <1>2 DEF IsOpen, OpenAt
<1>4. ASSUME NEW q \in Tracked, q # p
      PROVE  (IsOpen(q)' <=> IsOpen(q)) /\ (IsOpen(q) => OpenAt(q)' = OpenAt(q))
  <2>1. CASE KeyOf[q] = k
    BY <1>1, <1>2, <1>4, <2>1, OpenIs DEF IsOpen, OpenAt
  <2>2. CASE KeyOf[q] # k
    BY <1>2, <2>2 DEF IsOpen, OpenAt
  <2>3. QED
    BY <2>1, <2>2
<1>5. QED
  BY <1>3, <1>4

\* One that is deleted is not, and they do too.
LEMMA EndCloses ==
    ASSUME NEW p \in Tracked, dMap' = Meter!Closed(p)
    PROVE  /\ ~IsOpen(p)'
           /\ \A q \in Tracked : q # p =>
                (IsOpen(q)' <=> IsOpen(q)) /\ (IsOpen(q) => OpenAt(q)' = OpenAt(q))
<1> DEFINE k == KeyOf[p]
           f == Meter!Without(Meter!Open(k), p)
<1>1. /\ DOMAIN f = DOMAIN Meter!Open(k) \ {p}
      /\ \A q \in DOMAIN Meter!Open(k) : q # p => f[q] = Meter!Open(k)[q]
  BY DEF Meter!Without
<1>2. /\ DOMAIN dMap' = DOMAIN dMap \cup {k} /\ dMap'[k] = f
      /\ \A j \in DOMAIN dMap : j # k => dMap'[j] = dMap[j]
  BY DEF Meter!With, Meter!Closed
<1> HIDE DEF f
<1>3. ~IsOpen(p)'
  BY <1>1, <1>2 DEF IsOpen
<1>4. ASSUME NEW q \in Tracked, q # p
      PROVE  (IsOpen(q)' <=> IsOpen(q)) /\ (IsOpen(q) => OpenAt(q)' = OpenAt(q))
  <2>1. CASE KeyOf[q] = k
    BY <1>1, <1>2, <1>4, <2>1, OpenIs DEF IsOpen, OpenAt
  <2>2. CASE KeyOf[q] # k
    BY <1>2, <2>2 DEF IsOpen, OpenAt
  <2>3. QED
    BY <2>1, <2>2
<1>5. QED
  BY <1>3, <1>4

\* What is kept of a task that the step is not about.
LEMMA MeterKeeps ==
    ASSUME NEW q \in Tracked, Metered(q), Remembered(q), hour' = hour,
           runs'[q] = runs[q], starts'[q] = starts[q], ends'[q] = ends[q],
           observed'[q] = observed[q], IsOpen(q)' <=> IsOpen(q),
           IsOpen(q) => OpenAt(q)' = OpenAt(q)
    PROVE  Metered(q)' /\ Remembered(q)'
  BY DEF Metered, Remembered

\* A run begins: the first one, before anything of it is posted, or one more.
LEMMA BeginKeeps == ASSUME MeterInv, NEW p \in Tracked, Meter!Begin(p) PROVE MeterInv'
<1>1. /\ dMap' = dMap /\ hour' = hour /\ starts' = starts /\ ends' = ends
      /\ observed' = observed /\ runs' = [runs EXCEPT ![p] = @ \cup {hour}]
      /\ runs' # runs /\ hour \in Nat /\ runs \in [Tracked -> SUBSET (0 .. hour)]
  BY DEF Meter!Begin, MeterInv, MeterTypes
<1>2. /\ runs' \in [Tracked -> SUBSET (0 .. hour)] /\ runs'[p] = runs[p] \cup {hour}
      /\ \A q \in Tracked : q # p => runs'[q] = runs[q]
  BY <1>1
<1>3. MeterTypes'
  BY <1>1, <1>2 DEF MeterTypes, MeterInv
<1>4. \A q : (IsOpen(q)' <=> IsOpen(q)) /\ OpenAt(q)' = OpenAt(q)
  BY <1>1 DEF IsOpen, OpenAt
<1>5. Metered(p)'
  BY <1>1, <1>2, <1>4 DEF Metered, MeterInv
<1>6. Remembered(p)'
  <2> SUFFICES ASSUME starts[p] > 0, NEW b, runs'[p] = {b} PROVE FALSE
    BY <1>1 DEF Remembered
  <2>1. runs[p] # {} /\ hour \notin runs[p]
    <3>1. runs[p] # {}
      BY DEF MeterInv, Metered
    <3>2. ASSUME hour \in runs[p] PROVE FALSE
      BY <1>1, <3>2
    <3>3. QED
      BY <3>1, <3>2
  <2>2. QED
    BY <1>2, <2>1
<1>7. \A q \in Tracked : q # p => Metered(q)' /\ Remembered(q)'
  BY <1>1, <1>2, <1>4, MeterKeeps DEF MeterInv
<1>8. QED
  BY <1>3, <1>5, <1>6, <1>7 DEF MeterInv

\* A start is posted.
LEMMA StartKeeps == ASSUME MeterInv, NEW p \in Tracked, Meter!Start(p) PROVE MeterInv'
<1>1. PICK b \in runs[p] :
          dMap' = Meter!With(dMap, KeyOf[p],
                      Meter!With(Meter!Open(KeyOf[p]), p, [stamp |-> b, added |-> hour]))
  BY DEF Meter!Start
<1>2. /\ hour' = hour /\ runs' = runs /\ ends' = ends /\ observed' = observed
      /\ starts' = [starts EXCEPT ![p] = @ + 1]
  BY DEF Meter!Start
<1>3. MeterTypes
  BY DEF MeterInv
<1>4. /\ starts' \in [Tracked -> Nat] /\ starts'[p] = starts[p] + 1
      /\ \A q \in Tracked : q # p => starts'[q] = starts[q]
  BY <1>2, <1>3 DEF MeterTypes
<1>5. MeterTypes'
  BY <1>2, <1>3, <1>4 DEF MeterTypes
<1>6. /\ IsOpen(p)' /\ OpenAt(p)' = [stamp |-> b, added |-> hour]
      /\ \A q \in Tracked : q # p =>
           (IsOpen(q)' <=> IsOpen(q)) /\ (IsOpen(q) => OpenAt(q)' = OpenAt(q))
  BY <1>1, StartOpens
<1>7. Metered(p)'
  <2>1. OpenAt(p)'.stamp = b /\ OpenAt(p)'.added = hour /\ b \in 0 .. hour /\ hour \in Nat
    BY <1>3, <1>6 DEF MeterTypes
  <2>2. Len(observed[p]) \in Nat /\ starts[p] \in Nat /\ Len(observed[p]) <= starts[p]
        /\ Len(observed[p]) <= ends[p]
    BY <1>3 DEF MeterTypes, MeterInv, Metered
  <2>3. Len(observed[p]) < starts'[p] /\ Len(observed[p]) <= starts'[p]
    BY <1>4, <2>2
  <2>4. QED
    BY <1>2, <2>1, <2>2, <2>3 DEF Metered
<1>8. Remembered(p)'
  BY <1>6 DEF Remembered
<1>9. \A q \in Tracked : q # p => Metered(q)' /\ Remembered(q)'
  BY <1>2, <1>4, <1>6, MeterKeeps DEF MeterInv
<1>10. QED
  BY <1>5, <1>7, <1>8, <1>9 DEF MeterInv

\* An end is posted, and meets the open start or is only counted.
LEMMA EndKeeps == ASSUME MeterInv, NEW p \in Tracked, Meter!End(p) PROVE MeterInv'
<1>1. PICK b \in runs[p] :
          IF Meter!Ended(p, b + Length[p])
          THEN /\ observed' = [observed EXCEPT
                      ![p] = Append(@, (b + Length[p]) - Meter!Open(KeyOf[p])[p].stamp)]
               /\ dMap' = Meter!Closed(p)
          ELSE observed' = observed /\ dMap' = dMap
  BY DEF Meter!End
<1>2. /\ hour' = hour /\ runs' = runs /\ starts' = starts
      /\ ends' = [ends EXCEPT ![p] = @ + 1]
  BY DEF Meter!End
<1>3. MeterTypes /\ b \in Nat /\ Length[p] \in Nat
  BY ServicesAssumption DEF MeterInv, MeterTypes
<1>4. /\ ends' \in [Tracked -> Nat] /\ ends'[p] = ends[p] + 1
      /\ \A q \in Tracked : q # p => ends'[q] = ends[q]
  BY <1>2, <1>3 DEF MeterTypes
<1>5. /\ Len(observed[p]) \in Nat /\ starts[p] \in Nat /\ ends[p] \in Nat
      /\ Len(observed[p]) <= starts[p] /\ Len(observed[p]) <= ends[p]
      /\ starts[p] > 0 => runs[p] # {}
  BY <1>3 DEF MeterTypes, MeterInv, Metered
<1>6. CASE Meter!Ended(p, b + Length[p])
  <2> DEFINE d == (b + Length[p]) - OpenAt(p).stamp
  <2>1. IsOpen(p) /\ OpenAt(p).stamp <= b + Length[p]
    BY <1>6, OpenIs DEF Meter!Ended
  <2>2. OpenAt(p).stamp \in Nat /\ Len(observed[p]) < starts[p]
    BY <1>3, <2>1 DEF MeterInv, Metered, MeterTypes
  <2>3. d \in Nat
    BY <1>3, <2>1, <2>2
  <2>4. observed' = [observed EXCEPT ![p] = Append(@, d)] /\ dMap' = Meter!Closed(p)
    BY <1>1, <1>6, <2>1, OpenIs
  <2> HIDE DEF d
  <2>5. /\ Append(observed[p], d) \in Seq(Nat)
        /\ Len(Append(observed[p], d)) = Len(observed[p]) + 1
        /\ Append(observed[p], d) # <<>>
    <3>1. observed[p] \in Seq(Nat)
      BY <1>3 DEF MeterTypes
    <3>2. QED
      BY <2>3, <3>1, AppendProperties
  <2>6. /\ observed' \in [Tracked -> Seq(Nat)] /\ observed'[p] = Append(observed[p], d)
        /\ \A q \in Tracked : q # p => observed'[q] = observed[q]
    BY <1>3, <2>4, <2>5 DEF MeterTypes
  <2>7. MeterTypes'
    BY <1>2, <1>3, <1>4, <2>6 DEF MeterTypes
  <2>8. /\ ~IsOpen(p)'
        /\ \A q \in Tracked : q # p =>
             (IsOpen(q)' <=> IsOpen(q)) /\ (IsOpen(q) => OpenAt(q)' = OpenAt(q))
    BY <2>4, EndCloses
  <2>9. Metered(p)'
    <3>1. Len(observed'[p]) = Len(observed[p]) + 1
      BY <2>5, <2>6
    <3>2. Len(observed'[p]) <= starts'[p] /\ Len(observed'[p]) <= ends'[p]
      BY <1>2, <1>4, <1>5, <2>2, <3>1
    <3>3. QED
      BY <1>2, <1>5, <2>8, <3>2 DEF Metered
  <2>10. Remembered(p)'
    BY <2>5, <2>6 DEF Remembered
  <2>11. \A q \in Tracked : q # p => Metered(q)' /\ Remembered(q)'
    BY <1>2, <1>4, <2>6, <2>8, MeterKeeps DEF MeterInv
  <2>12. QED
    BY <2>7, <2>9, <2>10, <2>11 DEF MeterInv
<1>7. CASE ~Meter!Ended(p, b + Length[p])
  <2>1. observed' = observed /\ dMap' = dMap
    BY <1>1, <1>7
  <2>2. MeterTypes'
    BY <1>2, <1>3, <1>4, <2>1 DEF MeterTypes
  <2>3. \A q : (IsOpen(q)' <=> IsOpen(q)) /\ OpenAt(q)' = OpenAt(q)
    BY <2>1 DEF IsOpen, OpenAt
  <2>4. Metered(p)'
    <3>1. Len(observed'[p]) <= ends'[p]
      BY <1>4, <1>5, <2>1
    <3>2. QED
      BY <1>2, <2>1, <2>3, <3>1 DEF Metered, MeterInv
  <2>5. Remembered(p)'
    BY <1>2, <2>1, <2>3 DEF Remembered, MeterInv
  <2>6. \A q \in Tracked : q # p => Metered(q)' /\ Remembered(q)'
    BY <1>2, <1>4, <2>1, <2>3, MeterKeeps DEF MeterInv
  <2>7. QED
    BY <2>2, <2>4, <2>5, <2>6 DEF MeterInv
<1>8. QED
  BY <1>6, <1>7

\* What checkForExpired forgets was posted too long ago for its end to be valid.
LEMMA HourKeeps == ASSUME MeterInv, Meter!Hour PROVE MeterInv'
<1>1. /\ hour' = hour + 1 /\ runs' = runs /\ starts' = starts /\ ends' = ends
      /\ observed' = observed
      /\ dMap' = [k \in {j \in DOMAIN dMap : Meter!Fresh(j) # {}} |->
                     [p \in Meter!Fresh(k) |-> dMap[k][p]]]
  BY DEF Meter!Hour
<1>2. MeterTypes
  BY DEF MeterInv
<1>3. MeterTypes'
  <2>1. 0 .. hour \subseteq 0 .. hour'
    BY <1>1, <1>2 DEF MeterTypes
  <2>2. hour' \in Nat
    BY <1>1, <1>2 DEF MeterTypes
  <2>3. QED
    BY <1>1, <1>2, <2>1, <2>2 DEF MeterTypes
<1>4. ASSUME NEW p
      PROVE  /\ IsOpen(p)' <=> IsOpen(p) /\ OpenAt(p).added + 3 >= hour + 1
             /\ IsOpen(p)' => OpenAt(p)' = OpenAt(p)
  <2>1. IsOpen(p)' <=> KeyOf[p] \in DOMAIN dMap /\ p \in Meter!Fresh(KeyOf[p])
    BY <1>1 DEF IsOpen
  <2>2. IsOpen(p)' => OpenAt(p)' = OpenAt(p)
    BY <1>1, <2>1 DEF IsOpen, OpenAt
  <2>3. QED
    BY <2>1, <2>2 DEF IsOpen, OpenAt, Meter!Fresh
<1>5. ASSUME NEW p \in Tracked PROVE Metered(p)' /\ Remembered(p)'
  <2>1. Metered(p) /\ Remembered(p) /\ Length[p] \in Nat
    BY ServicesAssumption DEF MeterInv
  <2>2. Metered(p)'
    <3>1. OpenAt(p).added \in 0 .. hour => OpenAt(p).added \in 0 .. hour'
      BY <1>1, <1>2 DEF MeterTypes
    <3>2. QED
      BY <1>1, <1>4, <2>1, <3>1 DEF Metered
  <2>3. Remembered(p)'
    <3> SUFFICES ASSUME NEW b \in runs[p], starts[p] > 0, runs[p] = {b}, Length[p] <= 1,
                        b + Length[p] + 2 >= hour + 1, observed[p] = <<>>
                 PROVE  IsOpen(p)'
      BY <1>1 DEF Remembered
    <3>1. b \in Nat /\ hour \in Nat
      <4>1. hour \in Nat /\ runs[p] \in SUBSET (0 .. hour)
        BY <1>2 DEF MeterTypes
      <4>2. b \in 0 .. hour
        BY <4>1
      <4>3. QED
        BY <4>1, <4>2
    <3>2. b + Length[p] + 2 >= hour
      BY <2>1, <3>1
    <3>3. IsOpen(p)
      BY <2>1, <3>2 DEF Remembered
    <3>4. /\ OpenAt(p).stamp = b /\ OpenAt(p).added \in Nat
          /\ OpenAt(p).stamp <= OpenAt(p).added
      BY <2>1, <3>1, <3>3 DEF Metered
    <3>5. OpenAt(p).added + 3 >= hour + 1
      BY <2>1, <3>1, <3>4
    <3>6. QED
      BY <1>4, <3>3, <3>5
  <2>4. QED
    BY <2>2, <2>3
<1>6. QED
  BY <1>3, <1>5 DEF MeterInv

\* Every step keeps it.
LEMMA MeterKept == MeterInv /\ [Next]_vars => MeterInv'
<1> SUFFICES ASSUME MeterInv, [Next]_vars PROVE MeterInv'
  OBVIOUS
<1>1. CASE UNCHANGED metricVars
  BY <1>1 DEF metricVars, MeterInv, MeterTypes, Metered, Remembered, IsOpen, OpenAt
<1>2. CASE Meter!Next
  BY <1>2, BeginKeeps, StartKeeps, EndKeeps, HourKeeps DEF Meter!Next
<1>3. QED
  BY <1>1, <1>2, MeterSteps

\* Durations are observed once for a start and an end, never negative, for any
\* number of tasks, runs and repeated posts; and the start of a task that runs once
\* and for at most an hour is kept until its end can no longer be posted:
\* checkForExpired forgets after three hours what validate accepts for two.
THEOREM EveryTaskIsMeasured == Spec => []TasksAreMeasured
<1>1. Init => MeterInv
  <2> SUFFICES ASSUME Init PROVE MeterInv
    OBVIOUS
  <2>1. /\ DOMAIN dMap = {} /\ hour = 0 /\ runs = [p \in Tracked |-> {}]
        /\ starts = [p \in Tracked |-> 0] /\ ends = [p \in Tracked |-> 0]
        /\ observed = [p \in Tracked |-> <<>>]
    BY DEF Init, Meter!Init
  <2>2. MeterTypes
    BY <2>1 DEF MeterTypes
  <2>3. \A p \in Tracked : Metered(p) /\ Remembered(p)
    BY <2>1 DEF Metered, Remembered, IsOpen
  <2>4. QED
    BY <2>2, <2>3 DEF MeterInv
<1>2. MeterInv => TasksAreMeasured
  <2> SUFFICES ASSUME MeterInv PROVE Meter!ObservedOnce /\ Meter!NoStartIsLost
    BY DEF TasksAreMeasured, Meter!TasksAreMeasured
  <2>1. Meter!ObservedOnce
    BY DEF MeterInv, MeterTypes, Metered, Meter!ObservedOnce, Meter!Range
  <2>2. Meter!NoStartIsLost
    <3> SUFFICES ASSUME NEW p \in Tracked, NEW b \in runs[p], starts[p] > 0,
                        Meter!Cardinality(runs[p]) = 1, Length[p] <= 1,
                        Meter!Recent(b + Length[p])
                 PROVE  observed[p] # <<>> \/ IsOpen(p)
      BY OpenIs DEF Meter!NoStartIsLost
    <3>1. IsFiniteSet(0 .. hour) /\ runs[p] \in SUBSET (0 .. hour)
      BY FS_Interval DEF MeterInv, MeterTypes
    <3>2. IsFiniteSet(runs[p]) /\ Cardinality(runs[p]) = 1
      BY <3>1, FS_Subset, MeterCardinality
    <3>3. runs[p] = {b}
      BY <3>2, FS_Singleton
    <3>4. QED
      BY <3>3 DEF MeterInv, Remembered, Meter!Recent
  <2>3. QED
    BY <2>1, <2>2
<1>3. QED
  BY <1>1, <1>2, MeterKept, PTL DEF Spec

-----------------------------------------------------------------------------
\* The community modules' fold ends at the last position.
LEMMA StrategyMax == ASSUME NEW s PROVE Strategy!Max(s) = LastIn(s)
  BY DEF Strategy!Max, LastIn

\* The walk of getTaskByV2 over the tasks of a type, and over the types.
AfterGroup(w, choice, s) ==
    Strategy!FoldLeft(LAMBDA c, t : Strategy!Look(w, c, t), choice, s)

\* What is chosen when the tasks of one more type are looked at.
AfterType(w, order, choice, k) ==
    AfterGroup(w, [choice EXCEPT !.arr = Strategy!FreeAt(k), !.over = FALSE], order[k])

\* What the walk begins with.
Nothing == [task |-> None, at |-> Strategy!CostMax, arr |-> <<>>, over |-> FALSE]

\* What is chosen when all types are looked at, in order.
AfterTypes(w, order) ==
    Strategy!FoldLeft(LAMBDA choice, k : AfterType(w, order, choice, k), Nothing,
                      Strategy!SortedKeys)

\* getTaskByV2 returns what the walk over the types ends with.
LEMMA ByV2Is == ASSUME NEW w, NEW order PROVE Strategy!ByV2(w, order) = AfterTypes(w, order).task
  BY DEF Strategy!ByV2, AfterTypes, AfterType, AfterGroup, Nothing

\* The choices after each task of a type, each made of the one before.
IsGroupWalk(a, n, base, w, s) ==
    /\ a[0] = base
    /\ \A i \in 1 .. n : a[i] = Strategy!Look(w, a[i - 1], s[i])
    /\ a[n] = AfterGroup(w, base, s)

\* The fold over the tasks of a type is such a walk.
LEMMA GroupSteps ==
    ASSUME NEW n \in Nat, NEW s, DOMAIN s = 1 .. n, NEW A, NEW base \in A, NEW w,
           \A i \in 1 .. n, a \in A : Strategy!Look(w, a, s[i]) \in A
    PROVE  \E a \in [0 .. n -> A] : IsGroupWalk(a, n, base, w, s)
<1> DEFINE f == [i \in 1 .. n |-> [a \in A |-> Strategy!Look(w, a, s[i])]]
           Folds(g) == g = [S \in SUBSET DOMAIN s |->
                               IF S = {} THEN base
                               ELSE Strategy!Look(w, g[S \ {LastIn(S)}], s[LastIn(S)])]
           G == CHOOSE g : Folds(g)
<1>1. \A i \in 1 .. n, a \in A : f[i][a] = Strategy!Look(w, a, s[i]) /\ f[i][a] \in A
  OBVIOUS
<1>13. AfterGroup(w, base, s) = G[DOMAIN s]
  BY StrategyMax DEF AfterGroup, Strategy!FoldLeft, Strategy!MapThenFoldSet
<1> HIDE DEF f
<1>2. f \in [1 .. n -> [A -> A]]
  BY DEF f
<1>3. PICK g \in FoldsOf(n, A, base, f) : TRUE
  <2> HIDE DEF Folds, G
  <2>1. QED
    BY <1>2, FoldExists
<1>4. \A S \in SUBSET (1 .. n) : S # {} => LastIn(S) \in 1 .. n /\ S \ {LastIn(S)} \in SUBSET (1 .. n)
  BY LastInIn
<1>5. Folds(g)
  BY <1>1, <1>3, <1>4 DEF FoldsOf
<1>6. Folds(G)
  BY <1>5
<1> HIDE DEF G
<1>7. IsFold(G, n, A, base, f)
  BY <1>1, <1>4, <1>6 DEF IsFold
<1> HIDE DEF Folds
<1>8. PICK a \in Walks(n, A, base, f) : a[n] = G[1 .. n]
  BY <1>2, <1>7, FoldSteps
<1>9. /\ a \in [0 .. n -> A] /\ a[0] = base
      /\ \A i \in 1 .. n : a[i] = f[i][a[i - 1]]
  BY DEF Walks
<1>10. \A i \in 1 .. n : a[i] = Strategy!Look(w, a[i - 1], s[i])
  <2>1. \A i \in 1 .. n : a[i - 1] \in A
    BY <1>9
  <2>2. QED
    BY <1>1, <1>9, <2>1
<1>11. a[n] = AfterGroup(w, base, s)
  BY <1>8, <1>13
<1>12. QED
  BY <1>9, <1>10, <1>11 DEF IsGroupWalk

\* The choices after each type, each made of the one before.
IsTypeWalk(a, n, w, order) ==
    /\ a[0] = Nothing
    /\ \A i \in 1 .. n : a[i] = AfterType(w, order, a[i - 1], Strategy!SortedKeys[i])
    /\ a[n] = AfterTypes(w, order)

\* The fold over the types is such a walk.
LEMMA TypeSteps ==
    ASSUME NEW n \in Nat, DOMAIN Strategy!SortedKeys = 1 .. n,
           NEW A, Nothing \in A, NEW w, NEW order,
           \A i \in 1 .. n, a \in A : AfterType(w, order, a, Strategy!SortedKeys[i]) \in A
    PROVE  \E a \in [0 .. n -> A] : IsTypeWalk(a, n, w, order)
<1> DEFINE s == Strategy!SortedKeys
           f == [i \in 1 .. n |-> [a \in A |-> AfterType(w, order, a, s[i])]]
           Folds(g) == g = [S \in SUBSET DOMAIN s |->
                               IF S = {} THEN Nothing
                               ELSE AfterType(w, order, g[S \ {LastIn(S)}], s[LastIn(S)])]
           G == CHOOSE g : Folds(g)
<1>1. \A i \in 1 .. n, a \in A : f[i][a] = AfterType(w, order, a, s[i]) /\ f[i][a] \in A
  OBVIOUS
<1>13. AfterTypes(w, order) = G[DOMAIN s]
  BY StrategyMax DEF AfterTypes, Strategy!FoldLeft, Strategy!MapThenFoldSet
<1> HIDE DEF f
<1>2. f \in [1 .. n -> [A -> A]]
  BY DEF f
<1>3. PICK g \in FoldsOf(n, A, Nothing, f) : TRUE
  <2> HIDE DEF Folds, G
  <2>1. QED
    BY <1>2, FoldExists
<1>4. \A S \in SUBSET (1 .. n) : S # {} => LastIn(S) \in 1 .. n /\ S \ {LastIn(S)} \in SUBSET (1 .. n)
  BY LastInIn
<1>5. Folds(g)
  BY <1>1, <1>3, <1>4 DEF FoldsOf
<1>6. Folds(G)
  BY <1>5
<1> HIDE DEF G
<1>7. IsFold(G, n, A, Nothing, f)
  BY <1>1, <1>4, <1>6 DEF IsFold
<1> HIDE DEF Folds
<1>8. PICK a \in Walks(n, A, Nothing, f) : a[n] = G[1 .. n]
  BY <1>2, <1>7, FoldSteps
<1>9. /\ a \in [0 .. n -> A] /\ a[0] = Nothing
      /\ \A i \in 1 .. n : a[i] = f[i][a[i - 1]]
  BY DEF Walks
<1>10. \A i \in 1 .. n : a[i] = AfterType(w, order, a[i - 1], s[i])
  <2>1. \A i \in 1 .. n : a[i - 1] \in A
    BY <1>9
  <2>2. QED
    BY <1>1, <1>9, <2>1
<1>11. a[n] = AfterTypes(w, order)
  BY <1>8, <1>13
<1>12. QED
  BY <1>9, <1>10, <1>11 DEF IsTypeWalk

\* What a worker may have loaded.
Types == {NoModel} \cup ({t.type : t \in Task} \ {Strategy!NoType})

\* The types of the variables of the strategy.
CostTypes ==
    /\ todo \subseteq Task
    /\ workers \in [Worker -> [type : Types, end : Nat, working : BOOLEAN]]
    /\ now \in Nat

\* An idle worker is not expected to be busy.
CostInv == CostTypes /\ \A w \in Worker : ~workers[w].working => workers[w].end <= now

\* What getTaskByV2 has at a time, and that a task is found by its cost.
Chosen ==
    {c \in [task : Task \cup {None}, at : Int, arr : [Worker -> Int] \cup {<<>>},
            over : BOOLEAN] : c.task = None => c.at = Strategy!CostMax}

\* The same, while the tasks of a type are handed out.
InGroup == {c \in Chosen : c.arr \in [Worker -> Int]}

\* The configured numbers; a model's load costs less than the maximum.
LEMMA Numbers ==
    /\ LoadTime \in Nat /\ RtFactor \in Nat /\ Unit \in Nat /\ DelayCost \in Nat
    /\ Unit > 0 /\ LoadTime > 0
    /\ Strategy!CostMax \in Nat
    /\ LoadTime * Unit \in Nat /\ LoadTime * Unit < Strategy!CostMax
<1>1. /\ LoadTime \in Nat /\ RtFactor \in Nat /\ Unit \in Nat /\ DelayCost \in Nat
      /\ Unit > 0 /\ LoadTime > 0 /\ LoadTime < 100000
  BY ServicesAssumption
<1>2. LoadTime * Unit \in Nat /\ LoadTime * Unit < 100000 * Unit
  BY <1>1
<1>3. QED
  BY <1>1, <1>2 DEF Strategy!CostMax

\* The fields of a task, and None is not a task.
LEMMA TaskFields ==
    ASSUME NEW t \in Task PROVE t.type \in Nat /\ t.arrived \in Int /\ t.duration \in Nat /\ t # None
  BY ServicesAssumption

\* How long a task has waited, and what that costs.
LEMMA WaitedIs ==
    ASSUME CostTypes, NEW t \in Task
    PROVE  Strategy!Waited(t) \in Nat /\ Strategy!Waited(t) * DelayCost \in Nat
<1>1. Strategy!Waited(t) \in Nat
  BY TaskFields DEF CostTypes, Strategy!Waited, Strategy!Positive
<1>2. QED
  BY <1>1, Numbers

\* When each worker is free stays a number when a task is handed out.
LEMMA AddToLowestType ==
    ASSUME CostTypes, NEW arr \in [Worker -> Int], NEW t \in Task
    PROVE  Strategy!AddToLowest(arr, t) \in [Worker -> Int]
<1>1. t.duration * RtFactor * Unit \in Int /\ Strategy!Waited(t) * DelayCost \in Int
  <2>1. t.duration * RtFactor \in Nat
    BY Numbers, TaskFields
  <2>2. t.duration * RtFactor * Unit \in Nat
    BY <2>1, Numbers
  <2>3. QED
    BY <2>2, WaitedIs
<1> DEFINE d == t.duration * RtFactor * Unit
           e == Strategy!Waited(t) * DelayCost
           l == Strategy!LowestOf(arr)
<1>2. Strategy!AddToLowest(arr, t) = [arr EXCEPT ![l] = @ + d - e]
  BY DEF Strategy!AddToLowest
<1>3. d \in Int /\ e \in Int
  BY <1>1
<1> HIDE DEF d, e, l
<1>4. \A z \in Worker : arr[z] + d - e \in Int
  BY <1>3
<1>5. \A z \in Worker : [arr EXCEPT ![l] = @ + d - e][z] \in Int
  BY <1>4
<1>6. QED
  BY <1>2, <1>5

\* Looking at one more task keeps what is chosen.
LEMMA LookKeeps ==
    ASSUME CostTypes, NEW w \in Worker, NEW c \in InGroup, NEW t \in Task
    PROVE  /\ Strategy!Look(w, c, t) \in InGroup
           /\ c.task # None => Strategy!Look(w, c, t).task # None
<1>1. /\ c.task \in Task \cup {None} /\ c.at \in Int /\ c.arr \in [Worker -> Int]
      /\ c.over \in BOOLEAN /\ c.task = None => c.at = Strategy!CostMax
  BY DEF InGroup, Chosen
<1>2. c = [task |-> c.task, at |-> c.at, arr |-> c.arr, over |-> c.over]
  BY DEF InGroup, Chosen
<1>3. CASE c.over
  BY <1>3 DEF Strategy!Look
<1>4. CASE ~c.over /\ Strategy!IsLowest(c.arr, w) /\ c.arr[w] < c.at
  <2>1. Strategy!Look(w, c, t) = [task |-> t, at |-> c.arr[w], arr |-> c.arr, over |-> TRUE]
    BY <1>2, <1>4 DEF Strategy!Look
  <2>2. QED
    BY <1>1, <2>1, TaskFields DEF InGroup, Chosen
<1>5. CASE ~c.over /\ ~(Strategy!IsLowest(c.arr, w) /\ c.arr[w] < c.at)
  <2>1. Strategy!Look(w, c, t) = [task |-> c.task, at |-> c.at,
                                  arr |-> Strategy!AddToLowest(c.arr, t), over |-> c.over]
    BY <1>2, <1>5 DEF Strategy!Look
  <2>2. QED
    BY <1>1, <2>1, AddToLowestType DEF InGroup, Chosen
<1>6. QED
  BY <1>3, <1>4, <1>5

\* The walk over the tasks of a type: what is chosen stays, and if the first
\* task is chosen one is.
LEMMA GroupKeeps ==
    ASSUME CostTypes, NEW w \in Worker, NEW c \in InGroup,
           NEW n \in Nat, NEW s \in [1 .. n -> Task]
    PROVE  /\ AfterGroup(w, c, s) \in InGroup
           /\ c.task # None => AfterGroup(w, c, s).task # None
           /\ n > 0 /\ Strategy!Look(w, c, s[1]).task # None
                => AfterGroup(w, c, s).task # None
<1>1. DOMAIN s = 1 .. n /\ \A i \in 1 .. n : s[i] \in Task
  OBVIOUS
<1>2. \A i \in 1 .. n, a \in InGroup : Strategy!Look(w, a, s[i]) \in InGroup
  BY <1>1, LookKeeps
<1>3. PICK a \in [0 .. n -> InGroup] : IsGroupWalk(a, n, c, w, s)
  BY <1>1, <1>2, GroupSteps
<1>4. ASSUME NEW m \in 0 .. n, a[m].task # None PROVE a[n].task # None
  <2> DEFINE S == {k \in Nat : m <= k /\ k <= n => a[k].task # None}
  <2>1. ASSUME NEW k \in Nat, k \in S PROVE k + 1 \in S
    <3> SUFFICES ASSUME m <= k + 1, k + 1 <= n PROVE a[k + 1].task # None
      OBVIOUS
    <3>1. CASE m = k + 1
      BY <1>4, <3>1
    <3>2. CASE m # k + 1
      <4>1. m <= k /\ k <= n /\ k \in 0 .. n /\ k + 1 \in 1 .. n /\ (k + 1) - 1 = k
        BY <3>2
      <4>2. a[k].task # None /\ a[k] \in InGroup
        BY <2>1, <4>1
      <4>3. a[k + 1] = Strategy!Look(w, a[k], s[k + 1])
        BY <1>3, <4>1 DEF IsGroupWalk
      <4>4. QED
        BY <1>1, <4>1, <4>2, <4>3, LookKeeps
    <3>3. QED
      BY <3>1, <3>2
  <2>2. 0 \in S
    BY <1>4
  <2> HIDE DEF S
  <2>3. n \in S
    BY <2>1, <2>2, AllNaturals
  <2>4. QED
    BY <2>3 DEF S
<1>5. a[n] \in InGroup
  BY <1>3
<1>6. c.task # None => a[n].task # None
  BY <1>3, <1>4 DEF IsGroupWalk
<1>7. n > 0 /\ Strategy!Look(w, c, s[1]).task # None => a[n].task # None
  <2> SUFFICES ASSUME n > 0, Strategy!Look(w, c, s[1]).task # None PROVE a[n].task # None
    OBVIOUS
  <2>1. 1 \in 1 .. n /\ 1 \in 0 .. n /\ 1 - 1 = 0
    OBVIOUS
  <2>2. a[1] = Strategy!Look(w, c, s[1])
    BY <1>3, <2>1 DEF IsGroupWalk
  <2>3. QED
    BY <1>4, <2>1, <2>2
<1>8. QED
  BY <1>3, <1>5, <1>6, <1>7 DEF IsGroupWalk

\* When each worker is free for a type is a number.
LEMMA FreeAtType ==
    ASSUME CostTypes, NEW k PROVE Strategy!FreeAt(k) \in [Worker -> Int]
<1>1. \A z \in Worker : Strategy!Positive(workers[z].end - now) \in Nat
  BY DEF CostTypes, Strategy!Positive
<1>2. \A z \in Worker : Strategy!Positive(workers[z].end - now) * Unit \in Nat
  BY <1>1, Numbers
<1>3. QED
  BY <1>2, Numbers DEF Strategy!FreeAt

\* Somebody else has the model and is free before the worker could load it.
SoonerElsewhere(w, k) ==
    \E z \in Worker \ {w} : workers[z].type = k /\ workers[z].end - now < LoadTime

\* If not, an idle worker is the first that is free for the type.
LEMMA FirstFree ==
    ASSUME CostInv, NEW w \in Worker, ~workers[w].working, NEW k, ~SoonerElsewhere(w, k)
    PROVE  /\ Strategy!IsLowest(Strategy!FreeAt(k), w)
           /\ Strategy!FreeAt(k)[w] < Strategy!CostMax
<1> DEFINE b(z) == Strategy!Positive(workers[z].end - now)
           load(z) == IF workers[z].type = k THEN 0 ELSE LoadTime * Unit
<1>1. \A z \in Worker : Strategy!FreeAt(k)[z] = b(z) * Unit + load(z)
  BY DEF Strategy!FreeAt
<1>2. \A z \in Worker : b(z) \in Nat
  BY DEF CostInv, CostTypes, Strategy!Positive
<1>3. b(w) = 0
  BY DEF CostInv, CostTypes, Strategy!Positive
<1>4. \A z \in Worker : load(z) \in 0 .. LoadTime * Unit
  BY Numbers
<1>5. Strategy!FreeAt(k)[w] = load(w)
  BY <1>1, <1>3, <1>4, Numbers
<1>6. ASSUME NEW z \in Worker PROVE load(w) <= Strategy!FreeAt(k)[z]
  <2>1. CASE z = w
    BY <1>4, <1>5, <2>1, Numbers
  <2>2. CASE z # w /\ workers[z].type # k
    <3>1. load(z) = LoadTime * Unit
      BY <2>2
    <3>2. b(z) * Unit \in Nat
      BY <1>2, Numbers
    <3> HIDE DEF b, load
    <3>3. QED
      BY <1>1, <1>4, <3>1, <3>2, Numbers
  <2>3. CASE z # w /\ workers[z].type = k
    <3>1. workers[z].end - now >= LoadTime
      BY <2>3, Numbers DEF SoonerElsewhere, CostInv, CostTypes
    <3>2. b(z) >= LoadTime
      BY <3>1, Numbers DEF CostInv, CostTypes, Strategy!Positive
    <3>3. load(z) = 0
      BY <2>3
    <3> HIDE DEF b, load
    <3>4. b(z) * Unit >= LoadTime * Unit /\ b(z) * Unit \in Nat
      BY <1>2, <3>2, Numbers
    <3>5. QED
      BY <1>1, <1>4, <3>3, <3>4, Numbers
  <2>4. QED
    BY <2>1, <2>2, <2>3
<1> HIDE DEF load, b
<1>7. load(w) \in Nat /\ load(w) < Strategy!CostMax
  BY <1>4, Numbers
<1>8. QED
  BY <1>5, <1>6, <1>7 DEF Strategy!IsLowest

\* The strategy counts as FiniteSets does.
LEMMA StrategyCardinality == ASSUME NEW S PROVE Strategy!Cardinality(S) = Cardinality(S)
  BY DEF Strategy!Cardinality, Cardinality

\* The types that wait are those of finitely many tasks.
LEMMA KeysAre ==
    ASSUME CostTypes
    PROVE  /\ IsFiniteSet(todo) /\ IsFiniteSet(Strategy!Keys)
           /\ Strategy!Keys \subseteq Nat
           /\ \A t \in todo : t.type \in Strategy!Keys
           /\ \A k \in Strategy!Keys : \E t \in todo : t.type = k
<1>1. IsFiniteSet(todo)
  BY FS_Subset, ServicesAssumption DEF CostTypes
<1>2. IsFiniteSet(Strategy!Keys)
  <2> DEFINE f == [t \in todo |-> t.type]
  <2>1. f \in Surjection(todo, Strategy!Keys)
    BY DEF Surjection, Strategy!Keys
  <2> HIDE DEF f
  <2>2. QED
    BY <1>1, <2>1, FS_Surjection
<1>3. Strategy!Keys \subseteq Nat
  BY TaskFields DEF CostTypes, Strategy!Keys
<1>4. QED
  BY <1>1, <1>2, <1>3 DEF Strategy!Keys

\* groupTasks puts every type that waits in its order.
LEMMA KeysAreSorted ==
    ASSUME CostTypes
    PROVE  \E n \in Nat : /\ Strategy!SortedKeys \in [1 .. n -> Strategy!Keys]
                          /\ \A k \in Strategy!Keys : \E i \in 1 .. n : Strategy!SortedKeys[i] = k
<1> DEFINE K == Strategy!Keys
           n == Cardinality(K)
           Good(s) == \A i, j \in DOMAIN s : i < j => s[i] < s[j]
<1>1. IsFiniteSet(K) /\ K \subseteq Nat /\ n \in Nat
  BY KeysAre, FS_CardinalityType
<1>2. PICK s \in Ordered(K) : TRUE
  <2>1. K \subseteq Int
    BY <1>1
  <2>2. QED
    BY <1>1, <2>1, OrderExists
<1>3. Strategy!SetToSeqs(K) = {f \in [1 .. n -> K] : \A i, j \in 1 .. n : i # j => f[i] # f[j]}
  BY StrategyCardinality DEF Strategy!SetToSeqs
<1>4. s \in [1 .. n -> K] /\ \A i, j \in 1 .. n : i < j => s[i] < s[j]
  BY <1>2 DEF Ordered
<1>5. Good(s)
  BY <1>4
<1> HIDE DEF K, n
<1>6. s \in Strategy!SetToSeqs(K)
  <2>1. \A i, j \in 1 .. n : i # j => s[i] # s[j]
    <3> SUFFICES ASSUME NEW i \in 1 .. n, NEW j \in 1 .. n, i # j PROVE s[i] # s[j]
      OBVIOUS
    <3>1. s[i] \in Nat /\ s[j] \in Nat
      BY <1>1, <1>4
    <3>2. i < j \/ j < i
      BY <1>1
    <3>3. QED
      BY <1>4, <3>1, <3>2
  <2>2. QED
    BY <1>3, <1>4, <2>1
<1>7. Strategy!SortedKeys = CHOOSE f \in Strategy!SetToSeqs(K) : Good(f)
  BY DEF Strategy!SortedKeys, K
<1>8. Strategy!SortedKeys \in Strategy!SetToSeqs(K)
  <2> HIDE DEF Good
  <2>1. QED
    BY <1>5, <1>6, <1>7
<1> DEFINE o == Strategy!SortedKeys
<1>9. o \in [1 .. n -> K] /\ \A i, j \in 1 .. n : i # j => o[i] # o[j]
  BY <1>3, <1>8
<1> HIDE DEF o
<1>10. o \in Surjection(1 .. n, K)
  <2>1. o \in Injection(1 .. n, K)
    BY <1>9 DEF Injection, IsInjective
  <2>2. Cardinality(1 .. n) = n /\ Cardinality(K) = n
    BY <1>1, FS_Interval DEF n
  <2>3. QED
    BY <1>1, <2>1, <2>2, FS_Injection
<1>11. \A k \in K : \E i \in 1 .. n : o[i] = k
  BY <1>10 DEF Surjection
<1>12. QED
  BY <1>1, <1>9, <1>11 DEF o, K

\* The tasks of a type, in an order that groupTasks may give.
LEMMA OrdersAre ==
    ASSUME CostTypes, NEW k \in Strategy!Keys, NEW s \in Strategy!Orders(k)
    PROVE  \E n \in Nat \ {0} : s \in [1 .. n -> Task]
<1> DEFINE T == Strategy!Group(k)
           n == Cardinality(T)
<1>1. T \subseteq Task /\ T \subseteq todo /\ T # {}
  BY KeysAre DEF CostTypes, Strategy!Group
<1>2. IsFiniteSet(T)
  BY <1>1, KeysAre, FS_Subset
<1>3. n \in Nat \ {0}
  BY <1>1, <1>2, FS_CardinalityType, FS_EmptySet
<1>4. s \in Strategy!SetToSeqs(T)
  BY DEF Strategy!Orders
<1> HIDE DEF T
<1>5. s \in [1 .. n -> T]
  BY <1>4, StrategyCardinality DEF Strategy!SetToSeqs
<1>6. QED
  BY <1>1, <1>3, <1>5

\* A type begins with what is chosen and its own arrivals.
LEMMA BeginsType ==
    ASSUME NEW c \in Chosen, NEW x, NEW y
    PROVE  [c EXCEPT !.arr = x, !.over = y]
             = [task |-> c.task, at |-> c.at, arr |-> x, over |-> y]
<1> DEFINE d == [c EXCEPT !.arr = x]
<1>1. d = [task |-> c.task, at |-> c.at, arr |-> x, over |-> c.over]
  BY DEF Chosen
<1>2. [c EXCEPT !.arr = x, !.over = y] = [d EXCEPT !.over = y]
  OBVIOUS
<1> HIDE DEF d
<1>3. d \in [task : {c.task}, at : {c.at}, arr : {x}, over : {c.over}]
  BY <1>1
<1>4. [d EXCEPT !.over = y] = [task |-> d.task, at |-> d.at, arr |-> d.arr, over |-> y]
  BY <1>3
<1>5. d.task = c.task /\ d.at = c.at /\ d.arr = x
  BY <1>1
<1>6. QED
  BY <1>2, <1>4, <1>5 DEF d

\* The choice of getTaskByV2: none only if each type of task that waits has its
\* model at another worker, which is free before this one could load it.
LEMMA TypeKeeps ==
    ASSUME CostInv, NEW w \in Worker, ~workers[w].working,
           NEW order, NEW k \in Strategy!Keys, order[k] \in Strategy!Orders(k),
           NEW c \in Chosen
    PROVE  /\ AfterType(w, order, c, k) \in Chosen
           /\ c.task # None \/ ~SoonerElsewhere(w, k)
                => AfterType(w, order, c, k).task # None
<1> DEFINE b == [c EXCEPT !.arr = Strategy!FreeAt(k), !.over = FALSE]
<1>1. CostTypes
  BY DEF CostInv
<1>2. /\ c.task \in Task \cup {None} /\ c.at \in Int
      /\ c.task = None => c.at = Strategy!CostMax
  BY DEF Chosen
<1>3. b = [task |-> c.task, at |-> c.at, arr |-> Strategy!FreeAt(k), over |-> FALSE]
  BY BeginsType, Zenon DEF b
<1> HIDE DEF b
<1>4. b \in InGroup
  BY <1>1, <1>2, <1>3, FreeAtType DEF InGroup, Chosen
<1>5. PICK n \in Nat \ {0} : order[k] \in [1 .. n -> Task]
  BY <1>1, OrdersAre
<1>6. AfterType(w, order, c, k) = AfterGroup(w, b, order[k])
  BY DEF AfterType, b
<1>7. /\ AfterGroup(w, b, order[k]) \in InGroup
      /\ b.task # None => AfterGroup(w, b, order[k]).task # None
      /\ Strategy!Look(w, b, order[k][1]).task # None
            => AfterGroup(w, b, order[k]).task # None
  <2>1. n \in Nat /\ n > 0
    OBVIOUS
  <2>2. QED
    BY <1>1, <1>4, <1>5, <2>1, GroupKeeps
<1>8. ASSUME c.task = None, ~SoonerElsewhere(w, k)
      PROVE  Strategy!Look(w, b, order[k][1]).task # None
  <2>1. /\ Strategy!IsLowest(b.arr, w) /\ b.arr[w] < b.at /\ ~b.over
    BY <1>2, <1>3, <1>8, FirstFree
  <2>2. Strategy!Look(w, b, order[k][1]) =
            [b EXCEPT !.task = order[k][1], !.at = b.arr[w], !.over = TRUE]
    BY <2>1 DEF Strategy!Look
  <2>3. Strategy!Look(w, b, order[k][1]).task = order[k][1]
    BY <1>3, <2>2
  <2>4. order[k][1] \in Task
    BY <1>5
  <2>5. QED
    BY <2>3, <2>4, TaskFields
<1>9. QED
  BY <1>3, <1>6, <1>7, <1>8 DEF InGroup

\* The walk over all types: none is chosen only if each waits for somebody else.
LEMMA ByV2Waits ==
    ASSUME CostInv, NEW w \in Worker, ~workers[w].working,
           NEW order, \A k \in Strategy!Keys : order[k] \in Strategy!Orders(k)
    PROVE  /\ Strategy!ByV2(w, order) \in Task \cup {None}
           /\ Strategy!ByV2(w, order) = None
                => \A k \in Strategy!Keys : SoonerElsewhere(w, k)
<1>1. CostTypes
  BY DEF CostInv
<1>2. PICK n \in Nat :
            /\ Strategy!SortedKeys \in [1 .. n -> Strategy!Keys]
            /\ \A k \in Strategy!Keys : \E i \in 1 .. n : Strategy!SortedKeys[i] = k
  BY <1>1, KeysAreSorted
<1> DEFINE o == Strategy!SortedKeys
<1>3. \A i \in 1 .. n : o[i] \in Strategy!Keys /\ order[o[i]] \in Strategy!Orders(o[i])
  BY <1>2
<1>4. Nothing \in Chosen
  BY Numbers DEF Nothing, Chosen
<1> HIDE DEF o
<1>5. \A i \in 1 .. n, a \in Chosen :
         /\ AfterType(w, order, a, o[i]) \in Chosen
         /\ a.task # None \/ ~SoonerElsewhere(w, o[i])
              => AfterType(w, order, a, o[i]).task # None
  BY <1>3, TypeKeeps
<1>6. PICK a \in [0 .. n -> Chosen] : IsTypeWalk(a, n, w, order)
  <2>1. \A i \in 1 .. n, a \in Chosen :
           AfterType(w, order, a, Strategy!SortedKeys[i]) \in Chosen
    BY <1>5 DEF o
  <2>2. DOMAIN Strategy!SortedKeys = 1 .. n
    BY <1>2
  <2>3. QED
    BY <1>4, <2>1, <2>2, TypeSteps
<1>7. /\ \A i \in 1 .. n : a[i] = AfterType(w, order, a[i - 1], o[i])
      /\ a[n] = AfterTypes(w, order)
  BY <1>6 DEF IsTypeWalk, o
<1>8. \A i \in 1 .. n :
         a[i - 1].task # None \/ ~SoonerElsewhere(w, o[i]) => a[i].task # None
  <2>1. \A i \in 1 .. n : a[i - 1] \in Chosen
    OBVIOUS
  <2>2. QED
    BY <1>5, <1>7, <2>1
<1>9. ASSUME NEW m \in 1 .. n, ~SoonerElsewhere(w, o[m]) PROVE a[n].task # None
  <2> DEFINE S == {k \in Nat : m <= k /\ k <= n => a[k].task # None}
  <2>1. ASSUME NEW k \in Nat, k \in S PROVE k + 1 \in S
    <3> SUFFICES ASSUME m <= k + 1, k + 1 <= n PROVE a[k + 1].task # None
      OBVIOUS
    <3>1. CASE m = k + 1
      BY <1>8, <1>9, <3>1
    <3>2. CASE m # k + 1
      <4>1. m <= k /\ k <= n /\ k + 1 \in 1 .. n /\ (k + 1) - 1 = k
        BY <3>2
      <4>2. a[k].task # None
        BY <2>1, <4>1
      <4>3. QED
        BY <1>8, <4>1, <4>2
    <3>3. QED
      BY <3>1, <3>2
  <2>2. 0 \in S
    OBVIOUS
  <2> HIDE DEF S
  <2>3. n \in S
    BY <2>1, <2>2, AllNaturals
  <2>4. QED
    BY <2>3 DEF S
<1>10. a[n] \in Chosen
  OBVIOUS
<1>11. Strategy!ByV2(w, order) = a[n].task
  BY <1>7, ByV2Is
<1>12. a[n].task \in Task \cup {None}
  BY <1>10 DEF Chosen
<1>13. a[n].task = None => \A k \in Strategy!Keys : SoonerElsewhere(w, k)
  <2> SUFFICES ASSUME NEW k \in Strategy!Keys, ~SoonerElsewhere(w, k) PROVE a[n].task # None
    OBVIOUS
  <2>1. PICK i \in 1 .. n : o[i] = k
    BY <1>2 DEF o
  <2>2. QED
    BY <1>9, <2>1
<1>14. QED
  BY <1>11, <1>12, <1>13

\* The oldest tasks of a type that waits, which have waited for the same time.
LEMMA OldestAre ==
    ASSUME CostTypes, NEW k \in Strategy!Keys
    PROVE  /\ Strategy!Oldest(k) # {} /\ Strategy!Oldest(k) \subseteq todo
           /\ \A t \in Strategy!Oldest(k) : t.type = k /\ t \in Task
           /\ \A t \in Strategy!Oldest(k), u \in todo :
                 u.type = k => Strategy!Waited(u) <= Strategy!Waited(t)
<1> DEFINE T == Strategy!Group(k)
           f == [t \in T |-> t.arrived]
<1>1. T \subseteq todo /\ T \subseteq Task /\ T # {} /\ \A t \in T : t.type = k
  BY KeysAre DEF CostTypes, Strategy!Group
<1>2. IsFiniteSet(T) /\ f \in [T -> Int] /\ \A t \in T : f[t] = t.arrived
  BY <1>1, KeysAre, FS_Subset, TaskFields
<1>3. PICK t \in T : \A u \in T : f[t] <= f[u]
  <2> HIDE DEF f, T
  <2>1. QED
    BY <1>1, <1>2, CheapestOf
<1>4. t \in Strategy!Oldest(k)
  BY <1>2, <1>3 DEF Strategy!Oldest
<1>5. Strategy!Oldest(k) \subseteq T
  BY DEF Strategy!Oldest
<1>6. ASSUME NEW s \in Strategy!Oldest(k), NEW u \in todo, u.type = k
      PROVE  Strategy!Waited(u) <= Strategy!Waited(s)
  <2>1. u \in T /\ s \in T
    BY <1>5, <1>6 DEF Strategy!Group
  <2>2. s.arrived <= u.arrived /\ s.arrived \in Int /\ u.arrived \in Int /\ now \in Nat
    BY <1>1, <2>1, TaskFields DEF Strategy!Oldest, CostTypes
  <2>3. QED
    BY <2>2 DEF Strategy!Waited, Strategy!Positive
<1>7. QED
  BY <1>1, <1>4, <1>5, <1>6

\* What the longest wait for a type is worth.
LEMMA CostIs ==
    ASSUME CostTypes, NEW k \in Strategy!Keys
    PROVE  \E x \in Nat :
              /\ \A w : Strategy!CalcCost(w, k) =
                         (IF workers[w].type = k THEN 0 ELSE LoadTime * Unit) - x
              /\ \A t \in Strategy!Oldest(k) : Strategy!Waited(t) * DelayCost = x
              /\ \A u \in todo : u.type = k => Strategy!Waited(u) * DelayCost <= x
<1> DEFINE C == {Strategy!Waited(t) * DelayCost : t \in Strategy!Oldest(k)}
           x == CHOOSE c \in C : TRUE
<1>1. x \in C
  BY OldestAre
<1>2. PICK t \in Strategy!Oldest(k) : x = Strategy!Waited(t) * DelayCost
  BY <1>1
<1>3. \A w : Strategy!CalcCost(w, k) =
               (IF workers[w].type = k THEN 0 ELSE LoadTime * Unit) - x
  BY DEF Strategy!CalcCost
<1> HIDE DEF x
<1>4. t \in Task /\ t \in todo /\ t.type = k
  BY OldestAre
<1>5. x \in Nat
  BY <1>2, <1>4, WaitedIs
<1>6. ASSUME NEW u \in todo, u.type = k PROVE Strategy!Waited(u) * DelayCost <= x
  <2>1. u \in Task
    BY DEF CostTypes
  <2>2. Strategy!Waited(u) <= Strategy!Waited(t)
    BY <1>6, OldestAre
  <2>3. Strategy!Waited(u) \in Nat /\ Strategy!Waited(t) \in Nat /\ DelayCost \in Nat
    BY <1>4, <2>1, WaitedIs, Numbers
  <2>4. QED
    BY <1>2, <2>2, <2>3
<1>7. ASSUME NEW s \in Strategy!Oldest(k) PROVE Strategy!Waited(s) * DelayCost = x
  <2>1. s \in Task /\ s \in todo /\ s.type = k
    BY OldestAre
  <2>2. Strategy!Waited(s) <= Strategy!Waited(t) /\ Strategy!Waited(t) <= Strategy!Waited(s)
    BY <1>4, <2>1, OldestAre
  <2>3. Strategy!Waited(s) \in Nat /\ Strategy!Waited(t) \in Nat
    BY <1>4, <2>1, WaitedIs
  <2>4. Strategy!Waited(s) = Strategy!Waited(t)
    BY <2>2, <2>3
  <2>5. QED
    BY <1>2, <2>4
<1>8. QED
  BY <1>3, <1>5, <1>6, <1>7

\* When the walk is needed no type is a candidate (getBest finds the cheapest).
LEMMA NoCandidate ==
    ASSUME CostTypes, NEW w \in Worker, Strategy!GetBest(w) = {}
    PROVE  Strategy!Candidates(w) = {}
<1> SUFFICES ASSUME Strategy!Candidates(w) # {} PROVE FALSE
  OBVIOUS
<1> DEFINE K == Strategy!Candidates(w)
           f == [k \in K |-> Strategy!CalcCost(w, k)]
<1>1. K \subseteq Strategy!Keys /\ IsFiniteSet(K)
  BY KeysAre, FS_Subset DEF Strategy!Candidates
<1>2. \A k \in K : Strategy!CalcCost(w, k) \in Int
  <2> SUFFICES ASSUME NEW k \in K PROVE Strategy!CalcCost(w, k) \in Int
    OBVIOUS
  <2>1. QED
    BY <1>1, CostIs, Numbers
<1>3. f \in [K -> Int] /\ \A k \in K : f[k] = Strategy!CalcCost(w, k)
  BY <1>2
<1>4. PICK k \in K : \A j \in K : f[k] <= f[j]
  <2> HIDE DEF f, K
  <2>1. K # {}
    BY DEF K
  <2>2. QED
    BY <1>1, <1>3, <2>1, CheapestOf
<1>5. k \in Strategy!GetBest(w)
  BY <1>3, <1>4 DEF Strategy!GetBest
<1>6. QED
  BY <1>5

\* The type of no task is that of no worker: nobody is sooner free for it.
LEMMA NobodyHasNoType ==
    ASSUME CostTypes
    PROVE  /\ \A z \in Worker : workers[z].type # Strategy!NoType
           /\ \A w \in Worker : ~SoonerElsewhere(w, Strategy!NoType)
<1>1. Strategy!NoType \notin Types
  BY ServicesAssumption DEF Types, Strategy!NoType
<1>2. \A z \in Worker : workers[z].type \in Types
  BY DEF CostTypes
<1>3. QED
  BY <1>1, <1>2 DEF SoonerElsewhere

\* What FindBest selects is a task that waits, or none; none is selected only by
\* getTaskByV2, when each type waits for somebody else.
LEMMA FindsTask ==
    ASSUME CostInv, NEW w \in Worker, ~workers[w].working
    PROVE  /\ Strategy!FindBest(w) \subseteq Task \cup {None}
           /\ Strategy!GetBest(w) # {} /\ Strategy!NoType \notin Strategy!GetBest(w) =>
                 \A t \in Strategy!FindBest(w) :
                     \E k \in Strategy!GetBest(w) : t \in Strategy!Oldest(k)
           /\ None \in Strategy!FindBest(w) =>
                 \A k \in Strategy!Keys : SoonerElsewhere(w, k)
<1>1. CostTypes
  BY DEF CostInv
<1>2. \A k \in Strategy!GetBest(w) : Strategy!Oldest(k) \subseteq Task
  <2>1. \A k \in Strategy!GetBest(w) : k \in Strategy!Keys
    BY DEF Strategy!GetBest, Strategy!Candidates
  <2>2. QED
    BY <1>1, <2>1, OldestAre
<1>3. ASSUME NEW t \in Strategy!GetTaskByV2(w)
      PROVE  /\ t \in Task \cup {None}
             /\ t = None => \A k \in Strategy!Keys : SoonerElsewhere(w, k)
  <2>1. PICK order :
            /\ t = Strategy!ByV2(w, order)
            /\ \A k \in Strategy!Keys : order[k] \in Strategy!Orders(k)
    BY DEF Strategy!GetTaskByV2
  <2>2. QED
    BY <2>1, ByV2Waits
<1>4. ASSUME NEW t \in Strategy!FindBest(w)
      PROVE  \/ \E k \in Strategy!GetBest(w) : t \in Strategy!Oldest(k)
             \/ /\ Strategy!GetBest(w) = {} \/ Strategy!NoType \in Strategy!GetBest(w)
                /\ t \in Strategy!GetTaskByV2(w)
  BY DEF Strategy!FindBest
<1>5. None \notin Task
  BY ServicesAssumption
<1>6. QED
  BY <1>2, <1>3, <1>4, <1>5

\* getTaskByV2 gives a worker nothing only when it is right to wait.
LEMMA WaitingIsRight == CostInv => Strategy!WaitsForSooner
<1> SUFFICES ASSUME CostInv, NEW w \in Strategy!Idle, None \in Strategy!FindBest(w),
                    NEW t \in todo
             PROVE  \E z \in Worker \ {w} : /\ workers[z].type = t.type
                                            /\ workers[z].end - now < LoadTime
  BY DEF Strategy!WaitsForSooner
<1>1. CostTypes
  BY DEF CostInv
<1>2. w \in Worker /\ ~workers[w].working
  BY DEF Strategy!Idle
<1>3. t.type \in Strategy!Keys
  BY <1>1, KeysAre
<1>4. SoonerElsewhere(w, t.type)
  BY <1>2, <1>3, FindsTask
<1>5. QED
  BY <1>4 DEF SoonerElsewhere

\* A type that waits has a worker for which it is a candidate: one that has
\* its model, or any if there is none.
LEMMA SomeCandidate ==
    ASSUME CostTypes, NEW k \in Strategy!Keys
    PROVE  \E w \in Worker : k \in Strategy!Candidates(w)
<1>1. PICK x \in Nat :
         \A w : Strategy!CalcCost(w, k) =
                  (IF workers[w].type = k THEN 0 ELSE LoadTime * Unit) - x
  BY CostIs
<1>2. PICK w \in Worker :
         workers[w].type = k \/ \A z \in Worker : workers[z].type # k
  <2>1. Worker # {}
    BY ServicesAssumption
  <2>2. CASE \E z \in Worker : workers[z].type = k
    BY <2>2
  <2>3. CASE \A z \in Worker : workers[z].type # k
    BY <2>1, <2>3
  <2>4. QED
    BY <2>2, <2>3
<1>3. Strategy!CalcCost(w, k) < Strategy!CostMax
  BY <1>1, Numbers
<1>4. \A z \in Worker : Strategy!CalcCost(z, k) >= Strategy!CalcCost(w, k)
  BY <1>1, <1>2, Numbers
<1>5. QED
  BY <1>3, <1>4 DEF Strategy!Candidates, Strategy!IsBestColumnValue

\* When all workers are idle and a task waits, one of them gets a task.
LEMMA OneIsServed == CostInv => Strategy!SomeIdleIsServed
<1> SUFFICES ASSUME CostInv, Strategy!Idle = Worker, todo # {}
             PROVE  \E w \in Worker : None \notin Strategy!FindBest(w)
  BY DEF Strategy!SomeIdleIsServed
<1>1. CostTypes
  BY DEF CostInv
<1>2. \A w \in Worker : ~workers[w].working
  BY DEF Strategy!Idle
<1>3. CASE Strategy!NoType \in Strategy!Keys
  <2>1. Worker # {}
    BY ServicesAssumption
  <2> PICK w \in Worker : TRUE
    BY <2>1
  <2>2. ~workers[w].working
    BY <1>2
  <2>3. None \in Strategy!FindBest(w) => \A k \in Strategy!Keys : SoonerElsewhere(w, k)
    BY <2>2, FindsTask, Zenon
  <2>4. ~SoonerElsewhere(w, Strategy!NoType)
    BY <1>1, NobodyHasNoType
  <2>5. QED
    BY <1>3, <2>3, <2>4
<1>4. CASE Strategy!NoType \notin Strategy!Keys
  <2>1. PICK t \in todo : t.type \in Strategy!Keys
    BY <1>1, KeysAre
  <2>2. PICK w \in Worker : t.type \in Strategy!Candidates(w)
    BY <1>1, <2>1, SomeCandidate
  <2>3. Strategy!GetBest(w) # {} /\ Strategy!GetBest(w) \subseteq Strategy!Keys
    BY <1>1, <2>2, NoCandidate DEF Strategy!GetBest, Strategy!Candidates
  <2>4. ASSUME None \in Strategy!FindBest(w) PROVE FALSE
    <3>1. PICK k \in Strategy!GetBest(w) : None \in Strategy!Oldest(k)
      BY <1>2, <1>4, <2>3, <2>4, FindsTask
    <3>2. None \in Task
      BY <1>1, <2>3, <3>1, OldestAre
    <3>3. QED
      BY <3>2, ServicesAssumption
  <2>5. QED
    BY <2>4
<1>5. QED
  BY <1>3, <1>4

\* A type that waits is a candidate for a worker that has its model, and for
\* every worker when none has it.
LEMMA LongWaitIsCandidate ==
    ASSUME CostTypes, NEW w \in Worker, NEW k \in Strategy!Keys,
           workers[w].type = k \/ \A z \in Worker : workers[z].type # k
    PROVE  k \in Strategy!Candidates(w)
<1>1. PICK x \in Nat :
         \A z : Strategy!CalcCost(z, k) =
                  (IF workers[z].type = k THEN 0 ELSE LoadTime * Unit) - x
  BY CostIs
<1>2. Strategy!CalcCost(w, k) < Strategy!CostMax
  BY <1>1, Numbers
<1>3. \A z \in Worker : Strategy!CalcCost(z, k) >= Strategy!CalcCost(w, k)
  BY <1>1, Numbers
<1>4. QED
  BY <1>2, <1>3 DEF Strategy!Candidates, Strategy!IsBestColumnValue

\* No candidate that waited long enough is dearer than the choice (getBest).
LEMMA LongWaitIsServed == CostInv => Strategy!NotPassedOver
<1> SUFFICES ASSUME CostInv, NEW w \in Strategy!Idle,
                    NEW t \in Strategy!FindBest(w) \ {None}, NEW u \in todo,
                    Strategy!Waited(u) * DelayCost >
                        Strategy!Waited(t) * DelayCost + LoadTime * Unit,
                    workers[w].type = u.type \/ \A z \in Worker : workers[z].type # u.type,
                    ~Strategy!Hidden(u)
             PROVE  FALSE
  BY DEF Strategy!NotPassedOver, Strategy!Idle
<1>1. CostTypes
  BY DEF CostInv
<1>2. w \in Worker /\ ~workers[w].working
  BY DEF Strategy!Idle
<1>3. u.type \in Strategy!Keys
  BY <1>1, KeysAre
<1>4. u.type \in Strategy!Candidates(w)
  BY <1>1, <1>2, <1>3, LongWaitIsCandidate
<1>5. Strategy!GetBest(w) # {}
  BY <1>1, <1>2, <1>4, NoCandidate
<1> DEFINE load(j) == IF workers[w].type = j THEN 0 ELSE LoadTime * Unit
<1>6. \A j : load(j) \in 0 .. LoadTime * Unit
  BY Numbers
<1>7. PICK y \in Nat : /\ Strategy!CalcCost(w, u.type) = load(u.type) - y
                       /\ Strategy!Waited(u) * DelayCost <= y
  BY <1>1, <1>3, CostIs
<1>8. u \in Task /\ Strategy!Waited(u) \in Nat /\ Strategy!Waited(u) * DelayCost \in Nat
  BY <1>1, WaitedIs DEF CostTypes
<1>9. Strategy!NoType \notin Strategy!GetBest(w)
  <2> SUFFICES ASSUME Strategy!NoType \in Strategy!GetBest(w) PROVE FALSE
    OBVIOUS
  <2> DEFINE n == Strategy!NoType
  <2>1. n \in Strategy!Keys /\ Strategy!CalcCost(w, n) <= Strategy!CalcCost(w, u.type)
    BY <1>4 DEF Strategy!GetBest, Strategy!Candidates
  <2>2. PICK x \in Nat : /\ Strategy!CalcCost(w, n) = load(n) - x
                         /\ \A z \in Strategy!Oldest(n) : Strategy!Waited(z) * DelayCost = x
    BY <1>1, <2>1, CostIs
  <2>3. PICK z \in Strategy!Oldest(n) : z \in todo /\ z.type = n /\ z \in Task
    BY <1>1, <2>1, OldestAre
  <2>4. load(n) = LoadTime * Unit
    BY <1>1, <1>2, NobodyHasNoType
  <2>5. Strategy!Waited(u) * DelayCost <= Strategy!Waited(z) * DelayCost
    <3>1. Strategy!Waited(z) * DelayCost = x
      BY <2>2
    <3> HIDE DEF load
    <3>2. QED
      BY <1>6, <1>7, <1>8, <2>1, <2>2, <2>4, <3>1, Numbers
  <2>6. Strategy!Waited(u) <= Strategy!Waited(z)
    <3>1. Strategy!Waited(z) \in Nat /\ DelayCost \in Nat \ {0}
      BY <1>1, <2>3, WaitedIs, ServicesAssumption
    <3>2. QED
      BY <1>8, <2>5, <3>1
  <2>7. QED
    BY <2>3, <2>6, <1>8 DEF Strategy!Hidden
<1>10. PICK k \in Strategy!GetBest(w) : t \in Strategy!Oldest(k)
  BY <1>2, <1>5, <1>9, FindsTask
<1>11. k \in Strategy!Keys /\ Strategy!CalcCost(w, k) <= Strategy!CalcCost(w, u.type)
  BY <1>4 DEF Strategy!GetBest, Strategy!Candidates
<1>12. PICK x \in Nat : /\ Strategy!CalcCost(w, k) = load(k) - x
                        /\ Strategy!Waited(t) * DelayCost = x
  BY <1>1, <1>10, <1>11, CostIs
<1> HIDE DEF load
<1>13. QED
  BY <1>6, <1>7, <1>8, <1>11, <1>12, Numbers

\* The choice is right when the invariant holds.
LEMMA ChoiceFollows == CostInv => Strategy!ChoiceIsRight
  BY OneIsServed, WaitingIsRight, LongWaitIsServed DEF Strategy!ChoiceIsRight

\* A step of the services is one of the strategy or leaves its variables.
LEMMA CostSteps == ASSUME [Next]_vars PROVE /\ Strategy!Next \/ UNCHANGED costVars
                                            /\ UNCHANGED part
  BY DEF Next, vars, UploadStep, CleanStep, InformStep, EventStep, CostStep, PunctStep,
         MapStep, MeterStep, Running

\* A worker that is started for a task is busy, the others stay as they are.
LEMMA StartedKeeps ==
    ASSUME CostInv, NEW w \in Worker, ~workers[w].working, Strategy!Changed(w)
    PROVE  CostInv'
<1>1. CostTypes
  BY DEF CostInv
<1>2. PICK t \in Strategy!FindBest(w) \ {None} :
         /\ todo' = todo \ {t}
         /\ workers' = Strategy!Started(w, t)
  BY DEF Strategy!Changed
<1>3. t \in Task /\ now' = now
  BY <1>2, FindsTask DEF Strategy!Changed
<1> DEFINE load == IF workers[w].type = t.type THEN 0 ELSE LoadTime
           new == [type |-> Strategy!ModelOf(t), working |-> TRUE,
                   end |-> now + t.duration * RtFactor + load]
<1>4. new \in [type : Types, end : Nat, working : BOOLEAN]
  <2>1. t.duration * RtFactor \in Nat /\ load \in Nat /\ now \in Nat
    BY <1>1, <1>3, TaskFields, Numbers DEF CostTypes
  <2>2. Strategy!ModelOf(t) \in Types
    BY <1>3 DEF Types, Strategy!ModelOf
  <2> HIDE DEF load
  <2>3. now + t.duration * RtFactor + load \in Nat
    BY <2>1
  <2>4. QED
    BY <2>2, <2>3
<1>5. workers' = [workers EXCEPT ![w] = new]
  BY <1>2 DEF Strategy!Started
<1>6. new.working
  OBVIOUS
<1> HIDE DEF new
<1>7. CostTypes'
  BY <1>1, <1>2, <1>3, <1>4, <1>5 DEF CostTypes, Types
<1>8. \A z \in Worker : ~workers'[z].working => workers'[z].end <= now'
  <2> SUFFICES ASSUME NEW z \in Worker, ~workers'[z].working PROVE workers'[z].end <= now'
    OBVIOUS
  <2>1. z # w
    BY <1>1, <1>5, <1>6 DEF CostTypes
  <2>2. workers'[z] = workers[z]
    BY <1>1, <1>5, <2>1 DEF CostTypes
  <2>3. QED
    BY <1>3, <2>2 DEF CostInv
<1>9. QED
  BY <1>7, <1>8 DEF CostInv

\* A worker that is done has been busy until now.
LEMMA CompletedKeeps ==
    ASSUME CostInv, NEW w \in Worker, Strategy!CompleteTask(w) PROVE CostInv'
<1>1. /\ workers' = [workers EXCEPT ![w].working = FALSE, ![w].end = now]
      /\ todo' = todo /\ now' = now
  BY DEF Strategy!CompleteTask
<1>2. /\ workers \in [Worker -> [type : Types, end : Nat, working : BOOLEAN]] /\ now \in Nat
      /\ todo \subseteq Task
      /\ \A z \in Worker : ~workers[z].working => workers[z].end <= now
  BY DEF CostInv, CostTypes
<1>3. /\ workers' \in [Worker -> [type : Types, end : Nat, working : BOOLEAN]]
      /\ workers'[w].end = now
      /\ \A z \in Worker : z # w => workers'[z] = workers[z]
  BY <1>1, <1>2
<1>4. \A z \in Worker : ~workers'[z].working => workers'[z].end <= now'
  BY <1>1, <1>2, <1>3
<1>5. QED
  BY <1>1, <1>2, <1>3, <1>4 DEF CostInv, CostTypes, Types

\* The other parts have no strategy.
CostHolds == part = "cost" => CostInv

\* It holds before any task is started.
LEMMA CostStarts == Init => CostHolds
<1> SUFFICES ASSUME Init, part = "cost" PROVE CostInv
  BY DEF CostHolds
<1>1. Strategy!Init
  BY DEF Init, CostInit
<1> DEFINE R == [type : Types, end : {0}, working : {FALSE}]
<1>2. todo \subseteq Task /\ workers \in [Worker -> R] /\ now = 0
  BY <1>1 DEF Strategy!Init, Types
<1>3. ASSUME NEW r \in R PROVE r \in [type : Types, end : Nat, working : BOOLEAN] /\ r.end = 0
  <2>1. r = [type |-> r.type, end |-> r.end, working |-> r.working] /\ r.type \in Types
    OBVIOUS
  <2>2. r.end = 0 /\ r.working \in {FALSE}
    OBVIOUS
  <2>3. r.working \in BOOLEAN
    BY <2>2, Zenon
  <2>4. QED
    BY <2>1, <2>2, <2>3
<1> HIDE DEF R
<1>4. CostTypes
  BY <1>2, <1>3 DEF CostTypes
<1>5. \A w \in Worker : workers[w].end <= now
  BY <1>2, <1>3
<1>6. QED
  BY <1>4, <1>5 DEF CostInv

\* Every step keeps it.
LEMMA CostKeeps == CostHolds /\ [Next]_vars => CostHolds'
<1> SUFFICES ASSUME CostHolds, [Next]_vars, part' = "cost" PROVE CostInv'
  BY DEF CostHolds
<1>1. CostInv
  BY CostSteps DEF CostHolds
<1>2. ASSUME NEW w \in Worker, Strategy!Changed(w) PROVE CostInv'
  BY <1>1, <1>2, StartedKeeps DEF Strategy!Changed
<1>3. ASSUME NEW w \in Worker, Strategy!CompleteTask(w) PROVE CostInv'
  BY <1>1, <1>3, CompletedKeeps
<1>4. CASE Strategy!Tick
  BY <1>1, <1>4 DEF Strategy!Tick, CostInv, CostTypes, Types
<1>5. CASE UNCHANGED costVars
  BY <1>1, <1>5 DEF costVars, CostInv, CostTypes, Types
<1>6. QED
  BY <1>2, <1>3, <1>4, <1>5, CostSteps DEF Strategy!Next

\* The choices of the cost strategy are right: workers are not all idle while a
\* task waits, an idle worker waits only for one that is free before it could
\* load the model itself, and no task that waited for longer than a load is
\* worth is passed over but by a worker that would load a model that another
\* one has, or for a task of no type that waited no less, which FindBest takes
\* for no choice at all (CostStrategy.FindBest).
THEOREM ChoiceStaysRight == Spec => []ChoiceIsRight
<1>1. CostHolds => ChoiceIsRight
  BY ChoiceFollows DEF CostHolds, ChoiceIsRight
<1>2. QED
  BY <1>1, CostStarts, CostKeeps, PTL DEF Spec
=============================================================================
