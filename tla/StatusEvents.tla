---------------------------- MODULE StatusEvents ----------------------------
(***************************************************************************)
(* The status service: websockets subscribe to the status of an id, and a  *)
(* listener takes the ids of changed statuses from a queue of its own,     *)
(* reads the status and writes it to the subscribers.  The queue lives as  *)
(* long as the listener's channel: what is published without one is lost.  *)
(***************************************************************************)
EXTENDS Naturals, Sequences, FiniteSets

CONSTANTS
    Topic,          \* the ids that are subscribed to
    Conn,           \* websocket connections
    MaxChanges,     \* the statuses an id goes through
    MaxMessages,    \* the subscriptions each connection sends
    InitialWait, MaxWait,
    Faults, MaxFaults, None

VARIABLES
    connectionID,   \* connectionIDMap
    idConnections,  \* idConnectionMap, no entry being the empty set
    cpc,            \* where the handler of a connection is
    messages,       \* subscriptions it has read
    current,        \* the status of an id in the database
    announced,      \* the status that was last published as an event
    queue,          \* the events in the listener's queue
    channel,        \* the provider's channel: "none", "open" or "dead"
    lpc,            \* where registerQueue and listenQueue are
    wait,           \* the pause before the next attempt
    event,          \* the id of the event in work
    toSend,         \* its connections when the loop over them began
    visited,        \* those the loop has been at
    result,         \* the status read for it
    shown,          \* the status written to a connection since it subscribed
    missed,         \* connections that the event of their newest status, if any,
                    \* came too early for or did not get to
    faults

eventVars == <<connectionID, idConnections, cpc, messages, current, announced,
               queue, channel, lpc, wait, event, toSend, visited, result, shown,
               missed>>

Fault(kind) ==
    /\ kind \in Faults \ faults
    /\ Cardinality(faults) < MaxFaults
    /\ faults' = faults \cup {kind}

-----------------------------------------------------------------------------
Init ==
    /\ connectionID = [c \in Conn |-> None]
    /\ idConnections = [t \in Topic |-> {}]
    /\ cpc = [c \in Conn |-> "open"]
    /\ messages = [c \in Conn |-> 0]
    /\ current = [t \in Topic |-> 0]
    /\ announced = [t \in Topic |-> 0]
    /\ queue = <<>>
    /\ channel = "none"
    /\ lpc = "connect"
    /\ wait = InitialWait
    /\ event = None
    /\ toSend = {}
    /\ visited = {}
    /\ result = None
    /\ shown = [c \in Conn |-> None]
    /\ missed = {}

connVars == <<connectionID, idConnections, cpc, messages>>
busVars == <<current, announced>>
listenVars == <<queue, channel, lpc, wait, event, toSend, visited, result>>
clientVars == <<shown, missed>>

\* deleteConnectionNoSync: the entries of a connection in both maps.
Without(c) ==
    IF connectionID[c] = None THEN idConnections
    ELSE [idConnections EXCEPT ![connectionID[c]] = @ \ {c}]

Subscribed(c, t) == [Without(c) EXCEPT ![t] = @ \cup {c}]

\* An event of the id is still to be taken, or its status is to be read.
Queued(t) == \E k \in DOMAIN queue : queue[k] = t
Coming(t) == Queued(t) \/ (event = t /\ result = None)
Lost(t, conns) == missed' = IF Queued(t) THEN missed ELSE missed \cup conns

\* A message of a connection is the id it subscribes to (saveConnection).
\* Nothing is written to it before an event comes.
Subscribe(c, t) ==
    /\ cpc[c] = "open"
    /\ messages[c] < MaxMessages[c]
    /\ messages' = [messages EXCEPT ![c] = @ + 1]
    /\ idConnections' = Subscribed(c, t)
    /\ connectionID' = [connectionID EXCEPT ![c] = t]
    /\ shown' = [shown EXCEPT ![c] = None]
    /\ missed' = IF Coming(t) THEN missed \ {c} ELSE missed \cup {c}
    /\ UNCHANGED <<cpc, busVars, listenVars, faults>>

\* The socket fails: it is closed, then deleted from the maps.
CloseConn(c) ==
    /\ cpc[c] = "open"
    /\ cpc' = [cpc EXCEPT ![c] = "closing"]
    /\ UNCHANGED <<connectionID, idConnections, messages, busVars, listenVars,
                   clientVars, faults>>

DeleteConnection(c) ==
    /\ cpc[c] = "closing"
    /\ cpc' = [cpc EXCEPT ![c] = "closed"]
    /\ idConnections' = Without(c)
    /\ connectionID' = [connectionID EXCEPT ![c] = None]
    /\ UNCHANGED <<messages, busVars, listenVars, clientVars, faults>>

-----------------------------------------------------------------------------
\* The rest of the system saves a status, then publishes the change.
Change(t) ==
    /\ current[t] < MaxChanges[t]
    /\ announced[t] = current[t]
    /\ current' = [current EXCEPT ![t] = @ + 1]
    /\ UNCHANGED <<connVars, announced, listenVars, clientVars, faults>>

Listening == channel = "open" /\ lpc \in {"listen", "event"}

Publish(t) ==
    /\ announced[t] < current[t]
    /\ announced' = [announced EXCEPT ![t] = current[t]]
    /\ IF Listening
       THEN queue' = Append(queue, t) /\ missed' = missed \ idConnections[t]
       ELSE missed' = missed \cup idConnections[t] /\ UNCHANGED queue
    /\ UNCHANGED <<connVars, current, channel, lpc, wait, event, toSend, visited,
                   result, shown, faults>>

-----------------------------------------------------------------------------
(***************************************************************************)
(* registerQueue: an attempt to have a channel and a queue.  A dead        *)
(* channel is replaced by the retry of QueueDeclare, but the retry declares*)
(* on the dead one again, and the attempt fails.                           *)
(***************************************************************************)
Longer == IF 2 * wait > MaxWait THEN MaxWait ELSE 2 * wait

Refused(ch) == lpc' = "wait" /\ wait' = Longer /\ channel' = ch

\* Mutant of Connect: the retry does not open a new channel.
ConnectDead ==
    /\ lpc = "connect"
    /\ \/ /\ channel # "dead"
          /\ channel' = "open"
          /\ lpc' = "listen"
          /\ wait' = InitialWait
          /\ UNCHANGED faults
       \/ channel = "dead" /\ Refused("dead") /\ UNCHANGED faults
    /\ UNCHANGED <<connVars, busVars, queue, event, toSend, visited, result,
                   clientVars>>

Connect ==
    /\ lpc = "connect"
    /\ \/ /\ channel # "dead"
          /\ channel' = "open"
          /\ lpc' = "listen"
          /\ wait' = InitialWait
          /\ UNCHANGED faults
       \/ channel = "dead" /\ Refused("open") /\ UNCHANGED faults
       \/ Fault("connect") /\ \E ch \in {"none", "dead"} : Refused(ch)
    /\ UNCHANGED <<connVars, busVars, queue, event, toSend, visited, result,
                   clientVars>>

\* The pause is over.
Again ==
    /\ lpc = "wait"
    /\ lpc' = "connect"
    /\ UNCHANGED <<connVars, busVars, queue, channel, wait, event, toSend, visited,
                   result, clientVars, faults>>

\* An event is taken and acknowledged by itself; its connections are looked
\* up without the lock.
Take ==
    /\ lpc = "listen"
    /\ queue # <<>>
    /\ queue' = Tail(queue)
    /\ IF idConnections[Head(queue)] = {}
       THEN UNCHANGED <<lpc, event>>
       ELSE lpc' = "event" /\ event' = Head(queue)
    /\ UNCHANGED <<connVars, busVars, channel, wait, toSend, visited, result,
                   clientVars, faults>>

\* The end of an event; without its channel the listener ends.
EndEvent ==
    /\ lpc' = IF channel = "open" THEN "listen" ELSE "connect"
    /\ event' = None
    /\ toSend' = {}
    /\ visited' = {}
    /\ result' = None

\* StatusProvider.Get: its error drops the event.
Get ==
    /\ lpc = "event"
    /\ result = None
    /\ \/ /\ result' = current[event]
          /\ toSend' = idConnections[event]
          /\ UNCHANGED <<lpc, event, visited, missed, faults>>
       \/ /\ Fault("get")
          /\ EndEvent
          /\ Lost(event, idConnections[event])
    /\ UNCHANGED <<connVars, busVars, queue, channel, wait, shown>>

\* The loop over the map comes to every connection that is in it all the
\* time, and may come to one that is added meanwhile.  A write that fails is
\* logged.
Write(c) ==
    /\ lpc = "event"
    /\ result # None
    /\ c \in idConnections[event] \ visited
    /\ visited' = visited \cup {c}
    /\ \/ /\ shown' = IF cpc[c] = "open" THEN [shown EXCEPT ![c] = result] ELSE shown
          /\ UNCHANGED <<missed, faults>>
       \/ /\ Fault("write")
          /\ Lost(event, {c})
          /\ UNCHANGED shown
    /\ UNCHANGED <<connVars, busVars, queue, channel, lpc, wait, event, toSend, result>>

\* Mutant of EndLoop: the loop ends after one connection.
EndLoopEarly ==
    /\ lpc = "event"
    /\ result # None
    /\ toSend \cap idConnections[event] # {} => visited # {}
    /\ EndEvent
    /\ UNCHANGED <<connVars, busVars, queue, channel, wait, clientVars, faults>>

EndLoop ==
    /\ lpc = "event"
    /\ result # None
    /\ toSend \cap idConnections[event] \subseteq visited
    /\ EndEvent
    /\ UNCHANGED <<connVars, busVars, queue, channel, wait, clientVars, faults>>

\* The broker's connection is lost, and the queue with it; an event in work
\* is finished first.
ChannelLost ==
    /\ Listening
    /\ Fault("channel")
    /\ channel' = "dead"
    /\ lpc' = IF lpc = "listen" THEN "connect" ELSE lpc
    /\ missed' = missed \cup
           UNION {idConnections[queue[k]] : k \in DOMAIN queue}
    /\ queue' = <<>>
    /\ UNCHANGED <<connVars, busVars, wait, event, toSend, visited, result, shown>>

(***************************************************************************)
(* The listener reads the maps while a connection writes them: the runtime *)
(* may end the process for it.  Its connections are gone; it starts anew.  *)
(***************************************************************************)
Race ==
    /\ lpc = "event"
    /\ \E c \in Conn : cpc[c] = "closing" \/ (cpc[c] = "open" /\ messages[c] < MaxMessages[c])
    /\ Fault("race")
    /\ connectionID' = [c \in Conn |-> None]
    /\ idConnections' = [t \in Topic |-> {}]
    /\ cpc' = [c \in Conn |-> "closed"]
    /\ queue' = <<>>
    /\ channel' = "none"
    /\ lpc' = "connect"
    /\ wait' = InitialWait
    /\ event' = None
    /\ toSend' = {}
    /\ visited' = {}
    /\ result' = None
    /\ UNCHANGED <<messages, busVars, clientVars>>

Listen == Connect \/ Again \/ Take \/ Get \/ EndLoop \/ \E c \in Conn : Write(c)

Connection(c) ==
    (\E t \in Topic : Subscribe(c, t)) \/ CloseConn(c) \/ DeleteConnection(c)

Bus == \E t \in Topic : Change(t) \/ Publish(t)

Next ==
    \/ Listen \/ ChannelLost \/ Race
    \/ \E c \in Conn : Connection(c)
    \/ Bus

-----------------------------------------------------------------------------
\* The two maps agree: a connection is in the set of an id exactly when the
\* id is the one it last subscribed to (saveConnection, deleteConnection).
MapsAgree ==
    \A c \in Conn, t \in Topic :
        c \in idConnections[t] <=> connectionID[c] = t

\* When nothing about an id is under way, every connection that has it was
\* written its newest status, however subscriptions, changes and events
\* crossed, unless it subscribed when the last event was already in work or
\* done, or that event was lost with a channel, a failed read or a failed write.
\* An event that was lost before costs nothing.
NewestIsShown ==
    \A c \in Conn, t \in Topic :
        /\ cpc[c] = "open"
        /\ connectionID[c] = t
        /\ c \notin missed
        /\ announced[t] = current[t]
        /\ event # t
        /\ ~Queued(t)
        => shown[c] = current[t]

\* Who subscribed is known by both maps, and is written the newest status.
SubscribersAreServed == MapsAgree /\ NewestIsShown
=============================================================================
