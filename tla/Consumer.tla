------------------------------ MODULE Consumer ------------------------------
(***************************************************************************)
(* What the consumers of a queue promise to the broker about the           *)
(* deliveries they take with manual acknowledgement: a delivery is held by *)
(* one connection, which alone settles it, and once, and puts it back by   *)
(* itself at most once ("redeliver for first time"); only the loss of the  *)
(* connection returns it again.                                            *)
(***************************************************************************)
CONSTANTS
    Delivery,             \* the messages of the queue, one element each
    Connection,           \* the connections of its consumers
    Nobody

VARIABLES
    dstate,               \* the broker's state of a delivery
    redelivered,          \* the Redelivered flag of the delivery
    holder,               \* the connection it is held by
    losses                \* changes when a connection is lost

\* A loss alone is no step of a consumer.
consumerVars == <<dstate, redelivered, holder>>

DeliveryState == {"queued", "unacked", "acked", "discarded"}

ConsumerTypeOK ==
    /\ dstate \in [Delivery -> DeliveryState]
    /\ redelivered \in [Delivery -> BOOLEAN]

Init ==
    /\ dstate = [d \in Delivery |-> "queued"]
    /\ redelivered = [d \in Delivery |-> FALSE]
    /\ holder = [d \in Delivery |-> Nobody]

Held(d) == dstate[d] = "unacked"

HeldBy(c, d) == Held(d) /\ holder[d] = c

(***************************************************************************)
(* A connection settles or takes any number of deliveries in a step, each  *)
(* by one of the four moves the protocol allows it.                        *)
(***************************************************************************)
Taken(c, d) ==
    /\ dstate[d] = "queued"
    /\ dstate'[d] = "unacked"
    /\ redelivered'[d] = redelivered[d]
    /\ holder'[d] = c

Acked(c, d) ==
    /\ HeldBy(c, d)
    /\ dstate'[d] = "acked"
    /\ redelivered'[d] = redelivered[d]
    /\ holder'[d] = Nobody

PutBack(c, d) ==
    /\ HeldBy(c, d)
    /\ ~redelivered[d]
    /\ dstate'[d] = "queued"
    /\ redelivered'[d] = TRUE
    /\ holder'[d] = Nobody

Discarded(c, d) ==
    /\ HeldBy(c, d)
    /\ dstate'[d] = "discarded"
    /\ redelivered'[d] = redelivered[d]
    /\ holder'[d] = Nobody

Kept(d) ==
    /\ dstate'[d] = dstate[d]
    /\ redelivered'[d] = redelivered[d]
    /\ holder'[d] = holder[d]

Consume(c) ==
    \A d \in Delivery :
        \/ Kept(d)
        \/ Taken(c, d) \/ Acked(c, d) \/ PutBack(c, d) \/ Discarded(c, d)

\* The broker requeues all that a connection has not settled.
Requeue(c) ==
    /\ dstate' = [d \in Delivery |-> IF HeldBy(c, d) THEN "queued" ELSE dstate[d]]
    /\ redelivered' = [d \in Delivery |-> HeldBy(c, d) \/ redelivered[d]]
    /\ holder' = [d \in Delivery |-> IF HeldBy(c, d) THEN Nobody ELSE holder[d]]

\* It does so only when the connection is lost.
Disconnect(c) == Requeue(c) /\ losses' # losses

Next == \E c \in Connection : Consume(c) \/ Disconnect(c)

Spec == Init /\ [][Next]_consumerVars
=============================================================================
