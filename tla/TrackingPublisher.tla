------------------------- MODULE TrackingPublisher -------------------------
(***************************************************************************)
(* Data tracking: POST /data/tracking answers "OK" and leaves the events   *)
(* to a background task, publish_events of core/rabbitmq.py, which         *)
(* connects the process-wide RabbitMQClient when it has no connection and  *)
(* then publishes one event after the other.  Tasks of several requests    *)
(* interleave at every await.                                              *)
(***************************************************************************)
EXTENDS Naturals

CONSTANTS
    Task,     \* accepted requests: one publish_events each
    NoTask,
    Events    \* events of a request

ASSUME TrackingAssumption == NoTask \notin Task /\ Events \in Nat

VARIABLES
    connection,  \* self.connection: the task that opened it, NoTask for None
    exchange,    \* self.exchange, likewise
    stage,       \* where each task is, and how it ended
    sent         \* how many of its events the broker has taken

clientVars == <<connection, exchange, stage, sent>>

\* inside connect(), with self.connection assigned
HalfOpen == {"channel", "declare"}

\* "half_connected": raised with self.connection assigned; "no_exchange": None.publish
Label == {"idle", "start", "connecting", "publish", "published", "unconnected",
          "half_connected", "no_exchange", "broken"} \cup HalfOpen

ClientTypeOK ==
    /\ connection \in Task \cup {NoTask}
    /\ exchange \in Task \cup {NoTask}
    /\ stage \in [Task -> Label]
    /\ sent \in [Task -> 0 .. Events]

ClientInit ==
    /\ connection = NoTask
    /\ exchange = NoTask
    /\ stage = [t \in Task |-> "idle"]
    /\ sent = [t \in Task |-> 0]

Goto(t, label) == stage' = [stage EXCEPT ![t] = label]

\* The request is answered; its task is started.
Accept(t) ==
    /\ stage[t] = "idle"
    /\ Goto(t, "start")
    /\ UNCHANGED <<connection, exchange, sent>>

-----------------------------------------------------------------------------
(* connect                                                                 *)

HasConnection(t) ==
    /\ stage[t] = "start"
    /\ connection # NoTask
    /\ Goto(t, "publish")
    /\ UNCHANGED <<connection, exchange, sent>>

StartConnecting(t) ==
    /\ stage[t] = "start"
    /\ connection = NoTask
    /\ Goto(t, "connecting")
    /\ UNCHANGED <<connection, exchange, sent>>

\* self.connection is assigned as soon as the broker is reached ...
Connected(t) ==
    /\ stage[t] = "connecting"
    /\ connection' = t
    /\ Goto(t, "channel")
    /\ UNCHANGED <<exchange, sent>>

ChannelOpened(t) ==
    /\ stage[t] = "channel"
    /\ Goto(t, "declare")
    /\ UNCHANGED <<connection, exchange, sent>>

\* Mutant: the exchange is declared and not kept.
DeclaredUnkept(t) ==
    /\ stage[t] = "declare"
    /\ Goto(t, "publish")
    /\ UNCHANGED <<connection, exchange, sent>>

\* ... and self.exchange two awaits later.
Declared(t) ==
    /\ stage[t] = "declare"
    /\ exchange' = t
    /\ Goto(t, "publish")
    /\ UNCHANGED <<connection, sent>>

ConnectFails(t) ==
    /\ stage[t] \in {"connecting"} \cup HalfOpen
    /\ Goto(t, IF stage[t] = "connecting" THEN "unconnected" ELSE "half_connected")
    /\ UNCHANGED <<connection, exchange, sent>>

-----------------------------------------------------------------------------
(* The loop of publish_events                                              *)

\* Mutant: one event too many.
PublishPastEnd(t) ==
    /\ stage[t] = "publish"
    /\ exchange # NoTask
    /\ sent[t] <= Events
    /\ sent' = [sent EXCEPT ![t] = @ + 1]
    /\ UNCHANGED <<connection, exchange, stage>>

Publish(t) ==
    /\ stage[t] = "publish"
    /\ exchange # NoTask
    /\ sent[t] < Events
    /\ sent' = [sent EXCEPT ![t] = @ + 1]
    /\ UNCHANGED <<connection, exchange, stage>>

AllPublished(t) ==
    /\ stage[t] = "publish"
    /\ sent[t] = Events
    /\ Goto(t, "published")
    /\ UNCHANGED <<connection, exchange, sent>>

(* self.exchange is None: AttributeError, and the events are gone.         *)
NoExchange(t) ==
    /\ stage[t] = "publish"
    /\ exchange = NoTask
    /\ sent[t] < Events
    /\ Goto(t, "no_exchange")
    /\ UNCHANGED <<connection, exchange, sent>>

\* The broker refuses an event, or is away: the rest of them is gone.
PublishFails(t) ==
    /\ stage[t] = "publish"
    /\ exchange # NoTask
    /\ sent[t] < Events
    /\ Goto(t, "broken")
    /\ UNCHANGED <<connection, exchange, sent>>

Step(t) ==
    \/ Accept(t)
    \/ HasConnection(t) \/ StartConnecting(t) \/ Connected(t) \/ ChannelOpened(t)
    \/ Declared(t) \/ ConnectFails(t)
    \/ Publish(t) \/ AllPublished(t) \/ NoExchange(t) \/ PublishFails(t)

ClientNext == \E t \in Task : Step(t)

ClientSpec == ClientInit /\ [][ClientNext]_clientVars

-----------------------------------------------------------------------------
(* The client is only ever without an exchange, once it has a connection,  *)
(* while the first connect() is under way or after one has failed half-way:*)
(* no interleaving of connects, nor a second connection that replaces the  *)
(* first, takes an exchange away that was there.                           *)
MissingExchangeExplained ==
    connection # NoTask /\ exchange = NoTask =>
        \E t \in Task : stage[t] \in HalfOpen \cup {"half_connected"}
=============================================================================
