--------------------------- MODULE StatusConsumer ---------------------------
(***************************************************************************)
(* task/status_submit.py: worker threads that consume device status        *)
(* reports from a RabbitMQ queue, each over a connection of its own, with  *)
(* manual acknowledgement.  A worker whose consuming raises calls          *)
(* start_consumers again, for a new pool of PoolSize workers.              *)
(*                                                                         *)
(* start_consumers returns at once, so the main thread of the script comes *)
(* to its end while the workers run; from then on the interpreter refuses  *)
(* to submit work to any ThreadPoolExecutor.                               *)
(***************************************************************************)
EXTENDS Naturals, FiniteSets

CONSTANTS
    Thread,    \* names for workers: as many as are ever started
    Main,      \* the main thread
    Report,    \* messages
    Broken,    \* those whose body is not UTF-8: decode() raises
    PoolSize   \* THREAD_POOL_SIZE

ASSUME ConsumerAssumption ==
    Main \notin Thread /\ Broken \subseteq Report /\ PoolSize \in Nat

VARIABLES
    pc,      \* where each worker is
    toStart, \* workers a call of start_consumers has still to submit
    exiting, \* the main thread has ended
    queue,   \* reports the broker holds for the next consumer
    unacked, \* reports delivered to a worker that it has not acknowledged
    handled  \* reports process_message was done with

vars == <<pc, toStart, exiting, queue, unacked, handled>>

\* cut_off: the broker has closed the connection and the worker does not know
Consuming == {"consuming", "cut_off"}

Live == {t \in Thread : pc[t] \in {"connecting", "setup"} \cup Consuming}

\* start_consuming raised, whether or not workers were submitted for it since
Stopped == {t \in Thread : pc[t] \in {"restarting", "restarted", "not_restarted"}}

TypeOK ==
    /\ pc \in [Thread -> {"none", "connecting", "setup", "restarting", "restarted",
                          "not_restarted", "not_set_up", "returned"} \cup Consuming]
    /\ toStart \in [Thread \cup {Main} -> 0 .. PoolSize]
    /\ exiting \in BOOLEAN
    /\ queue \subseteq Report
    /\ unacked \in [Thread -> SUBSET Report]
    /\ handled \subseteq Report

Init ==
    /\ pc = [t \in Thread |-> "none"]
    /\ toStart = [a \in Thread \cup {Main} |-> IF a = Main THEN PoolSize ELSE 0]
    /\ exiting = FALSE
    /\ queue = Report
    /\ unacked = [t \in Thread |-> {}]
    /\ handled = {}

-----------------------------------------------------------------------------
(* start_consumers                                                         *)

\* Mutant: the loop that submits the workers does not end.
SubmitUncounted(a, t) ==
    /\ toStart[a] > 0
    /\ ~exiting
    /\ pc[t] = "none"
    /\ pc' = [pc EXCEPT ![t] = "connecting"]
    /\ UNCHANGED <<toStart, exiting, queue, unacked, handled>>

\* a, the main thread or a worker, submits t; after the last one the call returns.
Submit(a, t) ==
    /\ toStart[a] > 0
    /\ ~exiting
    /\ pc[t] = "none"
    /\ toStart' = [toStart EXCEPT ![a] = @ - 1]
    /\ pc' = [u \in Thread |->
                 IF u = t THEN "connecting"
                 ELSE IF u = a /\ toStart[a] = 1 THEN "restarted"
                 ELSE pc[u]]
    /\ UNCHANGED <<exiting, queue, unacked, handled>>

(* RuntimeError: cannot schedule new futures after interpreter shutdown.   *)
SubmitRefused(t) ==
    /\ toStart[t] > 0
    /\ exiting
    /\ toStart' = [toStart EXCEPT ![t] = 0]
    /\ pc' = [pc EXCEPT ![t] = "not_restarted"]
    /\ UNCHANGED <<exiting, queue, unacked, handled>>

MainEnds ==
    /\ toStart[Main] = 0
    /\ ~exiting
    /\ exiting' = TRUE
    /\ UNCHANGED <<pc, toStart, queue, unacked, handled>>

-----------------------------------------------------------------------------
(* create_consumer_thread                                                  *)

\* create_connection tries until it succeeds
Connect(t) ==
    /\ pc[t] = "connecting"
    /\ pc' = [pc EXCEPT ![t] = "setup"]
    /\ UNCHANGED <<toStart, exiting, queue, unacked, handled>>

SetUp(t) ==
    /\ pc[t] = "setup"
    /\ pc' = [pc EXCEPT ![t] = "consuming"]
    /\ UNCHANGED <<toStart, exiting, queue, unacked, handled>>

(* channel, queue_declare or basic_consume raises, outside of the try: the *)
(* worker ends and nobody looks at its future.                             *)
SetUpFails(t) ==
    /\ pc[t] = "setup"
    /\ pc' = [pc EXCEPT ![t] = "not_set_up"]
    /\ UNCHANGED <<toStart, exiting, queue, unacked, handled>>

\* Mutant: auto_ack.
DeliverAcked(t, m) ==
    /\ pc[t] = "consuming"
    /\ m \in queue
    /\ queue' = queue \ {m}
    /\ UNCHANGED <<pc, toStart, exiting, unacked, handled>>

Deliver(t, m) ==
    /\ pc[t] = "consuming"
    /\ m \in queue
    /\ queue' = queue \ {m}
    /\ unacked' = [unacked EXCEPT ![t] = @ \cup {m}]
    /\ UNCHANGED <<pc, toStart, exiting, handled>>


(* process_message to its end: it handles the report, then acknowledges    *)
(* it, to nobody if the worker is cut off.                                 *)
Process(t, m) ==
    /\ pc[t] \in Consuming
    /\ m \in unacked[t] \ Broken
    /\ handled' = handled \cup {m}
    /\ unacked' = [unacked EXCEPT ![t] = @ \ {m}]
    /\ UNCHANGED <<pc, toStart, exiting, queue>>

(* The broker closes the connection, or the channel: reports go back while *)
(* the worker still has them.                                              *)
CutOff(t) ==
    /\ pc[t] = "consuming"
    /\ pc' = [pc EXCEPT ![t] = "cut_off"]
    /\ queue' = queue \cup unacked[t]
    /\ UNCHANGED <<toStart, exiting, unacked, handled>>

\* Mutant: one worker too many.
StopsConsumingOneMore(t, done) ==
    /\ pc[t] \in Consuming
    /\ handled' = handled \cup done
    /\ unacked' = [unacked EXCEPT ![t] = IF pc[t] = "cut_off" THEN {} ELSE @]
    /\ toStart' = [toStart EXCEPT ![t] = PoolSize + 1]
    /\ pc' = [pc EXCEPT ![t] = "restarting"]
    /\ UNCHANGED <<exiting, queue>>

(* start_consuming raises: the connection is gone, perhaps between the end *)
(* of process_message and its acknowledgement, or a report is broken.      *)
(* Nothing closes a connection that is still open: its reports stay with   *)
(* it.  start_consumers is called again, for PoolSize workers in the place *)
(* of one.                                                                 *)
StopsConsuming(t, done) ==
    /\ pc[t] \in Consuming
    /\ handled' = handled \cup done
    /\ unacked' = [unacked EXCEPT ![t] = IF pc[t] = "cut_off" THEN {} ELSE @]
    /\ toStart' = [toStart EXCEPT ![t] = PoolSize]
    /\ pc' = [pc EXCEPT ![t] = "restarting"]
    /\ UNCHANGED <<exiting, queue>>

(* The broker cancels the consumer: start_consuming returns, and the       *)
(* worker with it.  Nobody is started for it.                              *)
Returns(t) ==
    /\ pc[t] = "consuming"
    /\ pc' = [pc EXCEPT ![t] = "returned"]
    /\ UNCHANGED <<toStart, exiting, queue, unacked, handled>>


(* The connection of a worker that has ended is collected, or misses its   *)
(* heartbeats: only now does the broker take its reports back.             *)
TakeBack(t) ==
    /\ pc[t] \notin Consuming /\ unacked[t] # {}
    /\ queue' = queue \cup unacked[t]
    /\ unacked' = [unacked EXCEPT ![t] = {}]
    /\ UNCHANGED <<pc, toStart, exiting, handled>>

Work(t) == \E m \in Report : Deliver(t, m) \/ Process(t, m)

Start == MainEnds \/ \E a \in Thread \cup {Main}, t \in Thread : Submit(a, t)

\* start_consuming is bound to raise.
MustStop(t) ==
    /\ pc[t] = "cut_off" \/ unacked[t] \cap Broken # {}
    /\ StopsConsuming(t, {})

Next ==
    \/ Start
    \/ \E t \in Thread :
          \/ SubmitRefused(t)
          \/ Connect(t) \/ SetUp(t) \/ SetUpFails(t) \/ Work(t)
          \/ CutOff(t) \/ Returns(t) \/ TakeBack(t)
          \/ \E done \in {{}} \cup {{m} : m \in unacked[t] \ Broken} : StopsConsuming(t, done)

Spec == Init /\ [][Next]_vars

(* Threads run, the broker is reached again and again, delivers what it    *)
(* holds to a consumer and takes back what a dead connection has; a worker *)
(* sees by its heartbeats that it is cut off.  Nothing fails by necessity  *)
(* but the decoding of a broken report.                                    *)
FairSpec ==
    /\ Spec
    /\ WF_vars(Start)
    /\ \A t \in Thread : WF_vars(Connect(t)) /\ WF_vars(SetUp(t))
    /\ \A t \in Thread : WF_vars(MustStop(t)) /\ WF_vars(TakeBack(t))
    /\ \A t \in Thread, m \in Report : WF_vars(Deliver(t, m)) /\ WF_vars(Process(t, m))

-----------------------------------------------------------------------------
(* No report is ever lost, whichever workers die at whatever moment: it is *)
(* in the queue, out on a connection the broker has open, or handled.      *)
NoReportLost ==
    \A m \in Report :
        \/ m \in queue \cup handled
        \/ \E t \in Thread : pc[t] # "cut_off" /\ m \in unacked[t]

(* The workers, lost and replaced as they are, are a queue with manual     *)
(* acknowledgement: a report stays pending, in the queue or out on an open *)
(* connection, until process_message was done with it.                     *)
pending == queue \cup UNION {unacked[t] : t \in {u \in Thread : pc[u] # "cut_off"}}

Delivery == INSTANCE DeliveryQueue WITH Item <- Report, done <- handled

QueueSpec == Delivery!Spec

(* Only a lost worker is replaced, though by a whole pool: there are never *)
(* more than the first pool and, for each worker that stopped consuming,   *)
(* one pool less that worker.                                              *)
PoolBound == Cardinality(Live) <= PoolSize + (PoolSize - 1) * Cardinality(Stopped)


=============================================================================
