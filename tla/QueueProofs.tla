---------------------------- MODULE QueueProofs ----------------------------
(***************************************************************************)
(* Proofs about the two programs that talk to RabbitMQ.                    *)
(*                                                                         *)
(* StatusConsumer, for any threads, reports and pool size.  The            *)
(* strengthening is that only a worker that has stopped consuming still    *)
(* submits others, and that none has reports before it consumes.  The pool *)
(* is bounded together with the workers that are still owed to it.         *)
(*                                                                         *)
(* TrackingPublisher, for any tasks and events.                            *)
(***************************************************************************)
EXTENDS StatusConsumer, TrackingPublisher, FiniteSetTheorems, TLAPS

-----------------------------------------------------------------------------
(* StatusConsumer                                                          *)

OnlyRestartingSubmit == \A t \in Thread : toStart[t] > 0 => pc[t] = "restarting"

\* Only a worker that consumes, or did, has reports.
OnlyConsumersHold ==
    \A t \in Thread : pc[t] \in {"none", "connecting", "setup", "not_set_up"} => unacked[t] = {}

Inv == TypeOK /\ OnlyRestartingSubmit /\ OnlyConsumersHold /\ NoReportLost

LEMMA InitInv == Init => Inv
<1> SUFFICES ASSUME Init PROVE Inv
  OBVIOUS
<1>1. \A t \in Thread : t # Main /\ toStart[t] = 0
  BY ConsumerAssumption DEF Init
<1>2. PoolSize \in 0 .. PoolSize /\ 0 \in 0 .. PoolSize
  BY ConsumerAssumption
<1>3. toStart \in [Thread \cup {Main} -> 0 .. PoolSize]
  BY <1>2 DEF Init
<1>4. TypeOK
  BY <1>3 DEF Init, TypeOK
<1>5. OnlyRestartingSubmit
  BY <1>1 DEF OnlyRestartingSubmit
<1>6. NoReportLost /\ OnlyConsumersHold
  BY DEF Init, NoReportLost, OnlyConsumersHold
<1> QED
  BY <1>4, <1>5, <1>6 DEF Inv

LEMMA SubmitStep ==
    ASSUME Inv, NEW a \in Thread \cup {Main}, NEW t \in Thread, Submit(a, t)
    PROVE  Inv'
<1> USE DEF Submit
<1>1. toStart[a] \in 0 .. PoolSize /\ toStart[a] > 0 /\ PoolSize \in Nat
  BY ConsumerAssumption DEF Inv, TypeOK
<1>2. toStart'[a] = toStart[a] - 1 /\ toStart'[a] \in 0 .. PoolSize
      /\ \A b \in (Thread \cup {Main}) \ {a} : toStart'[b] = toStart[b]
  BY <1>1 DEF Inv, TypeOK
<1>3. TypeOK'
  BY <1>1, <1>2 DEF Inv, TypeOK
<1>4. a # t /\ \A u \in Thread : u # t /\ u # a => pc'[u] = pc[u]
  BY <1>1 DEF Inv, OnlyRestartingSubmit
<1>5. OnlyRestartingSubmit'
  <2> SUFFICES ASSUME NEW u \in Thread, toStart'[u] > 0 PROVE pc'[u] = "restarting"
    BY DEF OnlyRestartingSubmit
  <2>1. CASE u = a
    BY <1>1, <1>2, <1>4, <2>1 DEF Inv, OnlyRestartingSubmit
  <2>2. CASE u = t
    BY <1>2, <1>4, <2>2 DEF Inv, OnlyRestartingSubmit
  <2>3. CASE u # a /\ u # t
    BY <1>2, <1>4, <2>3 DEF Inv, OnlyRestartingSubmit
  <2> QED
    BY <2>1, <2>2, <2>3
<1>6. \A u \in Thread : pc[u] = "cut_off" <=> pc'[u] = "cut_off"
  BY <1>1 DEF Inv, TypeOK, OnlyRestartingSubmit
<1>7. NoReportLost' /\ OnlyConsumersHold'
  BY <1>1, <1>6 DEF Inv, TypeOK, NoReportLost, OnlyConsumersHold, OnlyRestartingSubmit
<1> QED
  BY <1>3, <1>5, <1>7 DEF Inv

LEMMA WorkerStep ==
    ASSUME Inv, NEW t \in Thread,
           \/ SubmitRefused(t)
           \/ Connect(t) \/ SetUp(t) \/ SetUpFails(t) \/ Work(t)
           \/ CutOff(t) \/ Returns(t) \/ TakeBack(t)
    PROVE  Inv'
<1> USE DEF Inv, TypeOK, OnlyRestartingSubmit, NoReportLost, Consuming
<1>1. CASE SubmitRefused(t)
  <2>1. toStart[t] > 0 /\ pc[t] = "restarting" /\ 0 \in 0 .. PoolSize
    BY <1>1, ConsumerAssumption DEF SubmitRefused
  <2>2. TypeOK' /\ OnlyRestartingSubmit'
    BY <1>1, <2>1 DEF SubmitRefused
  <2>3. NoReportLost' /\ OnlyConsumersHold'
    BY <1>1, <2>1 DEF SubmitRefused, OnlyConsumersHold
  <2> QED
    BY <2>2, <2>3
<1>2. CASE Connect(t)
  BY <1>2 DEF Connect, OnlyConsumersHold
<1>3. CASE SetUp(t)
  BY <1>3 DEF SetUp, OnlyConsumersHold
<1>4. CASE SetUpFails(t)
  BY <1>4 DEF SetUpFails, OnlyConsumersHold
<1>5. CASE Work(t)
  <2>1. PICK m \in Report : Deliver(t, m) \/ Process(t, m)
    BY <1>5 DEF Work
  <2>2. CASE Deliver(t, m)
    <3>1. TypeOK' /\ OnlyRestartingSubmit'
      BY <2>2 DEF Deliver
    <3>2. NoReportLost'
      BY <2>2 DEF Deliver
    <3>3. OnlyConsumersHold'
      BY <2>2 DEF Deliver, OnlyConsumersHold
    <3> QED
      BY <3>1, <3>2, <3>3
  <2>3. CASE Process(t, m)
    <3>1. TypeOK' /\ OnlyRestartingSubmit'
      BY <2>3 DEF Process
    <3>2. NoReportLost'
      BY <2>3 DEF Process
    <3>3. OnlyConsumersHold'
      BY <2>3 DEF Process, OnlyConsumersHold
    <3> QED
      BY <3>1, <3>2, <3>3
  <2> QED
    BY <2>1, <2>2, <2>3
<1>6. CASE CutOff(t)
  <2>1. TypeOK' /\ OnlyRestartingSubmit' /\ OnlyConsumersHold'
    BY <1>6 DEF CutOff, OnlyConsumersHold
  <2>2. NoReportLost'
    BY <1>6 DEF CutOff
  <2> QED
    BY <2>1, <2>2
<1>7. CASE Returns(t)
  BY <1>7 DEF Returns, OnlyConsumersHold
<1>8. CASE TakeBack(t)
  <2>1. TypeOK' /\ OnlyRestartingSubmit' /\ OnlyConsumersHold'
    BY <1>8 DEF TakeBack, OnlyConsumersHold
  <2>2. NoReportLost'
    BY <1>8 DEF TakeBack
  <2> QED
    BY <2>1, <2>2
<1> QED
  BY <1>1, <1>2, <1>3, <1>4, <1>5, <1>6, <1>7, <1>8

LEMMA StopStep ==
    ASSUME Inv, NEW t \in Thread, NEW done \in SUBSET (unacked[t] \ Broken),
           StopsConsuming(t, done)
    PROVE  Inv'
<1> USE DEF StopsConsuming, Consuming, Inv
<1>1. unacked[t] \subseteq Report /\ PoolSize \in 0 .. PoolSize
  BY ConsumerAssumption DEF TypeOK
<1>2. TypeOK'
  BY <1>1 DEF TypeOK
<1>3. OnlyRestartingSubmit' /\ OnlyConsumersHold'
  BY DEF TypeOK, OnlyRestartingSubmit, OnlyConsumersHold
<1>4. NoReportLost'
  <2> SUFFICES ASSUME NEW m \in Report
               PROVE  \/ m \in queue' \cup handled'
                      \/ \E u \in Thread : pc'[u] # "cut_off" /\ m \in unacked'[u]
    BY DEF NoReportLost
  <2>1. CASE m \in queue \cup handled
    BY <2>1
  <2>2. CASE \E u \in Thread : pc[u] # "cut_off" /\ m \in unacked[u]
    BY <2>2 DEF TypeOK
  <2> QED
    BY <2>1, <2>2 DEF NoReportLost
<1> QED
  BY <1>2, <1>3, <1>4

LEMMA InvStep == ASSUME Inv, [Next]_vars PROVE Inv'
<1>1. CASE UNCHANGED vars
  BY <1>1 DEF vars, Inv, TypeOK, OnlyRestartingSubmit, OnlyConsumersHold, NoReportLost
<1>2. CASE MainEnds
  BY <1>2 DEF MainEnds, Inv, TypeOK, OnlyRestartingSubmit, OnlyConsumersHold, NoReportLost
<1>3. CASE Next /\ ~MainEnds
  BY <1>3, SubmitStep, WorkerStep, StopStep DEF Next, Start
<1> QED
  BY <1>1, <1>2, <1>3

(* Type correctness of the pools and of the queue.                         *)
THEOREM ConsumerTypeOK == Spec => []TypeOK
<1>1. Inv => TypeOK
  BY DEF Inv
<1> QED
  BY InitInv, InvStep, <1>1, PTL DEF Spec

(* Manual acknowledgement: no report is lost with a worker.                *)
THEOREM ConsumerNoReportLost == Spec => []NoReportLost
<1>1. Inv => NoReportLost
  BY DEF Inv
<1> QED
  BY InitInv, InvStep, <1>1, PTL DEF Spec

-----------------------------------------------------------------------------
(* The pool.  A worker that a call of start_consumers has still to submit  *)
(* is owed: one that is submitted is live and no longer owed, and one that *)
(* stops consuming is owed a pool and live no longer.                      *)

Owed == {p \in (Thread \cup {Main}) \X (1 .. PoolSize) : p[2] <= toStart[p[1]]}

\* There may be any number of threads, but never infinitely many of these.
PoolFinite == IsFiniteSet(Live) /\ IsFiniteSet(Owed) /\ IsFiniteSet(Stopped)

PoolInv ==
    /\ PoolFinite
    /\ Cardinality(Live) + Cardinality(Owed) <= PoolSize + (PoolSize - 1) * Cardinality(Stopped)

\* The workers one caller of start_consumers is owed at first.
LEMMA WholePool ==
    ASSUME NEW a
    PROVE  IsFiniteSet({a} \X (1 .. PoolSize)) /\ Cardinality({a} \X (1 .. PoolSize)) = PoolSize
<1>1. IsFiniteSet({a}) /\ Cardinality({a}) = 1
  BY FS_Singleton
<1>2. PoolSize \in Int /\ PoolSize \in Nat
  BY ConsumerAssumption
<1>3. IsFiniteSet(1 .. PoolSize) /\ Cardinality(1 .. PoolSize) = PoolSize
  BY <1>2, FS_Interval
<1> DEFINE Pool == {a} \X (1 .. PoolSize)
<1>4. IsFiniteSet(Pool) /\ Cardinality(Pool) = Cardinality({a}) * Cardinality(1 .. PoolSize)
  BY <1>1, <1>3, FS_Product, Zenon
<1>5. 1 * PoolSize = PoolSize
  BY <1>2
<1> QED
  BY <1>1, <1>3, <1>4, <1>5, Zenon

LEMMA InitPool == Init => PoolInv
<1> SUFFICES ASSUME Init PROVE PoolInv
  OBVIOUS
<1>1. Live = {} /\ Stopped = {}
  BY DEF Init, Live, Stopped, Consuming
<1>2. Owed = {Main} \X (1 .. PoolSize)
  BY ConsumerAssumption DEF Init, Owed
<1>3. PoolSize \in Nat
  BY ConsumerAssumption
<1>4. IsFiniteSet(Owed) /\ Cardinality(Owed) = PoolSize
  BY <1>2, WholePool
<1>5. IsFiniteSet({}) /\ Cardinality({}) = 0
  BY FS_EmptySet
<1>6. PoolFinite
  BY <1>1, <1>4, <1>5 DEF PoolFinite
<1>7. 0 + PoolSize <= PoolSize + (PoolSize - 1) * 0
  BY <1>3
<1> QED
  BY <1>1, <1>4, <1>5, <1>6, <1>7, Zenon DEF PoolInv

LEMMA SubmitPool ==
    ASSUME Inv, PoolInv, NEW a \in Thread \cup {Main}, NEW t \in Thread, Submit(a, t)
    PROVE  PoolInv'
<1> USE DEF PoolInv, PoolFinite
<1>1. toStart[a] \in 0 .. PoolSize /\ toStart[a] > 0 /\ PoolSize \in Nat /\ pc[t] = "none" /\ a # t
  BY ConsumerAssumption DEF Submit, Inv, TypeOK, OnlyRestartingSubmit
<1>2. Live' = Live \cup {t} /\ t \notin Live
  BY <1>1 DEF Submit, Live, Consuming, Inv, TypeOK, OnlyRestartingSubmit
<1>3. Stopped' = Stopped
  BY <1>1 DEF Submit, Stopped, Consuming, Inv, TypeOK, OnlyRestartingSubmit
<1>4. Owed' = Owed \ {<<a, toStart[a]>>} /\ <<a, toStart[a]>> \in Owed
  <2>1. <<a, toStart[a]>> \in Owed
    BY <1>1 DEF Owed
  <2>2. \A b \in Thread \cup {Main}, i \in 1 .. PoolSize :
           i <= toStart'[b] <=> i <= toStart[b] /\ ~(b = a /\ i = toStart[a])
    BY <1>1 DEF Submit, Inv, TypeOK
  <2> QED
    BY <2>1, <2>2 DEF Owed
<1>5. IsFiniteSet(Live') /\ Cardinality(Live') = Cardinality(Live) + 1
  BY <1>2, FS_AddElement
<1>6. IsFiniteSet(Owed') /\ Cardinality(Owed') = Cardinality(Owed) - 1
  BY <1>4, FS_RemoveElement
<1>7. Cardinality(Live) \in Nat /\ Cardinality(Owed) \in Nat
  BY FS_CardinalityType
<1>8. (PoolSize - 1) * Cardinality(Stopped) \in Int
  BY <1>1, FS_CardinalityType
<1> QED
  BY <1>1, <1>3, <1>5, <1>6, <1>7, <1>8

LEMMA StopPool ==
    ASSUME Inv, PoolInv, NEW t \in Thread, NEW done, StopsConsuming(t, done)
    PROVE  PoolInv'
<1> USE DEF PoolInv, PoolFinite
<1>1. PoolSize \in Nat /\ pc[t] \in {"consuming", "cut_off"} /\ toStart[t] = 0
  BY ConsumerAssumption DEF StopsConsuming, Consuming, Inv, TypeOK, OnlyRestartingSubmit
<1>2. Live' = Live \ {t} /\ t \in Live
  BY <1>1 DEF StopsConsuming, Live, Consuming, Inv, TypeOK
<1>3. Stopped' = Stopped \cup {t} /\ t \notin Stopped
  BY <1>1 DEF StopsConsuming, Stopped, Consuming, Inv, TypeOK
<1> DEFINE Pool == {t} \X (1 .. PoolSize)
<1>4. Owed' = Owed \cup Pool /\ Owed \cap Pool = {}
  <2>1. \A b \in Thread \cup {Main}, i \in 1 .. PoolSize :
           i <= toStart'[b] <=> i <= toStart[b] \/ b = t
    BY <1>1 DEF StopsConsuming, Inv, TypeOK
  <2>2. \A i \in 1 .. PoolSize : ~(i <= toStart[t])
    BY <1>1
  <2> QED
    BY <2>1, <2>2 DEF Owed
<1>5. IsFiniteSet(Live') /\ Cardinality(Live') = Cardinality(Live) - 1
  BY <1>2, FS_RemoveElement
<1>6. IsFiniteSet(Stopped') /\ Cardinality(Stopped') = Cardinality(Stopped) + 1
  BY <1>3, FS_AddElement
<1>7. IsFiniteSet(Owed') /\ Cardinality(Owed') = Cardinality(Owed) + PoolSize
  <2>1. IsFiniteSet(Pool) /\ Cardinality(Pool) = PoolSize
    BY WholePool
  <2>2. Cardinality(Owed \cap Pool) = 0
    BY <1>4, FS_EmptySet
  <2>3. Cardinality(Owed) \in Nat
    BY FS_CardinalityType
  <2> HIDE DEF Pool
  <2>4. /\ IsFiniteSet(Owed \cup Pool)
        /\ Cardinality(Owed \cup Pool) =
              Cardinality(Owed) + Cardinality(Pool) - Cardinality(Owed \cap Pool)
    BY <2>1, FS_Union, Zenon
  <2> QED
    BY <1>1, <1>4, <2>1, <2>2, <2>3, <2>4
<1>8. Cardinality(Live) \in Nat /\ Cardinality(Owed) \in Nat /\ Cardinality(Stopped) \in Nat
  BY FS_CardinalityType
<1>9. \A s \in Nat : (PoolSize - 1) * (s + 1) = (PoolSize - 1) * s + (PoolSize - 1)
  BY <1>1
<1>10. (PoolSize - 1) * Cardinality(Stopped) \in Int
  BY <1>1, <1>8
<1> QED
  BY <1>1, <1>5, <1>6, <1>7, <1>8, <1>9, <1>10

\* The other steps of a worker start nobody, and may end it.
LEMMA OtherPool ==
    ASSUME Inv, PoolInv, NEW t \in Thread,
           \/ SubmitRefused(t)
           \/ Connect(t) \/ SetUp(t) \/ SetUpFails(t) \/ Work(t)
           \/ CutOff(t) \/ Returns(t) \/ TakeBack(t)
    PROVE  PoolInv'
<1> USE DEF PoolInv, PoolFinite
<1>1. Live' \subseteq Live
  BY DEF Live, SubmitRefused, Connect, SetUp, SetUpFails, Work, Deliver, Process, CutOff, Returns,
         TakeBack, Consuming, Inv, TypeOK
<1>2. Owed' \subseteq Owed
  <2>1. \A b \in Thread \cup {Main}, i \in 1 .. PoolSize : i <= toStart'[b] => i <= toStart[b]
    BY ConsumerAssumption
       DEF SubmitRefused, Connect, SetUp, SetUpFails, Work, Deliver, Process, CutOff, Returns,
         TakeBack, Consuming, Inv, TypeOK
  <2> QED
    BY <2>1 DEF Owed
<1>3. Stopped' = Stopped
  BY DEF Stopped, SubmitRefused, Connect, SetUp, SetUpFails, Work, Deliver, Process, CutOff, Returns,
         TakeBack, Consuming, Inv, TypeOK,
         OnlyRestartingSubmit
<1>4. IsFiniteSet(Live') /\ Cardinality(Live') <= Cardinality(Live)
  BY <1>1, FS_Subset
<1>5. IsFiniteSet(Owed') /\ Cardinality(Owed') <= Cardinality(Owed)
  BY <1>2, FS_Subset
<1>6. /\ Cardinality(Live) \in Nat /\ Cardinality(Owed) \in Nat
      /\ Cardinality(Live') \in Nat /\ Cardinality(Owed') \in Nat
  BY <1>4, <1>5, FS_CardinalityType
<1>7. PoolSize \in Nat /\ (PoolSize - 1) * Cardinality(Stopped) \in Int
  BY ConsumerAssumption, FS_CardinalityType
<1> QED
  BY <1>3, <1>4, <1>5, <1>6, <1>7

LEMMA PoolStep == ASSUME Inv, PoolInv, [Next]_vars PROVE PoolInv'
<1>1. CASE UNCHANGED <<pc, toStart>>
  BY <1>1 DEF PoolInv, PoolFinite, Live, Owed, Stopped
<1>2. CASE MainEnds \/ UNCHANGED vars
  BY <1>1, <1>2 DEF MainEnds, vars
<1>3. CASE Next /\ ~MainEnds
  BY <1>3, SubmitPool, StopPool, OtherPool DEF Next, Start
<1> QED
  BY <1>2, <1>3

(* However workers fail and are replaced, the pool stays within its bound. *)
THEOREM ConsumerPoolBound == Spec => []PoolBound
<1>1. ASSUME PoolInv PROVE PoolBound
  <2>1. Cardinality(Live) \in Nat /\ Cardinality(Owed) \in Nat /\ Cardinality(Stopped) \in Nat
    BY <1>1, FS_CardinalityType DEF PoolInv, PoolFinite
  <2>2. PoolSize \in Nat /\ (PoolSize - 1) * Cardinality(Stopped) \in Int
    BY <2>1, ConsumerAssumption
  <2> QED
    BY <1>1, <2>1, <2>2 DEF PoolInv, PoolBound
<1> QED
  BY InitInv, InvStep, InitPool, PoolStep, <1>1, PTL DEF Spec

-----------------------------------------------------------------------------
\* A report is pending in the queue, or out on a connection that is open.
LEMMA PendingMember ==
    /\ \A m : m \in pending <=>
               m \in queue \/ \E u \in Thread : pc[u] # "cut_off" /\ m \in unacked[u]
    /\ \A m : m \in pending' <=>
               m \in queue' \/ \E u \in Thread : pc'[u] # "cut_off" /\ m \in unacked'[u]
  BY DEF pending

\* A step that leaves every connection as it is leaves the pending reports alone.
LEMMA PendingStep ==
    ASSUME \A u \in Thread : pc'[u] = "cut_off" <=> pc[u] = "cut_off", UNCHANGED <<queue, unacked>>
    PROVE  pending' = pending
  BY PendingMember

(* The consumers implement the queue: at least once, and never lost.       *)
THEOREM ConsumerImplementsQueue == Spec => QueueSpec
<1>1. Init => Delivery!Init
  <2> SUFFICES ASSUME Init PROVE Delivery!Init
    OBVIOUS
  <2>1. pending = queue
    BY DEF Init, pending
  <2> QED
    BY <2>1 DEF Init, Delivery!Init
<1>2. ASSUME Inv, Inv', [Next]_vars PROVE [Delivery!Next]_<<pending, handled>>
  <2> SUFFICES ASSUME Next PROVE [Delivery!Next]_<<pending, handled>>
    BY <1>2 DEF vars, pending
  <2> USE <1>2
  <2>1. CASE Start
    <3>1. UNCHANGED <<queue, unacked, handled>>
      BY <2>1 DEF Start, MainEnds, Submit
    <3>2. \A u \in Thread : pc'[u] = "cut_off" <=> pc[u] = "cut_off"
      BY <2>1 DEF Start, MainEnds, Submit, Inv, TypeOK, OnlyRestartingSubmit
    <3> QED
      BY <3>1, <3>2, PendingStep
  <2>2. ASSUME NEW t \in Thread,
               SubmitRefused(t) \/ Connect(t) \/ SetUp(t) \/ SetUpFails(t) \/ Returns(t)
        PROVE  UNCHANGED <<pending, handled>>
    <3>1. UNCHANGED <<queue, unacked, handled>>
      BY <2>2 DEF SubmitRefused, Connect, SetUp, SetUpFails, Returns
    <3>2. \A u \in Thread : pc'[u] = "cut_off" <=> pc[u] = "cut_off"
      BY <2>2 DEF SubmitRefused, Connect, SetUp, SetUpFails, Returns, Inv, TypeOK,
                  OnlyRestartingSubmit
    <3> QED
      BY <3>1, <3>2, PendingStep
  <2>3. ASSUME NEW t \in Thread, CutOff(t) \/ TakeBack(t) \/ \E m \in Report : Deliver(t, m)
        PROVE  UNCHANGED <<pending, handled>>
    <3>1. \A n : n \in pending' <=> n \in pending
      BY <2>3, PendingMember DEF CutOff, TakeBack, Deliver, Consuming, Inv, TypeOK
    <3> QED
      BY <2>3, <3>1 DEF CutOff, TakeBack, Deliver
  <2>4. ASSUME NEW t \in Thread, NEW m \in Report, Process(t, m)
        PROVE  [Delivery!Next]_<<pending, handled>>
    <3>1. handled' = handled \cup {m} /\ (m \in pending \/ m \in handled)
      BY <2>4, PendingMember DEF Process, Inv, NoReportLost
    <3>2. \A n : n # m => (n \in pending' <=> n \in pending)
      BY <2>4, PendingMember DEF Process, Inv, TypeOK
    <3>3. m \notin pending => m \notin pending'
      BY <2>4, PendingMember DEF Process, Inv, TypeOK
    <3>4. CASE m \in pending
      <4>1. pending' \in {pending, pending \ {m}}
        BY <3>2, <3>4
      <4> QED
        BY <3>1, <3>4, <4>1 DEF Delivery!Handle, Delivery!Next
    <3>5. CASE m \notin pending
      BY <3>1, <3>2, <3>3, <3>5
    <3> QED
      BY <3>4, <3>5
  <2>5. ASSUME NEW t \in Thread, NEW done \in {{}} \cup {{m} : m \in unacked[t] \ Broken},
               StopsConsuming(t, done)
        PROVE  [Delivery!Next]_<<pending, handled>>
    <3>1. \A n : n \in pending' <=> n \in pending
      BY <2>5, PendingMember DEF StopsConsuming, Consuming, Inv, TypeOK
    <3>2. pending' = pending /\ handled' = handled \cup done
      BY <2>5, <3>1 DEF StopsConsuming
    <3>3. CASE done = {}
      BY <3>2, <3>3
    <3>4. ASSUME NEW m \in unacked[t] \ Broken, done = {m}
          PROVE  [Delivery!Next]_<<pending, handled>>
      <4>1. m \in Report /\ (m \in pending \/ m \in handled)
        BY PendingMember DEF Inv, TypeOK, NoReportLost
      <4>2. CASE m \in pending
        BY <3>2, <3>4, <4>1, <4>2 DEF Delivery!Handle, Delivery!Next
      <4>3. CASE m \in handled
        BY <3>2, <3>4, <4>3
      <4> QED
        BY <4>1, <4>2, <4>3
    <3> QED
      BY <2>5, <3>3, <3>4
  <2> QED
    BY <2>1, <2>2, <2>3, <2>4, <2>5 DEF Next, Work
<1> QED
  BY InitInv, InvStep, <1>1, <1>2, PTL DEF Spec, QueueSpec, Delivery!Spec

-----------------------------------------------------------------------------
(* TrackingPublisher                                                       *)

ClientInv == ClientTypeOK /\ MissingExchangeExplained

LEMMA ClientInitInv == ClientInit => ClientInv
  BY TrackingAssumption DEF ClientInit, ClientInv, ClientTypeOK, Label, MissingExchangeExplained

LEMMA ClientTypeStep ==
    ASSUME ClientTypeOK, NEW t \in Task, Step(t) PROVE ClientTypeOK'
<1> USE TrackingAssumption DEF ClientTypeOK, Label, HalfOpen, Goto
<1>1. CASE Publish(t)
  <2>1. sent[t] \in 0 .. Events /\ sent[t] < Events
    BY <1>1 DEF Publish
  <2>2. sent[t] + 1 \in 0 .. Events
    BY <2>1
  <2> QED
    BY <1>1, <2>2 DEF Publish
<1>2. CASE ~Publish(t)
  BY <1>2 DEF Step, Accept, HasConnection, StartConnecting, Connected, ChannelOpened, Declared,
              ConnectFails, AllPublished, NoExchange, PublishFails
<1> QED
  BY <1>1, <1>2

\* A connect() that is under way ends by keeping its exchange, or half-way.
LEMMA MissingStep ==
    ASSUME ClientInv, NEW t \in Task, Step(t) PROVE MissingExchangeExplained'
<1> USE TrackingAssumption DEF ClientInv, ClientTypeOK, HalfOpen, Goto, MissingExchangeExplained
<1>1. CASE Connected(t)
  BY <1>1 DEF Connected
<1>2. CASE ChannelOpened(t)
  BY <1>2 DEF ChannelOpened
<1>3. CASE Declared(t)
  BY <1>3 DEF Declared
<1>4. CASE ConnectFails(t)
  BY <1>4 DEF ConnectFails
<1>5. CASE /\ UNCHANGED <<connection, exchange>>
           /\ stage[t] \notin HalfOpen \cup {"half_connected"}
           /\ \A u \in Task \ {t} : stage'[u] = stage[u]
  BY <1>5
<1> QED
  BY <1>1, <1>2, <1>3, <1>4, <1>5
     DEF Step, Accept, HasConnection, StartConnecting, Publish, AllPublished, NoExchange,
         PublishFails

LEMMA ClientInvStep == ASSUME ClientInv, [ClientNext]_clientVars PROVE ClientInv'
<1>1. CASE UNCHANGED clientVars
  BY <1>1 DEF clientVars, ClientInv, ClientTypeOK, MissingExchangeExplained
<1>2. CASE ClientNext
  BY <1>2, ClientTypeStep, MissingStep DEF ClientNext, ClientInv
<1> QED
  BY <1>1, <1>2

(* Type correctness of the client: no task ever publishes past its events. *)
THEOREM TrackingTypeOK == ClientSpec => []ClientTypeOK
<1>1. ClientInv => ClientTypeOK
  BY DEF ClientInv
<1> QED
  BY ClientInitInv, ClientInvStep, <1>1, PTL DEF ClientSpec

(* No interleaving of connects takes an exchange away that was there.      *)
THEOREM TrackingMissingExchange == ClientSpec => []MissingExchangeExplained
<1>1. ClientInv => MissingExchangeExplained
  BY DEF ClientInv
<1> QED
  BY ClientInitInv, ClientInvStep, <1>1, PTL DEF ClientSpec

\* connected without an exchange, and nobody is about to bring one
Stuck ==
    /\ connection # NoTask /\ exchange = NoTask
    /\ \A t \in Task : stage[t] \notin {"connecting"} \cup HalfOpen

(* A connect() that failed half-way is never made up for: connection is    *)
(* not None, so no later task connects, and all of them find no exchange.  *)
THEOREM TrackingStuckForGood == ClientSpec => [][Stuck => Stuck']_clientVars
<1>1. ASSUME [ClientNext]_clientVars, ClientInv, Stuck PROVE Stuck'
  <2>1. CASE UNCHANGED clientVars
    BY <1>1, <2>1 DEF clientVars, Stuck
  <2>2. ASSUME NEW t \in Task, Step(t) PROVE Stuck'
    <3>1. ~Connected(t) /\ ~ChannelOpened(t) /\ ~Declared(t) /\ ~StartConnecting(t)
          /\ ~ConnectFails(t)
      BY <1>1 DEF Stuck, Connected, ChannelOpened, Declared, StartConnecting, ConnectFails, HalfOpen
    <3>2. /\ UNCHANGED <<connection, exchange>>
          /\ \/ stage' = stage
             \/ \E label \in {"start", "publish", "published", "no_exchange", "broken"} :
                   stage' = [stage EXCEPT ![t] = label]
      BY <2>2, <3>1 DEF Step, Accept, HasConnection, Publish, AllPublished, NoExchange,
                        PublishFails, Goto
    <3> QED
      BY <1>1, <3>2 DEF Stuck, HalfOpen, ClientInv, ClientTypeOK
  <2> QED
    BY <1>1, <2>1, <2>2 DEF ClientNext
<1> QED
  BY ClientInitInv, ClientInvStep, <1>1, PTL DEF ClientSpec
=============================================================================
