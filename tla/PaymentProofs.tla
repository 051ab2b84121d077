--------------------------- MODULE PaymentProofs ---------------------------
(***************************************************************************)
(* Proofs about Payment, for any orders and notifications.  The argument   *)
(* is the row lock's: of the notifications of one order one at most is     *)
(* between its read of "created" and the end of its recharge, since the    *)
(* status is stored before the lock is given up.                           *)
(***************************************************************************)
EXTENDS Payment, TLAPS

Busy == {"update", "recharge"}

\* What a request has done so far.
RequestOK(o) ==
    /\ request[o] = "idle" => kind[o] = "none"
    /\ request[o] \in {"pay", "store", "store_unpayable"} => kind[o] \in {"recharge", "product"}
    /\ request[o] \in {"idle", "pay", "store", "store_unpayable", "consume", "store_paid"} =>
           status[o] = "none" /\ o \notin money
    /\ request[o] \in {"consume", "store_paid"} => kind[o] = "virtual"
    /\ request[o] \in {"idle", "pay", "store", "store_unpayable", "consume"} => debits[o] = 0
    /\ request[o] = "store_paid" => debits[o] = 1
    /\ request[o] = "payable" => status[o] # "none" /\ kind[o] # "virtual"
    /\ kind[o] # "virtual" => debits[o] = 0
    /\ o \in money => request[o] = "payable"

\* What a notification knows of its order.
NoticeOK(n) ==
    /\ notice[n] # "idle" => about[n] \in money
    /\ notice[n] = "update" => status[about[n]] = "created"
    /\ notice[n] = "recharge" =>
           status[about[n]] = "paid" /\ kind[about[n]] = "recharge" /\ credits[about[n]] = 0

OneBusy == \A m, n \in Notice :
    notice[m] \in Busy /\ notice[n] \in Busy /\ about[m] = about[n] => m = n

Inv ==
    /\ TypeOK
    /\ \A o \in Order : RequestOK(o)
    /\ \A n \in Notice : NoticeOK(n)
    /\ OneBusy
    /\ CreditedOnce
    /\ PaidForReal
    /\ NoticeFindsOrder
    /\ MissingCreditExplained

LEMMA InitInv == Init => Inv
  BY DEF Init, Inv, TypeOK, RequestOK, NoticeOK, OneBusy, Busy, CreditedOnce, PaidForReal,
         NoticeFindsOrder, MissingCreditExplained, RequestLabel, NoticeLabel

(* A request only touches its own order, which no notification knows yet.  *)
LEMMA CreateStep == ASSUME Inv, NEW o \in Order, Create(o) PROVE Inv'
<1> USE DEF GotoRequest, orderVars
<1>1. o \notin money /\ status[o] = "none" /\ credits[o] = 0
  BY DEF Inv, TypeOK, RequestOK, CreditedOnce, Create, Refuse, Start, Prepare, Store, Consume, StorePaid,
         PrepareFails, ConsumeFails, StoreFails
<1>2. /\ money' = money /\ credits' = credits /\ about' = about /\ notice' = notice
      /\ \A p \in Order \ {o} : status'[p] = status[p] /\ kind'[p] = kind[p]
                                /\ debits'[p] = debits[p] /\ request'[p] = request[p]
  BY DEF Inv, TypeOK, Create, Refuse, Start, Prepare, Store, Consume, StorePaid,
         PrepareFails, ConsumeFails, StoreFails
<1>3. TypeOK' /\ RequestOK(o)' /\ (status'[o] = "paid" => kind'[o] = "virtual" /\ debits'[o] = 1)
  <2> USE DEF Inv, TypeOK, RequestOK, RequestLabel
  <2>1. CASE Refuse(o)
    BY <1>1, <2>1 DEF Refuse
  <2>2. CASE \E k \in {"recharge", "product", "virtual"} : Start(o, k)
    BY <1>1, <2>2 DEF Start
  <2>3. CASE Prepare(o)
    BY <1>1, <2>3 DEF Prepare
  <2>4. CASE Store(o)
    BY <1>1, <2>4 DEF Store
  <2>5. CASE Consume(o)
    BY <1>1, <2>5 DEF Consume
  <2>6. CASE StorePaid(o)
    BY <1>1, <2>6 DEF StorePaid
  <2>7. CASE PrepareFails(o)
    BY <1>1, <2>7 DEF PrepareFails
  <2>8. CASE ConsumeFails(o)
    BY <1>1, <2>8 DEF ConsumeFails
  <2>9. CASE StoreFails(o)
    BY <1>1, <2>9 DEF StoreFails
  <2> QED
    BY <2>1, <2>2, <2>3, <2>4, <2>5, <2>6, <2>7, <2>8, <2>9 DEF Create
<1>4. \A p \in Order : RequestOK(p)'
  BY <1>2, <1>3 DEF Inv, RequestOK
<1>5. (\A n \in Notice : NoticeOK(n)') /\ OneBusy' /\ NoticeFindsOrder'
  BY <1>1, <1>2 DEF Inv, TypeOK, NoticeOK, OneBusy, NoticeFindsOrder, NoticeLabel, Busy
<1>6. CreditedOnce' /\ PaidForReal' /\ MissingCreditExplained'
  BY <1>1, <1>2, <1>3 DEF Inv, TypeOK, CreditedOnce, PaidForReal, MissingCreditExplained
<1> QED
  BY <1>3, <1>4, <1>5, <1>6 DEF Inv

LEMMA WeChatStep ==
    ASSUME Inv, NEW o \in Order, UserPays(o) \/ \E n \in Notice : Notify(n, o)
    PROVE  Inv'
<1> USE DEF orderVars
<1>1. CASE UserPays(o)
  <2> USE <1>1 DEF UserPays, Inv
  <2>1. TypeOK' /\ \A p \in Order : RequestOK(p)'
    BY DEF TypeOK, RequestOK
  <2>2. (\A n \in Notice : NoticeOK(n)') /\ OneBusy' /\ NoticeFindsOrder'
    BY DEF NoticeOK, OneBusy, NoticeFindsOrder
  <2>3. CreditedOnce' /\ PaidForReal' /\ MissingCreditExplained'
    BY DEF CreditedOnce, PaidForReal, MissingCreditExplained
  <2> QED
    BY <2>1, <2>2, <2>3
<1>2. CASE \E n \in Notice : Notify(n, o)
  <2>0. PICK n \in Notice : Notify(n, o)
    BY <1>2
  <2> USE <2>0 DEF Notify, Goto, Inv
  <2>1. TypeOK' /\ \A p \in Order : RequestOK(p)'
    BY DEF TypeOK, RequestOK, NoticeLabel
  <2>2. (\A m \in Notice : NoticeOK(m)') /\ OneBusy' /\ NoticeFindsOrder'
    BY DEF TypeOK, NoticeOK, OneBusy, NoticeFindsOrder, Busy
  <2>3. CreditedOnce' /\ PaidForReal' /\ MissingCreditExplained'
    BY DEF TypeOK, CreditedOnce, PaidForReal, MissingCreditExplained
  <2> QED
    BY <2>1, <2>2, <2>3
<1> QED
  BY <1>1, <1>2

LEMMA HandleStep == ASSUME Inv, NEW n \in Notice, Handle(n) PROVE Inv'
<1> USE DEF Goto, orderVars
<1>0. /\ notice[n] \in {"read", "update", "recharge"}
      /\ about[n] \in money /\ about[n] \in Order
      /\ status[about[n]] # "none" /\ kind[about[n]] # "virtual" /\ debits[about[n]] = 0
      /\ request[about[n]] = "payable"
  BY DEF Inv, TypeOK, NoticeOK, RequestOK, Handle, Read, ReadFails, Update, UpdateRaises,
         Recharge, RechargeRaises, Crash
<1>1. /\ about' = about /\ money' = money /\ request' = request /\ kind' = kind /\ debits' = debits
      /\ \A m \in Notice \ {n} : notice'[m] = notice[m]
      /\ \A o \in Order \ {about[n]} : status'[o] = status[o] /\ credits'[o] = credits[o]
  BY DEF Inv, TypeOK, Handle, Read, ReadFails, Update, UpdateRaises, Recharge, RechargeRaises, Crash
<1>2. CASE Read(n)
  <2>1. \/ status[about[n]] = "paid" /\ notice'[n] = "already"
        \/ status[about[n]] = "created" /\ notice'[n] = "update"
    BY <1>0, <1>2 DEF Read, AfterRead, Inv, TypeOK
  <2> USE <1>0, <1>1, <1>2, <2>1 DEF Read, Inv
  <2>2. TypeOK' /\ \A o \in Order : RequestOK(o)'
    BY DEF TypeOK, RequestOK, NoticeLabel
  <2>3. \A m \in Notice : NoticeOK(m)'
    BY DEF TypeOK, NoticeOK
  <2>4. OneBusy'
    BY DEF OneBusy, Busy, Unlocked, NoticeOK
  <2>5. NoticeFindsOrder' /\ CreditedOnce' /\ PaidForReal' /\ MissingCreditExplained'
    BY DEF TypeOK, NoticeFindsOrder, CreditedOnce, PaidForReal, MissingCreditExplained
  <2> QED
    BY <2>2, <2>3, <2>4, <2>5
<1>3. CASE ReadFails(n)
  <2> USE <1>0, <1>1, <1>3 DEF ReadFails, Inv
  <2>1. TypeOK' /\ \A o \in Order : RequestOK(o)'
    BY DEF TypeOK, RequestOK, NoticeLabel
  <2>2. (\A m \in Notice : NoticeOK(m)') /\ OneBusy'
    BY DEF TypeOK, NoticeOK, OneBusy, Busy
  <2>3. NoticeFindsOrder' /\ CreditedOnce' /\ PaidForReal' /\ MissingCreditExplained'
    BY DEF TypeOK, NoticeFindsOrder, CreditedOnce, PaidForReal, MissingCreditExplained
  <2> QED
    BY <2>1, <2>2, <2>3
<1>4. CASE Update(n) \/ UpdateRaises(n)
  <2>1. /\ notice[n] = "update" /\ status[about[n]] = "created" /\ credits' = credits
        /\ status'[about[n]] \in {"created", "paid"}
        /\ status'[about[n]] = "paid" /\ kind[about[n]] = "recharge" =>
               notice'[n] \in {"recharge", "error"}
        /\ notice'[n] \in {"recharge", "success", "error"}
        /\ notice'[n] = "recharge" => status'[about[n]] = "paid" /\ kind[about[n]] = "recharge"
    BY <1>0, <1>4 DEF Update, UpdateRaises, Inv, TypeOK, NoticeOK
  <2>2. credits[about[n]] = 0
    BY <1>0, <2>1 DEF Inv, TypeOK, CreditedOnce
  <2>3. \A m \in Notice \ {n} : about[m] = about[n] => notice[m] \notin Busy
    BY <2>1 DEF Inv, OneBusy, Busy
  <2> USE <1>0, <1>1, <2>1 DEF Inv
  <2>4. TypeOK'
    BY <1>4 DEF TypeOK, NoticeLabel, Update, UpdateRaises
  <2>5. \A o \in Order : RequestOK(o)'
    BY DEF RequestOK
  <2>6. \A m \in Notice : NoticeOK(m)'
    BY <2>2, <2>3 DEF TypeOK, NoticeOK, Busy
  <2>7. OneBusy' /\ NoticeFindsOrder'
    BY <2>3 DEF OneBusy, Busy, NoticeFindsOrder
  <2>8. CreditedOnce' /\ PaidForReal'
    BY <2>2 DEF TypeOK, CreditedOnce, PaidForReal
  <2>9. MissingCreditExplained'
    BY DEF TypeOK, MissingCreditExplained
  <2> QED
    BY <2>4, <2>5, <2>6, <2>7, <2>8, <2>9
<1>5. CASE Recharge(n) \/ RechargeRaises(n) \/ (Crash(n) /\ notice[n] = "recharge")
  <2>1. /\ notice[n] = "recharge" /\ status' = status
        /\ status[about[n]] = "paid" /\ kind[about[n]] = "recharge"
        /\ credits'[about[n]] \in {0, 1}
        /\ credits'[about[n]] = 0 => notice'[n] \in {"lost", "error"}
        /\ notice'[n] \in {"success", "lost", "error"}
    BY <1>0, <1>5 DEF Recharge, RechargeRaises, Crash, Inv, TypeOK, NoticeOK
  <2>2. \A m \in Notice \ {n} : about[m] = about[n] => notice[m] \notin Busy
    BY <2>1 DEF Inv, OneBusy, Busy
  <2> USE <1>0, <1>1, <2>1 DEF Inv
  <2>3. TypeOK'
    BY <1>5 DEF TypeOK, NoticeLabel, Recharge, RechargeRaises, Crash
  <2>4. \A o \in Order : RequestOK(o)'
    BY DEF RequestOK
  <2>5. \A m \in Notice : NoticeOK(m)'
    BY <2>2 DEF TypeOK, NoticeOK, Busy
  <2>6. OneBusy' /\ NoticeFindsOrder'
    BY <2>2 DEF OneBusy, Busy, NoticeFindsOrder
  <2>7. CreditedOnce' /\ PaidForReal'
    BY DEF TypeOK, CreditedOnce, PaidForReal
  <2>8. MissingCreditExplained'
    BY DEF TypeOK, MissingCreditExplained
  <2> QED
    BY <2>3, <2>4, <2>5, <2>6, <2>7, <2>8
<1>6. CASE Crash(n) /\ notice[n] = "update"
  <2>1. notice'[n] = "failed" /\ status' = status /\ credits' = credits
    BY <1>6 DEF Crash, Inv, TypeOK
  <2> USE <1>0, <1>1, <1>6, <2>1 DEF Inv
  <2>2. TypeOK' /\ \A o \in Order : RequestOK(o)'
    BY DEF TypeOK, RequestOK, NoticeLabel, Crash
  <2>3. (\A m \in Notice : NoticeOK(m)') /\ OneBusy'
    BY DEF TypeOK, NoticeOK, OneBusy, Busy
  <2>4. NoticeFindsOrder' /\ CreditedOnce' /\ PaidForReal' /\ MissingCreditExplained'
    BY DEF TypeOK, NoticeFindsOrder, CreditedOnce, PaidForReal, MissingCreditExplained
  <2> QED
    BY <2>2, <2>3, <2>4
<1> QED
  BY <1>2, <1>3, <1>4, <1>5, <1>6 DEF Handle, Crash

LEMMA InvStep == ASSUME Inv, [Next]_vars PROVE Inv'
<1>1. CASE UNCHANGED vars
  BY <1>1 DEF vars, Inv, TypeOK, RequestOK, NoticeOK, OneBusy, CreditedOnce, PaidForReal,
              NoticeFindsOrder, MissingCreditExplained
<1>2. CASE Next
  BY <1>2, CreateStep, WeChatStep, HandleStep DEF Next
<1> QED
  BY <1>1, <1>2

(* The inductive invariant of the payments.                                *)
THEOREM PaymentInvariant == Spec => []Inv
  BY InitInv, InvStep, PTL DEF Spec

(* Type correctness of orders, requests and notifications.                 *)
THEOREM PaymentTypeOK == Spec => []TypeOK
<1>1. Inv => TypeOK
  BY DEF Inv
<1> QED
  BY PaymentInvariant, <1>1, PTL

(* No number of notifications, in whatever order or at one time, credits a *)
(* payment twice.                                                          *)
THEOREM PaymentCreditedOnce == Spec => []CreditedOnce
<1>1. Inv => CreditedOnce
  BY DEF Inv
<1> QED
  BY PaymentInvariant, <1>1, PTL

(* No order is paid without money or coins.                                *)
THEOREM PaymentPaidForReal == Spec => []PaidForReal
<1>1. Inv => PaidForReal
  BY DEF Inv
<1> QED
  BY PaymentInvariant, <1>1, PTL

(* No payment WeChat notifies is unknown.                                  *)
THEOREM PaymentNoticeFindsOrder == Spec => []NoticeFindsOrder
<1>1. Inv => NoticeFindsOrder
  BY DEF Inv
<1> QED
  BY PaymentInvariant, <1>1, PTL

(* Coins are only ever missing because a notification failed half-way.     *)
THEOREM PaymentMissingCreditExplained == Spec => []MissingCreditExplained
<1>1. Inv => MissingCreditExplained
  BY DEF Inv
<1> QED
  BY PaymentInvariant, <1>1, PTL

LEMMA TakenOnce ==
    ASSUME NEW o \in Order, \A p \in Order : taken'[p] = IF p = o THEN 1 ELSE taken[p]
    PROVE  taken' = [taken EXCEPT ![o] = 1]
<1>1. taken = [p \in Order |-> taken[p]] /\ taken' = [p \in Order |-> taken'[p]]
  BY DEF taken
<1> QED
  BY <1>1

(* Every step of a request is a step of the ledger, or none at all.        *)
LEMMA CreateLedger == ASSUME Inv, NEW o \in Order, Create(o) PROVE [Ledger!Next]_(Ledger!vars)
<1> USE DEF Inv, TypeOK, RequestOK, orderVars, GotoRequest
<1>1. CASE \E k \in {"recharge", "product", "virtual"} : Start(o, k)
  <2>1. PICK k \in {"recharge", "product", "virtual"} : Start(o, k)
    BY <1>1
  <2>2. /\ status[o] = "none" /\ o \notin money /\ debits[o] = 0 /\ kind[o] = "none"
        /\ UNCHANGED <<status, money, debits, credits>>
    BY <2>1 DEF Start
  <2>3. {p \in Order : kind'[p] = "recharge"} =
            IF k = "recharge" THEN {p \in Order : kind[p] = "recharge"} \cup {o}
                              ELSE {p \in Order : kind[p] = "recharge"}
    BY <2>1, <2>2 DEF Start
  <2>4. CASE k = "recharge"
    <3>1. Ledger!Ask(o)
      BY <2>2, <2>3, <2>4 DEF Ledger!Ask, taken
    <3> QED
      BY <3>1 DEF Ledger!Next
  <2>5. CASE k # "recharge"
    BY <2>2, <2>3, <2>5 DEF Ledger!vars, taken
  <2> QED
    BY <2>4, <2>5
<1>2. CASE Store(o)
  <2>1. Ledger!Place(o)
    BY <1>2 DEF Store, Ledger!Place, taken
  <2> QED
    BY <2>1 DEF Ledger!Next
<1>3. CASE Consume(o) \/ ConsumeFails(o)
  <2>1. /\ status[o] = "none" /\ o \notin money /\ debits[o] = 0 /\ kind[o] = "virtual"
        /\ UNCHANGED <<status, money, kind, credits>>
        /\ debits' = [debits EXCEPT ![o] = 0] \/ debits' = [debits EXCEPT ![o] = 1]
    BY <1>3 DEF Consume, ConsumeFails
  <2>2. CASE debits' = [debits EXCEPT ![o] = 0]
    <3>1. debits' = debits
      BY <2>1, <2>2
    <3> QED
      BY <2>1, <3>1 DEF Ledger!vars, taken
  <2>3. CASE debits' = [debits EXCEPT ![o] = 1]
    <3>1. taken[o] = 0 /\ taken' = [taken EXCEPT ![o] = 1]
      <4>1. \A p \in Order : taken'[p] = IF p = o THEN 1 ELSE taken[p]
        BY <2>1, <2>3 DEF taken
      <4>2. taken[o] = 0
        BY <2>1 DEF taken
      <4> QED
        BY <4>1, <4>2, TakenOnce
    <3>2. Ledger!Take(o)
      BY <2>1, <2>3, <3>1 DEF Ledger!Take
    <3> QED
      BY <3>2 DEF Ledger!Next
  <2> QED
    BY <2>1, <2>2, <2>3
<1>4. CASE StorePaid(o)
  <2>1. Ledger!Settle(o)
    BY <1>4 DEF StorePaid, Ledger!Settle, taken
  <2> QED
    BY <2>1 DEF Ledger!Next
<1>5. CASE StoreFails(o)
  <2>1. /\ status[o] = "none" /\ o \notin money /\ UNCHANGED <<money, kind, debits, credits>>
    BY <1>5 DEF StoreFails
  <2>2. CASE status'[o] = "none"
    <3>1. status' = status
      BY <1>5, <2>1, <2>2 DEF StoreFails
    <3> QED
      BY <2>1, <3>1 DEF Ledger!vars, taken
  <2>3. CASE request[o] = "store_paid" /\ status'[o] = "paid"
    <3>1. Ledger!Settle(o)
      BY <1>5, <2>1, <2>3 DEF StoreFails, Ledger!Settle, taken
    <3> QED
      BY <3>1 DEF Ledger!Next
  <2>4. CASE request[o] # "store_paid" /\ status'[o] = "created"
    <3>1. Ledger!Place(o)
      BY <1>5, <2>1, <2>4 DEF StoreFails, Ledger!Place, taken
    <3> QED
      BY <3>1 DEF Ledger!Next
  <2> QED
    BY <1>5, <2>2, <2>3, <2>4 DEF StoreFails
<1>6. CASE Refuse(o) \/ Prepare(o) \/ PrepareFails(o)
  BY <1>6 DEF Refuse, Prepare, PrepareFails, Ledger!vars, taken
<1> QED
  BY <1>1, <1>2, <1>3, <1>4, <1>5, <1>6 DEF Create

\* Paying takes the money; paying again what is paid takes nothing more.
LEMMA WeChatLedger ==
    ASSUME Inv, NEW o \in Order, UserPays(o) \/ \E n \in Notice : Notify(n, o)
    PROVE  [Ledger!Next]_(Ledger!vars)
<1> USE DEF orderVars
<1>1. CASE UserPays(o) /\ o \notin money
  <2>1. status[o] = "created" /\ debits[o] = 0
    BY <1>1 DEF UserPays, Inv, TypeOK, RequestOK, PaidForReal
  <2>2. taken[o] = 0 /\ taken' = [taken EXCEPT ![o] = 1]
    <3>1. \A p \in Order : taken'[p] = IF p = o THEN 1 ELSE taken[p]
      BY <1>1, <2>1 DEF UserPays, taken
    <3>2. taken[o] = 0
      BY <1>1, <2>1 DEF taken
    <3> QED
      BY <3>1, <3>2, TakenOnce
  <2>3. Ledger!Take(o)
    BY <1>1, <2>1, <2>2 DEF UserPays, Inv, TypeOK, Ledger!Take
  <2> QED
    BY <2>3 DEF Ledger!Next
<1>2. CASE UserPays(o) /\ o \in money
  BY <1>2 DEF UserPays, Ledger!vars, taken
<1>3. CASE \E n \in Notice : Notify(n, o)
  BY <1>3 DEF Notify, Ledger!vars, taken
<1> QED
  BY <1>1, <1>2, <1>3

(* A notification settles its order, credits it, or changes nothing.       *)
LEMMA HandleLedger == ASSUME Inv, NEW n \in Notice, Handle(n) PROVE [Ledger!Next]_(Ledger!vars)
<1> USE DEF orderVars, taken
<1> DEFINE o == about[n]
<1>1. /\ o \in Order /\ o \in money /\ debits[o] = 0
      /\ money' = money /\ debits' = debits /\ kind' = kind
  BY DEF Inv, TypeOK, NoticeOK, RequestOK, Handle, Read, ReadFails, Update, UpdateRaises,
         Recharge, RechargeRaises, Crash
<1>2. CASE Update(n) \/ UpdateRaises(n)
  <2>1. /\ status[o] = "created" /\ credits' = credits
        /\ status' = [status EXCEPT ![o] = "created"] \/ status' = [status EXCEPT ![o] = "paid"]
    BY <1>2 DEF Update, UpdateRaises, Inv, NoticeOK
  <2>2. CASE status' = [status EXCEPT ![o] = "created"]
    <3>1. status' = status
      BY <1>1, <2>1, <2>2 DEF Inv, TypeOK
    <3> QED
      BY <1>1, <2>1, <3>1 DEF Ledger!vars
  <2>3. CASE status' = [status EXCEPT ![o] = "paid"]
    <3>1. Ledger!Settle(o)
      BY <1>1, <2>1, <2>3 DEF Ledger!Settle
    <3> QED
      BY <1>1, <3>1 DEF Ledger!Next
  <2> QED
    BY <2>1, <2>2, <2>3
<1>3. CASE Recharge(n) \/ RechargeRaises(n)
  <2>1. /\ status[o] = "paid" /\ kind[o] = "recharge" /\ credits[o] = 0 /\ status' = status
        /\ credits' = [credits EXCEPT ![o] = 0] \/ credits' = [credits EXCEPT ![o] = 1]
    BY <1>1, <1>3 DEF Recharge, RechargeRaises, Inv, TypeOK, NoticeOK
  <2>2. CASE credits' = [credits EXCEPT ![o] = 0]
    <3>1. credits' = credits
      BY <1>1, <2>1, <2>2 DEF Inv, TypeOK
    <3> QED
      BY <1>1, <2>1, <3>1 DEF Ledger!vars
  <2>3. CASE credits' = [credits EXCEPT ![o] = 1]
    <3>1. Ledger!Credit(o)
      BY <1>1, <2>1, <2>3 DEF Ledger!Credit
    <3> QED
      BY <1>1, <3>1 DEF Ledger!Next
  <2> QED
    BY <2>1, <2>2, <2>3
<1>4. CASE Read(n) \/ ReadFails(n) \/ Crash(n)
  BY <1>4 DEF Read, ReadFails, Crash, Ledger!vars
<1> QED
  BY <1>2, <1>3, <1>4 DEF Handle

(* The payments implement the ledger: nothing is taken, paid or credited   *)
(* twice, whatever fails and however often WeChat notifies.                *)
THEOREM PaymentImplementsLedger == Spec => LedgerSpec
<1>1. Init => Ledger!Init
  BY DEF Init, Ledger!Init, taken
<1>2. ASSUME Inv, [Next]_vars PROVE [Ledger!Next]_(Ledger!vars)
  <2>1. CASE UNCHANGED vars
    BY <2>1 DEF vars, Ledger!vars, taken
  <2>2. CASE Next
    BY <1>2, <2>2, CreateLedger, WeChatLedger, HandleLedger DEF Next
  <2> QED
    BY <1>2, <2>1, <2>2
<1> QED
  BY PaymentInvariant, <1>1, <1>2, PTL DEF Spec, LedgerSpec, Ledger!Spec
=============================================================================
