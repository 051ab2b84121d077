------------------------------ MODULE Payment ------------------------------
(***************************************************************************)
(* services/payment.py: orders, paid with WeChat Pay or with virtual       *)
(* coins, and the notifications WeChat Pay sends, and sends again until it *)
(* reads SUCCESS.  A notification marks its order as paid and, for a       *)
(* recharge, then credits the coins; a purchase with coins debits them and *)
(* then stores its order.                                                  *)
(*                                                                         *)
(* The order table and the coin account belong to repositories that are    *)
(* not in the tree.  They are modelled from their use: every call commits  *)
(* what it did (the handler counts on the status being stored when the     *)
(* recharge after it fails), and get_by_order_id_with_lock locks the row   *)
(* until the next commit or the end of the session.                        *)
(***************************************************************************)
EXTENDS Naturals

CONSTANTS
    Order,   \* order ids: each belongs to the one request that made it up
    Notice,  \* notifications that reach the service
    NoOrder

ASSUME PaymentAssumption == NoOrder \notin Order

VARIABLES
    status,    \* status of the stored order, "none" when there is none
    kind,      \* order_type, or "virtual" for payment_method virtual_currency
    request,   \* where create_order is
    money,     \* WeChat: orders the user has paid
    credits,   \* recharge transactions of an order
    debits,    \* consume transactions of an order
    about,     \* out_trade_no of a notification
    notice     \* where handle_payment_notify is, and what it answered

vars == <<status, kind, request, money, credits, debits, about, notice>>
orderVars == <<status, kind, credits, debits>>

RequestLabel == {"idle", "pay", "store", "store_unpayable", "consume", "store_paid",
                 "payable", "answered", "failed"}

\* "error": SUCCESS from the except branch; "lost": died between status and coins
NoticeLabel == {"idle", "read", "update", "recharge", "success", "already", "error",
                "missing", "failed", "lost"}

TypeOK ==
    /\ status \in [Order -> {"none", "created", "paid"}]
    /\ kind \in [Order -> {"none", "recharge", "product", "virtual"}]
    /\ request \in [Order -> RequestLabel]
    /\ money \in SUBSET Order
    /\ credits \in [Order -> Nat]
    /\ debits \in [Order -> Nat]
    /\ about \in [Notice -> Order \cup {NoOrder}]
    /\ notice \in [Notice -> NoticeLabel]

Init ==
    /\ status = [o \in Order |-> "none"]
    /\ kind = [o \in Order |-> "none"]
    /\ request = [o \in Order |-> "idle"]
    /\ money = {}
    /\ credits = [o \in Order |-> 0]
    /\ debits = [o \in Order |-> 0]
    /\ about = [n \in Notice |-> NoOrder]
    /\ notice = [n \in Notice |-> "idle"]

GotoRequest(o, label) == request' = [request EXCEPT ![o] = label]
Goto(n, label) == notice' = [notice EXCEPT ![n] = label]

-----------------------------------------------------------------------------
(* create_order                                                            *)

\* A JSAPI payment without an openid, or a recharge with coins: ValueError.
Refuse(o) ==
    /\ request[o] = "idle"
    /\ GotoRequest(o, "failed")
    /\ UNCHANGED <<orderVars, money, about, notice>>

Start(o, k) ==
    /\ request[o] = "idle"
    /\ kind' = [kind EXCEPT ![o] = k]
    /\ GotoRequest(o, IF k = "virtual" THEN "consume" ELSE "pay")
    /\ UNCHANGED <<status, credits, debits, money, about, notice>>

\* WeChat prepares the payment, or answers an error code that is passed on.
Prepare(o) ==
    /\ request[o] = "pay"
    /\ \E label \in {"store", "store_unpayable"} : GotoRequest(o, label)
    /\ UNCHANGED <<orderVars, money, about, notice>>

\* A key file is missing or the SDK does not start - the next order tries that
\* again - or pay() raises: there is no order.
PrepareFails(o) ==
    /\ request[o] = "pay"
    /\ GotoRequest(o, "failed")
    /\ UNCHANGED <<orderVars, money, about, notice>>

Store(o) ==
    /\ request[o] \in {"store", "store_unpayable"}
    /\ status' = [status EXCEPT ![o] = "created"]
    /\ GotoRequest(o, IF request[o] = "store" THEN "payable" ELSE "answered")
    /\ UNCHANGED <<kind, credits, debits, money, about, notice>>

-----------------------------------------------------------------------------
(* _create_virtual_currency_order                                          *)

\* The balance is checked and reduced in one go.
Consume(o) ==
    /\ request[o] = "consume"
    /\ debits' = [debits EXCEPT ![o] = @ + 1]
    /\ GotoRequest(o, "store_paid")
    /\ UNCHANGED <<status, kind, credits, money, about, notice>>

StorePaid(o) ==
    /\ request[o] = "store_paid"
    /\ status' = [status EXCEPT ![o] = "paid"]
    /\ GotoRequest(o, "answered")
    /\ UNCHANGED <<kind, credits, debits, money, about, notice>>

(* A call raises - the balance is too low, say - or the pod stops, before  *)
(* or after what the call commits; nothing undoes what was committed.      *)
ConsumeFails(o) ==
    /\ request[o] = "consume"
    /\ \E d \in {0, 1} : debits' = [debits EXCEPT ![o] = @ + d]
    /\ GotoRequest(o, "failed")
    /\ UNCHANGED <<status, kind, credits, money, about, notice>>

StoreFails(o) ==
    /\ request[o] \in {"store", "store_unpayable", "store_paid"}
    /\ \E s \in {"none", IF request[o] = "store_paid" THEN "paid" ELSE "created"} :
          status' = [status EXCEPT ![o] = s]
    /\ GotoRequest(o, "failed")
    /\ UNCHANGED <<kind, credits, debits, money, about, notice>>

-----------------------------------------------------------------------------
(* WeChat Pay                                                              *)

\* The user needs the prepay_id the request answered.
UserPays(o) ==
    /\ request[o] = "payable"
    /\ money' = money \cup {o}
    /\ UNCHANGED <<orderVars, request, about, notice>>

\* WeChat sends as many notifications of a payment as it likes, in parallel too.
Notify(n, o) ==
    /\ notice[n] = "idle"
    /\ o \in money
    /\ about' = [about EXCEPT ![n] = o]
    /\ Goto(n, "read")
    /\ UNCHANGED <<orderVars, request, money>>

-----------------------------------------------------------------------------
(* handle_payment_notify                                                   *)

AfterRead == [none |-> "missing", paid |-> "already", created |-> "update"]

Unlocked(o) == \A n \in Notice : about[n] = o => notice[n] # "update"

\* Mutant: the order is read without FOR UPDATE.
ReadUnlocked(n) ==
    /\ notice[n] = "read"
    /\ Goto(n, AfterRead[status[about[n]]])
    /\ UNCHANGED <<orderVars, request, money, about>>

\* the answers "missing" and "already" end the session, and the lock with it
Read(n) ==
    /\ notice[n] = "read"
    /\ Unlocked(about[n])
    /\ Goto(n, AfterRead[status[about[n]]])
    /\ UNCHANGED <<orderVars, request, money, about>>

\* There is no client, the notification does not verify, or the read fails: FAILED,
\* try again.
ReadFails(n) ==
    /\ notice[n] = "read"
    /\ Goto(n, "failed")
    /\ UNCHANGED <<orderVars, request, money, about>>

\* Mutant: WeChat's trade_state goes into the column.
UpdateToTradeState(n) ==
    /\ notice[n] = "update"
    /\ status' = [status EXCEPT ![about[n]] = "SUCCESS"]
    /\ Goto(n, IF kind[about[n]] = "recharge" THEN "recharge" ELSE "success")
    /\ UNCHANGED <<kind, credits, debits, request, money, about>>

\* Mutant: whether the order is a recharge is lost on the way.
UpdateOnly(n) ==
    /\ notice[n] = "update"
    /\ status' = [status EXCEPT ![about[n]] = "paid"]
    /\ Goto(n, "success")
    /\ UNCHANGED <<kind, credits, debits, request, money, about>>

\* update_status commits, and with it ends the lock
Update(n) ==
    /\ notice[n] = "update"
    /\ status' = [status EXCEPT ![about[n]] = "paid"]
    /\ Goto(n, IF kind[about[n]] = "recharge" THEN "recharge" ELSE "success")
    /\ UNCHANGED <<kind, credits, debits, request, money, about>>

Recharge(n) ==
    /\ notice[n] = "recharge"
    /\ credits' = [credits EXCEPT ![about[n]] = @ + 1]
    /\ Goto(n, "success")
    /\ UNCHANGED <<status, kind, debits, request, money, about>>

(* update_status or recharge raises, perhaps after its commit: the except  *)
(* branch answers SUCCESS all the same.                                    *)
UpdateRaises(n) ==
    /\ notice[n] = "update"
    /\ \E s \in {"created", "paid"} : status' = [status EXCEPT ![about[n]] = s]
    /\ Goto(n, "error")
    /\ UNCHANGED <<kind, credits, debits, request, money, about>>

RechargeRaises(n) ==
    /\ notice[n] = "recharge"
    /\ \E c \in {0, 1} : credits' = [credits EXCEPT ![about[n]] = @ + c]
    /\ Goto(n, "error")
    /\ UNCHANGED <<status, kind, debits, request, money, about>>

\* The pod stops; WeChat gets no answer.
Crash(n) ==
    /\ notice[n] \in {"update", "recharge"}
    /\ Goto(n, IF notice[n] = "recharge" THEN "lost" ELSE "failed")
    /\ UNCHANGED <<orderVars, request, money, about>>

Create(o) ==
    \/ Refuse(o) \/ \E k \in {"recharge", "product", "virtual"} : Start(o, k)
    \/ Prepare(o) \/ PrepareFails(o) \/ Store(o)
    \/ Consume(o) \/ StorePaid(o)
    \/ ConsumeFails(o) \/ StoreFails(o)

Handle(n) ==
    \/ Read(n) \/ ReadFails(n)
    \/ Update(n) \/ UpdateRaises(n)
    \/ Recharge(n) \/ RechargeRaises(n)
    \/ Crash(n)

Next ==
    \/ \E o \in Order : Create(o) \/ UserPays(o)
    \/ \E n \in Notice : Handle(n) \/ \E o \in Order : Notify(n, o)

Spec == Init /\ [][Next]_vars

-----------------------------------------------------------------------------
(* However often, and however many at a time, WeChat notifies a payment,   *)
(* it is credited once at most, and only a recharge the user did pay is.   *)
CreditedOnce == \A o \in Order :
    /\ credits[o] <= 1
    /\ credits[o] > 0 => o \in money /\ kind[o] = "recharge" /\ status[o] = "paid"

(* An order is "paid" for money WeChat took or for coins that were debited,*)
(* once.                                                                   *)
PaidForReal == \A o \in Order : status[o] = "paid" =>
    IF kind[o] = "virtual" THEN debits[o] = 1 ELSE o \in money /\ debits[o] = 0

(* A notification always finds its order: WeChat knows an order before the *)
(* table does, but the user learns of it after.                            *)
NoticeFindsOrder == \A n \in Notice : notice[n] # "missing"

(* Requests, notifications and their failures keep the ledger: money or    *)
(* coins are taken once for an order, it is paid only for them, and a      *)
(* recharge is credited once, however often and however many at a time     *)
(* WeChat notifies its payment.                                            *)
taken == [o \in Order |-> (IF o \in money THEN 1 ELSE 0) + debits[o]]

Ledger == INSTANCE PaymentLedger WITH
    state <- status,
    credited <- credits,
    recharges <- {o \in Order : kind[o] = "recharge"}

LedgerSpec == Ledger!Spec

(* A recharge that is paid and not credited is about to be, or the one     *)
(* notification that would have done it failed half-way - all the others   *)
(* are answered "already handled", so nothing repairs it.                  *)
MissingCreditExplained == \A o \in Order :
    status[o] = "paid" /\ kind[o] = "recharge" /\ credits[o] = 0 =>
        \E n \in Notice : about[n] = o /\ notice[n] \in {"recharge", "lost", "error"}

(* "The order status is updated, but the recharge of coins may have        *)
(* failed": a notification that is answered SUCCESS, which WeChat does not *)
(* repeat, has left its order paid.                                        *)
SuccessMeansPaid == \A n \in Notice :
    notice[n] \in {"success", "already", "error"} => status[about[n]] = "paid"
=============================================================================
