------------------------- MODULE WechatCallsProofs -------------------------
(***************************************************************************)
(* Proofs about WechatCalls, for any coroutines, whatever they call for,   *)
(* any margin, timeout and lifetimes.                                      *)
(*                                                                         *)
(* The argument: a reply names a token that expires at most expires_in     *)
(* after the reply was made.  It is read at most Timeout after it was      *)
(* asked for, or, by a call that was woken before the loop was taken from  *)
(* it, that much later and the time the loop was held.  So expires_at is   *)
(* late by at most Timeout + held, and a token from the cache had at least *)
(* Margin - Timeout - held to live when its call was posted.               *)
(***************************************************************************)
EXTENDS WechatCalls, TLAPS

\* A reply on its way was made after it was asked for.
ReplyFits(c) ==
    /\ pc[c] = "asking" => posted[c] <= now
    /\ pc[c] = "answered" =>
          /\ reply[c].token >= posted[c] + reply[c].expiresIn
          /\ reply[c].token >= 1

\* A woken call is late by no more than the loop was held.
BatchIsRecent ==
    \A c \in batch : pc[c] \in {"answered", "judged"} /\ now <= posted[c] + Timeout + held

\* What a call on its way knows of its token, if that came from the cache.
ServedAlive(c) ==
    pc[c] \in {"sent", "judged"} /\ cached[c] => served[c] + Timeout + held > posted[c] + Margin

\* Before it is sent, no call has a token from the cache or a verdict.
NotYet(c) ==
    /\ pc[c] \notin {"sent", "judged"} => ~cached[c]
    /\ pc[c] # "judged" => verdict[c] = "none"

Inv ==
    /\ CallsTypeOK
    /\ BeliefIsClose
    /\ BatchIsRecent
    /\ \A c \in Call : ReplyFits(c) /\ ServedAlive(c) /\ NotYet(c)

LEMMA InitInv == Init => Inv
  BY CallsAssumption DEF Init, Inv, CallsTypeOK, BeliefIsClose, BatchIsRecent, ReplyFits,
     ServedAlive, NotYet, NoReply, Over

\* A call that ends leaves nothing behind but the cache.
LEMMA EndInv ==
    ASSUME Inv, NEW c \in Call, NEW label \in Ended, End(c, label),
           batch' = batch \ {c}, blocked' \in Call \cup {NoCall}, UNCHANGED <<clock, cache>>
    PROVE  Inv'
<1> USE CallsAssumption DEF End, Goto, clock, cache, NoReply, Ended, Over
<1>1. CallsTypeOK'
  BY DEF Inv, CallsTypeOK
<1>2. BeliefIsClose'
  BY DEF Inv, BeliefIsClose
<1>3. \A d \in Call \ {c} : /\ pc'[d] = pc[d] /\ posted'[d] = posted[d] /\ reply'[d] = reply[d]
                            /\ served'[d] = served[d] /\ cached'[d] = cached[d]
                            /\ verdict'[d] = verdict[d]
  BY DEF Inv, CallsTypeOK
<1>4. pc'[c] \in Ended /\ ~cached'[c] /\ verdict'[c] = "none"
  BY DEF Inv, CallsTypeOK
<1>5. BatchIsRecent'
  BY <1>3 DEF Inv, CallsTypeOK, BatchIsRecent
<1>6. \A d \in Call : ReplyFits(d)' /\ ServedAlive(d)' /\ NotYet(d)'
  BY <1>3, <1>4 DEF Inv, ReplyFits, ServedAlive, NotYet
<1> QED
  BY <1>1, <1>2, <1>5, <1>6 DEF Inv

\* Whether it takes the loop or not, a call that posts leaves a sound batch.
LEMMA SendBatch ==
    ASSUME Inv, NEW c \in Call, NEW t \in Nat, SendWith(c, t), UNCHANGED clock
    PROVE  /\ BatchIsRecent'
           /\ batch' \in SUBSET Call
           /\ blocked' \in Call \cup {NoCall}
           /\ c \notin batch'
<1> USE CallsAssumption DEF SendWith, Goto, clock
<1>1. c \notin batch' /\ batch' \subseteq batch \cup Woken(c) /\ blocked' \in {c, blocked}
  BY DEF TakeLoop, KeepLoop, Woken
<1>2. \A d \in batch' : /\ d \in Call \ {c} /\ pc[d] \in {"answered", "judged"}
                        /\ now <= posted[d] + Timeout + held
  BY <1>1 DEF Woken, InTime, Inv, CallsTypeOK, BatchIsRecent
<1>3. \A d \in Call \ {c} : pc'[d] = pc[d] /\ posted'[d] = posted[d]
  BY DEF Inv, CallsTypeOK
<1> QED
  BY <1>1, <1>2, <1>3 DEF BatchIsRecent, Inv, CallsTypeOK

LEMMA ServeCachedInv == ASSUME Inv, NEW c \in Call, ServeCached(c) PROVE Inv'
<1> USE CallsAssumption DEF ServeCached, cache, clock
<1> DEFINE a == AccountOf(kind[c])
<1>1. a \in Account /\ token[a] \in Nat /\ expiresAt[a] \in Nat
  BY DEF AccountOf, Account, Inv, CallsTypeOK
<1>2. BatchIsRecent' /\ batch' \in SUBSET Call /\ blocked' \in Call \cup {NoCall}
  BY <1>1, SendBatch
<1>3. ~guessed[a] => token[a] + Timeout + held > now + Margin
  BY <1>1 DEF CacheValid, Inv, CallsTypeOK, BeliefIsClose
<1> USE DEF SendWith, Goto
<1>4. CallsTypeOK'
  BY <1>1, <1>2 DEF Inv, CallsTypeOK
<1>5. BeliefIsClose'
  BY DEF Inv, BeliefIsClose
<1>6. \A d \in Call \ {c} : /\ pc'[d] = pc[d] /\ posted'[d] = posted[d] /\ served'[d] = served[d]
                            /\ cached'[d] = cached[d]
  BY DEF Inv, CallsTypeOK
<1>7. /\ pc'[c] = "sent" /\ posted'[c] = now /\ served'[c] = token[a]
      /\ cached'[c] = ~guessed[a]
      /\ verdict'[c] = "none"
  BY DEF Inv, CallsTypeOK, NotYet, Over, Ended
<1>8. \A d \in Call : ReplyFits(d)' /\ ServedAlive(d)' /\ NotYet(d)'
  BY <1>3, <1>6, <1>7 DEF Inv, ReplyFits, ServedAlive, NotYet
<1> QED
  BY <1>2, <1>4, <1>5, <1>8 DEF Inv

LEMMA SendInv == ASSUME Inv, NEW c \in Call, Send(c) PROVE Inv'
<1> USE CallsAssumption DEF Send, cache, clock
<1>1. served[c] \in Nat
  BY DEF Inv, CallsTypeOK
<1>2. BatchIsRecent' /\ batch' \in SUBSET Call /\ blocked' \in Call \cup {NoCall}
  BY <1>1, SendBatch
<1> USE DEF SendWith, Goto
<1>3. CallsTypeOK'
  BY <1>1, <1>2 DEF Inv, CallsTypeOK
<1>4. BeliefIsClose'
  BY DEF Inv, BeliefIsClose
<1>5. \A d \in Call \ {c} : /\ pc'[d] = pc[d] /\ posted'[d] = posted[d] /\ served'[d] = served[d]
  BY DEF Inv, CallsTypeOK
<1>6. pc'[c] = "sent" /\ ~cached[c] /\ verdict[c] = "none"
  BY DEF Inv, CallsTypeOK, NotYet
<1>7. \A d \in Call : ReplyFits(d)' /\ ServedAlive(d)' /\ NotYet(d)'
  BY <1>5, <1>6 DEF Inv, ReplyFits, ServedAlive, NotYet
<1> QED
  BY <1>2, <1>3, <1>4, <1>7 DEF Inv

LEMMA ReceiveInv == ASSUME Inv, NEW c \in Call, Receive(c) PROVE Inv'
<1> USE CallsAssumption DEF Receive, Store, KeepLoop, Goto, clock, cache
<1> DEFINE a == AccountOf(kind[c])
<1>1. /\ a \in Account /\ reply[c].token \in Nat /\ reply[c].expiresIn \in Nat
      /\ posted[c] \in Nat
  BY DEF AccountOf, Account, Inv, CallsTypeOK
<1>2. now + reply[c].expiresIn <= reply[c].token + Timeout + held
  BY <1>1 DEF InTime, Inv, CallsTypeOK, BatchIsRecent, ReplyFits
<1>3. CallsTypeOK'
  BY <1>1 DEF Inv, CallsTypeOK, NoReply
<1>4. BeliefIsClose'
  BY <1>1, <1>2 DEF Inv, CallsTypeOK, BeliefIsClose
<1>5. \A d \in Call \ {c} : /\ pc'[d] = pc[d] /\ posted'[d] = posted[d] /\ served'[d] = served[d]
                            /\ reply'[d] = reply[d]
  BY DEF Inv, CallsTypeOK
<1>6. pc'[c] = "fetched" /\ ~cached[c] /\ verdict[c] = "none"
  BY DEF Inv, CallsTypeOK, NotYet
<1>7. BatchIsRecent'
  BY <1>5 DEF Inv, CallsTypeOK, BatchIsRecent
<1>8. \A d \in Call : ReplyFits(d)' /\ ServedAlive(d)' /\ NotYet(d)'
  BY <1>5, <1>6 DEF Inv, ReplyFits, ServedAlive, NotYet
<1> QED
  BY <1>3, <1>4, <1>7, <1>8 DEF Inv

LEMMA ReceiveHalfInv == ASSUME Inv, NEW c \in Call, ReceiveHalf(c) PROVE Inv'
<1> USE CallsAssumption DEF ReceiveHalf, End, KeepLoop, Goto, clock, NoReply
<1>1. reply[c].token \in Nat
  BY DEF Inv, CallsTypeOK
<1>2. CallsTypeOK'
  BY <1>1 DEF Inv, CallsTypeOK, Account, Over, Ended
<1>3. BeliefIsClose'
  BY DEF Inv, CallsTypeOK, Account, BeliefIsClose
<1>4. \A d \in Call \ {c} : /\ pc'[d] = pc[d] /\ posted'[d] = posted[d] /\ served'[d] = served[d]
                            /\ reply'[d] = reply[d] /\ cached'[d] = cached[d]
                            /\ verdict'[d] = verdict[d]
  BY DEF Inv, CallsTypeOK
<1>5. pc'[c] = "failed" /\ ~cached'[c] /\ verdict'[c] = "none"
  BY DEF Inv, CallsTypeOK
<1>6. BatchIsRecent'
  BY <1>4 DEF Inv, CallsTypeOK, BatchIsRecent
<1>7. \A d \in Call : ReplyFits(d)' /\ ServedAlive(d)' /\ NotYet(d)'
  BY <1>4, <1>5 DEF Inv, ReplyFits, ServedAlive, NotYet
<1> QED
  BY <1>2, <1>3, <1>6, <1>7 DEF Inv

LEMMA TokenAnsweredInv ==
    ASSUME Inv, NEW c \in Call, NEW life \in 1 .. Lifetime, NEW expiresIn \in {life, Untold},
           TokenAnswered(c, life, expiresIn)
    PROVE  Inv'
<1> USE CallsAssumption DEF TokenAnswered, Goto, clock, cache, Untold
<1>1. CallsTypeOK' /\ BeliefIsClose'
  BY DEF Inv, CallsTypeOK, BeliefIsClose
<1>2. /\ pc[c] = "asking" /\ pc'[c] = "answered"
      /\ reply'[c] = [token |-> now + life, expiresIn |-> expiresIn]
      /\ \A d \in Call \ {c} : reply'[d] = reply[d] /\ pc'[d] = pc[d]
  BY DEF Inv, CallsTypeOK
<1>3. BatchIsRecent'
  BY <1>2 DEF Inv, CallsTypeOK, BatchIsRecent
<1>4. \A d \in Call : ReplyFits(d)'
  BY <1>2 DEF Inv, CallsTypeOK, ReplyFits
<1>5. \A d \in Call : ServedAlive(d)' /\ NotYet(d)'
  BY <1>2 DEF Inv, ServedAlive, NotYet
<1> QED
  BY <1>1, <1>3, <1>4, <1>5 DEF Inv

LEMMA AskTokenInv == ASSUME Inv, NEW c \in Call, AskToken(c) PROVE Inv'
<1> USE CallsAssumption DEF AskToken, Goto, clock, cache
<1>1. CallsTypeOK' /\ BeliefIsClose'
  BY DEF Inv, CallsTypeOK, BeliefIsClose
<1>2. /\ pc[c] \in Over /\ pc'[c] = "asking" /\ posted'[c] = now
      /\ \A d \in Call \ {c} : posted'[d] = posted[d] /\ pc'[d] = pc[d]
  BY DEF Inv, CallsTypeOK
<1>3. BatchIsRecent'
  BY <1>2 DEF Inv, CallsTypeOK, BatchIsRecent, Over, Ended
<1>4. \A d \in Call : ReplyFits(d)' /\ ServedAlive(d)' /\ NotYet(d)'
  BY <1>2 DEF Inv, CallsTypeOK, ReplyFits, ServedAlive, NotYet, Over, Ended
<1> QED
  BY <1>1, <1>3, <1>4 DEF Inv

LEMMA JudgeInv ==
    ASSUME Inv, NEW c \in Call, NEW v \in {"pass", "error"}, Judge(c, v) PROVE Inv'
<1> USE CallsAssumption DEF Judge, Goto, clock, cache
<1>1. CallsTypeOK' /\ BeliefIsClose'
  BY DEF Inv, CallsTypeOK, BeliefIsClose
<1>2. /\ pc[c] = "sent" /\ pc'[c] = "judged"
      /\ ~cached'[c]
      /\ \A d \in Call \ {c} : /\ verdict'[d] = verdict[d] /\ pc'[d] = pc[d]
                              /\ served'[d] = served[d] /\ cached'[d] = cached[d]
  BY DEF Inv, CallsTypeOK
<1>3. BatchIsRecent'
  BY <1>2 DEF Inv, CallsTypeOK, BatchIsRecent
<1>4. \A d \in Call : ReplyFits(d)' /\ ServedAlive(d)' /\ NotYet(d)'
  BY <1>2 DEF Inv, ReplyFits, ServedAlive, NotYet
<1> QED
  BY <1>1, <1>3, <1>4 DEF Inv

LEMMA TickInv == ASSUME Inv, Tick PROVE Inv'
<1> USE CallsAssumption DEF Tick, cache, locals
<1>1. CallsTypeOK' /\ BeliefIsClose'
  BY DEF Inv, CallsTypeOK, BeliefIsClose
<1>2. BatchIsRecent'
  BY DEF Inv, CallsTypeOK, BatchIsRecent
<1>3. \A d \in Call : ReplyFits(d)' /\ ServedAlive(d)' /\ NotYet(d)'
  BY DEF Inv, CallsTypeOK, ReplyFits, ServedAlive, NotYet
<1> QED
  BY <1>1, <1>2, <1>3 DEF Inv

LEMMA InvStep == ASSUME Inv, [Next]_vars PROVE Inv'
<1>1. CASE UNCHANGED vars
  BY <1>1 DEF vars, Inv, CallsTypeOK, BeliefIsClose, BatchIsRecent, ReplyFits, ServedAlive, NotYet
<1>2. CASE Tick
  BY <1>2, TickInv
<1>3. ASSUME NEW c \in Call, Step(c) PROVE Inv'
  <2>1. CASE Receive(c)
    BY <2>1, ReceiveInv
  <2>2. CASE Send(c)
    BY <2>2, SendInv
  <2>3. CASE Finish(c)
    <3>1. blocked' \in Call \cup {NoCall} /\ Outcome(c) \in Ended
      BY <2>3 DEF Finish, Inv, CallsTypeOK, Outcome, Ended
    <3> QED
      BY <2>3, <3>1, EndInv DEF Finish
  <2>4. CASE GiveUp(c)
    BY <2>4, EndInv DEF GiveUp, KeepLoop, Inv, CallsTypeOK, Ended
  <2>5. CASE Break(c)
    BY <2>5, EndInv DEF Break, Ended
  <2>6. ASSUME NEW v \in {"pass", "error"}, Judge(c, v) PROVE Inv'
    BY <2>6, JudgeInv
  <2>7. CASE Refuse(c)
    BY <2>7 DEF Refuse, Goto, clock, cache, locals, Inv, CallsTypeOK, BeliefIsClose,
       BatchIsRecent, ReplyFits, ServedAlive, NotYet, Over, Ended
  <2>8. ASSUME NEW life \in 1 .. Lifetime, NEW expiresIn \in {life, Untold},
               TokenAnswered(c, life, expiresIn)
        PROVE  Inv'
    BY <2>8, TokenAnsweredInv
  <2>9. CASE ReceiveHalf(c)
    BY <2>9, ReceiveHalfInv
  <2>10. CASE ServeCached(c) \/ AskToken(c)
    BY <2>10, ServeCachedInv, AskTokenInv
  <2> QED
    BY <1>3, <2>1, <2>2, <2>3, <2>4, <2>5, <2>6, <2>7, <2>8, <2>9, <2>10 DEF Step, Turn, Verdict
<1> QED
  BY <1>1, <1>2, <1>3 DEF Next

(* Type correctness.                                                       *)
THEOREM WechatCallsTypeOK == Spec => []CallsTypeOK
<1>1. Inv => CallsTypeOK
  BY DEF Inv
<1> QED
  BY InitInv, InvStep, <1>1, PTL DEF Spec

(* expires_at, unless it is a guess, is never later than the real expiry   *)
(* by more than Timeout and the time the loop was held.                    *)
THEOREM WechatCallsBelief == Spec => []BeliefIsClose
<1>1. Inv => BeliefIsClose
  BY DEF Inv
<1> QED
  BY InitInv, InvStep, <1>1, PTL DEF Spec

(* A token from the cache is refused only when its request was slow or the *)
(* loop was held.                                                          *)
THEOREM WechatCallsRefused == Spec => RefusedOnlyWhenSlow
<1> DEFINE Slow == \A c \in Call : cached[c] /\ verdict[c] = "none" /\ verdict'[c] = "expired"
                      => now + held + Timeout > posted[c] + Margin
<1>1. ASSUME Inv, [Next]_vars PROVE [Slow]_vars
  <2> SUFFICES ASSUME Next, NEW c \in Call, cached[c], verdict[c] = "none",
                      verdict'[c] = "expired"
               PROVE  now + held + Timeout > posted[c] + Margin
    BY <1>1
  <2> USE DEF Inv, CallsTypeOK
  <2>0. PICK d \in Call : Step(d)
    BY <1>1 DEF Next, Tick, locals
  <2>1. \E v \in {"pass", "error"} : Judge(d, v)
    BY <1>1, <2>0 DEF Step, Turn, Verdict, ServeCached, AskToken, Refuse, TokenAnswered, Receive,
       ReceiveHalf, Send, Finish, GiveUp, Break, End, locals
  <2>2. d = c /\ pc[c] = "sent" /\ now >= served[c]
    BY <1>1, <2>1 DEF Judge
  <2> QED
    BY <1>1, <2>2, CallsAssumption DEF ServedAlive
<1> QED
  BY InitInv, InvStep, <1>1, PTL DEF Spec, RefusedOnlyWhenSlow
=============================================================================
