---------------------------- MODULE WechatCalls ----------------------------
(***************************************************************************)
(* The calls services/weixin.py makes to WeChat with an access_token, the  *)
(* two token caches behind them (get_access_token for the service account, *)
(* _get_miniprogram_access_token for the mini program: the same code over  *)
(* two pairs of class variables) and the event loop they all run on.       *)
(*                                                                         *)
(* A call takes the cached token or POSTs to stable_token for a new one;   *)
(* replies come back in any order and each overwrites the cache.  It then  *)
(* posts its own request with that token.  aiohttp requests wait without   *)
(* holding the loop and are given up after Timeout.  requests.post has no  *)
(* timeout and holds the loop until WeChat answers: meanwhile no other     *)
(* coroutine runs, though the clock and WeChat go on.                      *)
(*                                                                         *)
(* A token is named by the moment WeChat really expires it; the program    *)
(* never learns that moment: it adds expires_in to the time at which it    *)
(* READS the reply.  Time is in whole units of one clock.                  *)
(***************************************************************************)
EXTENDS Naturals

CONSTANTS
    Call,      \* coroutines that call WeChat
    Job,       \* what each of them may call WeChat for, again and again
    NoCall,    \* nobody holds the loop
    Margin,    \* the 300 s the cache gives up before expires_at
    Timeout,   \* total timeout of aiohttp, 300 s by default
    Lifetime,  \* the longest expires_in WeChat grants, and the default of the mini program: 7200 s
    Horizon    \* TLC only: when the clock stops

Kind == {"phone", "content", "qrcode", "message", "click"}

ASSUME CallsAssumption ==
    /\ NoCall \notin Call
    /\ Job \in [Call -> SUBSET Kind]
    /\ Margin \in Nat /\ Timeout \in Nat /\ Lifetime \in Nat /\ Horizon \in Nat

Account == {"mini", "service"}

\* The calls made with requests.post / requests.get inside a coroutine.
Blocking == {"qrcode", "message"}
AccountOf(k) == IF k \in {"phone", "content"} THEN "mini" ELSE "service"

VARIABLES
    now,        \* time.time()
    token,      \* _service_access_token, _miniprogram_access_token: 0 is None
    expiresAt,  \* _service_token_expires_at, _miniprogram_token_expires_at
    guessed,    \* history: expires_at is not what WeChat said of the token in the cache
    pc,         \* where each call is
    kind,       \* what each coroutine calls WeChat for
    posted,     \* when the call posted the request it waits for
    reply,      \* what stable_token answered: the token, and expires_in
    served,     \* the token the call works with
    cached,     \* whether that token came from the cache, with an expires_at not guessed
    verdict,    \* what WeChat answered to the call itself
    blocked,    \* the call whose requests.post holds the loop
    batch,      \* calls woken by their answer before the loop was taken from them
    held        \* how long the loop has been held so far

vars == <<now, token, expiresAt, guessed, pc, kind, posted, reply, served, cached, verdict,
          blocked, batch, held>>
cache == <<token, expiresAt, guessed>>
locals == <<kind, posted, reply, served, cached, verdict>>
clock == <<now, held>>

NoReply == [token |-> 0, expiresIn |-> 0]
Untold == 0  \* the expires_in of a reply that has none
Ended == {"worked", "failed"}
Over == {"idle"} \cup Ended

CallsTypeOK ==
    /\ now \in Nat /\ held \in Nat
    /\ token \in [Account -> Nat] /\ expiresAt \in [Account -> Nat]
    /\ guessed \in [Account -> BOOLEAN]
    /\ pc \in [Call -> {"asking", "answered", "fetched", "sent", "judged"} \cup Over]
    /\ kind \in [Call -> Kind]
    /\ posted \in [Call -> Nat]
    /\ reply \in [Call -> [token : Nat, expiresIn : Nat]]
    /\ served \in [Call -> Nat]
    /\ cached \in [Call -> BOOLEAN]
    /\ verdict \in [Call -> {"none", "expired", "pass", "error"}]
    /\ blocked \in Call \cup {NoCall}
    /\ batch \in SUBSET Call

Init ==
    /\ now = 0 /\ held = 0
    /\ token = [a \in Account |-> 0] /\ expiresAt = [a \in Account |-> 0]
    /\ guessed = [a \in Account |-> FALSE]
    /\ pc = [c \in Call |-> "idle"]
    /\ kind \in [Call -> Kind] /\ \A c \in Call : kind[c] \in Job[c]
    /\ posted = [c \in Call |-> 0]
    /\ reply = [c \in Call |-> NoReply]
    /\ served = [c \in Call |-> 0]
    /\ cached = [c \in Call |-> FALSE]
    /\ verdict = [c \in Call |-> "none"]
    /\ blocked = NoCall
    /\ batch = {}

Goto(c, label) == pc' = [pc EXCEPT ![c] = label]

\* The coroutine returns, or raises: its locals are gone.
End(c, label) ==
    /\ Goto(c, label)
    /\ posted' = [posted EXCEPT ![c] = 0]
    /\ reply' = [reply EXCEPT ![c] = NoReply]
    /\ served' = [served EXCEPT ![c] = 0]
    /\ cached' = [cached EXCEPT ![c] = FALSE]
    /\ verdict' = [verdict EXCEPT ![c] = "none"]
    /\ UNCHANGED kind

-----------------------------------------------------------------------------
(* The event loop.                                                         *)

LoopFree == blocked = NoCall

(* A request that waits too long is cancelled, except when the answer had  *)
(* woken its coroutine in the very turn in which another one took the      *)
(* loop: it resumes after that one, before any timer is looked at.         *)
InTime(c) == now <= posted[c] + Timeout \/ c \in batch

Woken(c) == {d \in Call \ {c} : pc[d] \in {"answered", "judged"} /\ InTime(d)}

\* c goes on: it is not in the batch any more, and it may take the loop.
KeepLoop(c) == batch' = batch \ {c} /\ UNCHANGED blocked
TakeLoop(c) ==
    /\ blocked' = c
    /\ \E more \in SUBSET Woken(c) : batch' = (batch \ {c}) \cup more

\* c posts its own request with token t, without an await in between.
SendWith(c, t) ==
    /\ posted' = [posted EXCEPT ![c] = now]
    /\ served' = [served EXCEPT ![c] = t]
    /\ IF kind[c] \in Blocking THEN TakeLoop(c) ELSE KeepLoop(c)
    /\ Goto(c, "sent")

-----------------------------------------------------------------------------
(* The token.                                                              *)

\* Mutant: the cached token is good until expires_at.
CacheValidToTheEnd(a) == token[a] # 0 /\ now < expiresAt[a]

CacheValid(a) == token[a] # 0 /\ now + Margin < expiresAt[a]

ServeCached(c) ==
    LET a == AccountOf(kind[c]) IN
    /\ pc[c] \in Over /\ LoopFree
    /\ CacheValid(a)
    /\ cached' = [cached EXCEPT ![c] = ~guessed[a]]
    /\ SendWith(c, token[a])
    /\ UNCHANGED <<clock, cache, kind, reply, verdict>>

AskToken(c) ==
    /\ pc[c] \in Over /\ LoopFree
    /\ ~CacheValid(AccountOf(kind[c]))
    /\ posted' = [posted EXCEPT ![c] = now]
    /\ Goto(c, "asking")
    /\ UNCHANGED <<clock, cache, kind, reply, served, cached, verdict, blocked, batch>>

(* stable_token without force_refresh: WeChat answers with a token, at any *)
(* moment of its life, and as a rule with the rest of it.                  *)
TokenAnswered(c, life, expiresIn) ==
    /\ pc[c] = "asking"
    /\ reply' = [reply EXCEPT ![c] = [token |-> now + life, expiresIn |-> expiresIn]]
    /\ Goto(c, "answered")
    /\ UNCHANGED <<clock, cache, kind, posted, served, cached, verdict, blocked, batch>>

\* Mutant: the margin and the timeout are taken off when the reply is stored.
StoreLess(c) ==
    LET a == AccountOf(kind[c]) IN
    /\ token' = [token EXCEPT ![a] = reply[c].token]
    /\ expiresAt' = [expiresAt EXCEPT ![a] = now + reply[c].expiresIn - Margin - Timeout]
    /\ guessed' = [guessed EXCEPT ![a] = FALSE]

\* Only the mini program has a default for expires_in.
Store(c) ==
    LET a == AccountOf(kind[c])
        expiresIn == reply[c].expiresIn
    IN  /\ expiresIn = Untold => a = "mini"
        /\ token' = [token EXCEPT ![a] = reply[c].token]
        /\ expiresAt' = [expiresAt EXCEPT ![a] =
               now + (IF expiresIn = Untold THEN Lifetime ELSE expiresIn)]
        /\ guessed' = [guessed EXCEPT ![a] = expiresIn = Untold]

(* The reply is read; both class variables are set without an await in     *)
(* between.  Closing the session then lets the loop turn once.             *)
Receive(c) ==
    /\ pc[c] = "answered" /\ LoopFree /\ InTime(c)
    /\ Store(c)
    /\ served' = [served EXCEPT ![c] = reply[c].token]
    /\ reply' = [reply EXCEPT ![c] = NoReply]
    /\ posted' = [posted EXCEPT ![c] = 0]
    /\ KeepLoop(c)
    /\ Goto(c, "fetched")
    /\ UNCHANGED <<clock, kind, cached, verdict>>

(* The service account has none: data["expires_in"] raises after the token *)
(* has been stored, which is left with the expires_at of the one before.   *)
ReceiveHalf(c) ==
    /\ pc[c] = "answered" /\ LoopFree /\ InTime(c)
    /\ reply[c].expiresIn = Untold
    /\ AccountOf(kind[c]) = "service"
    /\ token' = [token EXCEPT !["service"] = reply[c].token]
    /\ guessed' = [guessed EXCEPT !["service"] = TRUE]
    /\ End(c, "failed")
    /\ KeepLoop(c)
    /\ UNCHANGED <<clock, expiresAt>>

Send(c) ==
    /\ pc[c] = "fetched" /\ LoopFree
    /\ SendWith(c, served[c])
    /\ UNCHANGED <<clock, cache, kind, reply, cached, verdict>>

-----------------------------------------------------------------------------
(* The call itself.                                                        *)

\* The request reaches WeChat, which refuses an expired token; nobody looks at it again.
Judge(c, v) ==
    /\ pc[c] = "sent"
    /\ verdict' = [verdict EXCEPT ![c] = IF now >= served[c] THEN "expired" ELSE v]
    /\ served' = [served EXCEPT ![c] = 0]
    /\ cached' = [cached EXCEPT ![c] = FALSE]
    /\ Goto(c, "judged")
    /\ UNCHANGED <<clock, cache, kind, posted, reply, blocked, batch>>

(* "pass": errcode 0, with the ticket of a QR code, with suggest = pass    *)
(* for a text.  The answer to a click is not even read.  A call that       *)
(* failed raises, or returns an errcode; messages and clicks log the       *)
(* failure and go on.                                                      *)
Outcome(c) ==
    IF kind[c] # "click" /\ verdict[c] = "pass" THEN "worked" ELSE "failed"

Finish(c) ==
    /\ pc[c] = "judged"
    /\ \/ blocked = c /\ blocked' = NoCall
       \/ LoopFree /\ InTime(c) /\ UNCHANGED blocked
    /\ batch' = batch \ {c}
    /\ End(c, Outcome(c))
    /\ UNCHANGED <<clock, cache>>

\* Mutant: a request that failed is sent again, for ever.
GiveUpAndRetry(c) ==
    /\ pc[c] \in {"asking", "answered", "sent", "judged"} /\ LoopFree
    /\ Goto(c, "asking")
    /\ posted' = [posted EXCEPT ![c] = now]
    /\ KeepLoop(c)
    /\ UNCHANGED <<clock, cache, kind, reply, served, cached, verdict>>

(* An aiohttp request breaks, is answered without what it asked for, or is *)
(* given up after its time.                                                *)
GiveUp(c) ==
    /\ pc[c] \in {"asking", "answered", "sent", "judged"} /\ LoopFree
    /\ End(c, "failed")
    /\ KeepLoop(c)
    /\ UNCHANGED <<clock, cache>>

\* requests.post raises: the connection broke, and only then.
Break(c) ==
    /\ pc[c] \in {"sent", "judged"} /\ blocked = c
    /\ End(c, "failed")
    /\ blocked' = NoCall /\ batch' = batch \ {c}
    /\ UNCHANGED <<clock, cache>>

(* Given up before any token is asked for: the app_id of the phone number  *)
(* is unknown, no openid is known for the text to check, the scene of the  *)
(* QR code is longer than 64 characters.                                   *)
Refuse(c) ==
    /\ pc[c] \in Over /\ LoopFree
    /\ kind[c] \in {"phone", "content", "qrcode"}
    /\ Goto(c, "failed")
    /\ UNCHANGED <<clock, cache, locals, blocked, batch>>

(* Woken coroutines run in one turn of the loop: no time passes between    *)
(* them, unless one of them holds the loop.                                *)
Tick ==
    /\ now < Horizon
    /\ LoopFree => batch = {}
    /\ now' = now + 1
    /\ held' = IF LoopFree THEN held ELSE held + 1
    /\ UNCHANGED <<cache, locals, pc, blocked, batch>>

\* What the coroutine of the call does when its turn comes.
Turn(c) == Receive(c) \/ ReceiveHalf(c) \/ Send(c) \/ Finish(c) \/ GiveUp(c)

Verdict(c) == \E v \in {"pass", "error"} : Judge(c, v)

Step(c) ==
    \/ ServeCached(c) \/ AskToken(c) \/ Refuse(c)
    \/ Turn(c) \/ Verdict(c) \/ Break(c)
    \/ \E life \in 1 .. Lifetime : \E expiresIn \in {life, Untold} : TokenAnswered(c, life, expiresIn)

Next == Tick \/ \E c \in Call : Step(c)

Spec == Init /\ [][Next]_vars

(* The loop serves its coroutines in order, so one that can go on whenever *)
(* the loop is free does (aiohttp's timeout makes sure that it can), and   *)
(* WeChat answers a request in the end: the code itself waits for ever.    *)
Fairness == \A c \in Call : SF_vars(Turn(c)) /\ WF_vars(Verdict(c))

FairSpec == Spec /\ Fairness

-----------------------------------------------------------------------------
(* What the program believes of the expiry of a token it holds is late by  *)
(* at most the time a reply may take and the time the loop was held, if    *)
(* WeChat said when the token expires.                                     *)
BeliefIsClose == \A a \in Account : ~guessed[a] => expiresAt[a] <= token[a] + Timeout + held

(* WeChat refuses a token from the cache as expired only when the request  *)
(* was long on its way or the loop has been held, together longer than the *)
(* margin leaves - however many refreshes overlapped, and whatever order   *)
(* their replies were read in - or when WeChat had not said how long it    *)
(* lives.  (Nothing drops the refused token from the cache.)               *)
RefusedOnlyWhenSlow ==
    [][\A c \in Call : cached[c] /\ verdict[c] = "none" /\ verdict'[c] = "expired"
          => now + held + Timeout > posted[c] + Margin]_vars

(* Every call ends, whoever holds the loop in between.                     *)
CallsEnd == \A c \in Call : pc[c] \notin Over ~> pc[c] \in Ended
=============================================================================
