-------------------------- MODULE TemplateMessage --------------------------
(***************************************************************************)
(* send_template_message of services/weixin.py: a message is hashed, the   *)
(* hash is looked up and then set in Redis for 60 seconds, and the message *)
(* goes to WeChat with a service access token.  Each of these is an await, *)
(* or a blocking HTTP request, that other calls and time can come between. *)
(***************************************************************************)
EXTENDS Naturals

CONSTANTS
    Call,     \* calls of send_template_message
    Message,  \* recipient, template and data: what the hash is made of
    NoMessage,
    Ttl,      \* the 60 s of the Redis key
    Horizon   \* TLC only: when the clock stops

ASSUME MessageAssumption == NoMessage \notin Message /\ Ttl \in Nat \ {0} /\ Horizon \in Nat

VARIABLES
    now,
    key,      \* Redis: when the key of a message expires, 0 when never set
    pc,       \* where each call is, and what it returned
    message,  \* what the call sends
    looked,   \* when the call ran EXISTS
    marked,   \* when the call ran SETEX, Horizon + 1 when it did not
    earlier   \* the calls that had run SETEX when this one ran EXISTS

vars == <<now, key, pc, message, looked, marked, earlier>>

Never == Horizon + 1

Label == {"idle", "exists", "setex", "token", "post", "sent", "duplicate", "failed"}

TypeOK ==
    /\ now \in 0 .. Horizon
    /\ key \in [Message -> 0 .. Horizon + Ttl]
    /\ pc \in [Call -> Label]
    /\ message \in [Call -> Message \cup {NoMessage}]
    /\ looked \in [Call -> 0 .. Never]
    /\ marked \in [Call -> 0 .. Never]
    /\ earlier \in [Call -> SUBSET Call]

Init ==
    /\ now = 0
    /\ key = [m \in Message |-> 0]
    /\ pc = [c \in Call |-> "idle"]
    /\ message = [c \in Call |-> NoMessage]
    /\ looked = [c \in Call |-> Never]
    /\ marked = [c \in Call |-> Never]
    /\ earlier = [c \in Call |-> {}]

Goto(c, label) == pc' = [pc EXCEPT ![c] = label]

Start(c, m) ==
    /\ pc[c] = "idle"
    /\ message' = [message EXCEPT ![c] = m]
    /\ Goto(c, "exists")
    /\ UNCHANGED <<now, key, looked, marked, earlier>>

-----------------------------------------------------------------------------
(* _check_duplicate_message                                                *)

Marked(m) == now < key[m]

\* Mutant: the key of another message counts too.
ExistsAny(c) ==
    /\ pc[c] = "exists"
    /\ looked' = [looked EXCEPT ![c] = now]
    /\ earlier' = [earlier EXCEPT ![c] = {d \in Call : marked[d] # Never /\ message[d] = message[c]}]
    /\ Goto(c, IF \E m \in Message : Marked(m) THEN "duplicate" ELSE "setex")
    /\ UNCHANGED <<now, key, message, marked>>

Exists(c) ==
    /\ pc[c] = "exists"
    /\ looked' = [looked EXCEPT ![c] = now]
    /\ earlier' = [earlier EXCEPT ![c] = {d \in Call : marked[d] # Never /\ message[d] = message[c]}]
    /\ Goto(c, IF Marked(message[c]) THEN "duplicate" ELSE "setex")
    /\ UNCHANGED <<now, key, message, marked>>

\* Mutant: the key expires one unit too early.
SetexTooShort(c) ==
    /\ pc[c] = "setex"
    /\ key' = [key EXCEPT ![message[c]] = now + Ttl - 1]
    /\ marked' = [marked EXCEPT ![c] = now]
    /\ Goto(c, "token")
    /\ UNCHANGED <<now, message, looked, earlier>>

\* Mutant: the time to live is added to a key that is there.
SetexExtends(c) ==
    /\ pc[c] = "setex"
    /\ key' = [key EXCEPT ![message[c]] = @ + now + Ttl]
    /\ marked' = [marked EXCEPT ![c] = now]
    /\ Goto(c, "token")
    /\ UNCHANGED <<now, message, looked, earlier>>

(* SETEX is executed; whether its answer arrives or not, the call goes on. *)
Setex(c) ==
    /\ pc[c] = "setex"
    /\ key' = [key EXCEPT ![message[c]] = now + Ttl]
    /\ marked' = [marked EXCEPT ![c] = now]
    /\ Goto(c, "token")
    /\ UNCHANGED <<now, message, looked, earlier>>

(* Redis does not execute the command, or the answer of EXISTS is lost: the*)
(* call goes on as if the message were new.                                *)
RedisFails(c) ==
    /\ pc[c] \in {"exists", "setex"}
    /\ Goto(c, "token")
    /\ UNCHANGED <<now, key, message, looked, marked, earlier>>

-----------------------------------------------------------------------------
(* The rest of send_template_message                                       *)

GetToken(c) ==
    /\ pc[c] = "token"
    /\ Goto(c, "post")
    /\ UNCHANGED <<now, key, message, looked, marked, earlier>>

(* WeChat takes the message; the answer may still be lost on its way.      *)
Post(c) ==
    /\ pc[c] = "post"
    /\ \E label \in {"sent", "failed"} : Goto(c, label)
    /\ UNCHANGED <<now, key, message, looked, marked, earlier>>

(* No token, no connection, or an errcode: the call returns False.  The    *)
(* key stays.                                                              *)
Fail(c) ==
    /\ pc[c] \in {"token", "post"}
    /\ Goto(c, "failed")
    /\ UNCHANGED <<now, key, message, looked, marked, earlier>>

Tick ==
    /\ now < Horizon
    /\ now' = now + 1
    /\ UNCHANGED <<key, pc, message, looked, marked, earlier>>

Step(c) ==
    \/ \E m \in Message : Start(c, m)
    \/ Exists(c) \/ Setex(c) \/ RedisFails(c) \/ GetToken(c) \/ Post(c) \/ Fail(c)

Next == Tick \/ \E c \in Call : Step(c)

Spec == Init /\ [][Next]_vars

-----------------------------------------------------------------------------
(* A message is only skipped for a call that went ahead with the same      *)
(* message less than Ttl before.                                           *)
SkipJustified == \A c \in Call : pc[c] = "duplicate" =>
    \E d \in earlier[c] :
        /\ message[d] = message[c]
        /\ marked[d] <= looked[c] /\ looked[c] < marked[d] + Ttl

(* Two calls that both went ahead with a message either looked before the  *)
(* other had marked it - the race EXISTS and SETEX leave open - or are Ttl *)
(* apart, or lost the answer of Redis.                                     *)
SpacedUnlessRaced == \A c \in Call : marked[c] # Never =>
    \A d \in earlier[c] : looked[c] >= marked[d] + Ttl
=============================================================================
