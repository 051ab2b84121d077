--------------------------- MODULE MessageProofs ---------------------------
(***************************************************************************)
(* Proofs about the messages to WeChat and to enterprise WeChat.           *)
(*                                                                         *)
(* TemplateMessage, for any calls, messages and times.  The argument: the  *)
(* key of a message outlives every SETEX of it by Ttl, and expires Ttl     *)
(* after one of them, so what EXISTS answers is exactly whether somebody   *)
(* marked the message less than Ttl ago.                                   *)
(*                                                                         *)
(* WxworkMessage, for any texts, corp ids, random strings and nonces.  The *)
(* argument: taking off what Pad added gives back what was packed, and its *)
(* parts are found where the lengths say, if the length that was packed is *)
(* that of the text; if it is less, what is taken for the corp id is too   *)
(* long to be one.                                                         *)
(***************************************************************************)
EXTENDS TemplateMessage, WxworkMessage, FiniteSetTheorems, SequenceTheorems, TLAPS

-----------------------------------------------------------------------------
(* TemplateMessage                                                         *)

\* what a call has done so far
Fits(c) ==
    /\ marked[c] # Never => marked[c] <= now /\ message[c] \in Message
    /\ pc[c] \in {"idle", "exists", "setex"} => marked[c] = Never
    /\ pc[c] = "idle" => earlier[c] = {}
    /\ pc[c] = "exists" => earlier[c] = {}
    /\ pc[c] # "idle" => message[c] \in Message
    /\ \A d \in earlier[c] : marked[d] # Never

\* what the key of a message says of the calls that marked it
KeyOutlives == \A c \in Call : marked[c] # Never => key[message[c]] >= marked[c] + Ttl

KeyHasMarker == \A m \in Message : key[m] # 0 =>
    \E c \in Call : marked[c] # Never /\ message[c] = m /\ key[m] = marked[c] + Ttl

Spaced(c) == pc[c] = "setex" \/ marked[c] # Never =>
    \A d \in earlier[c] : looked[c] >= marked[d] + Ttl

Justified(c) == pc[c] = "duplicate" =>
    \E d \in earlier[c] :
        /\ message[d] = message[c]
        /\ marked[d] <= looked[c] /\ looked[c] < marked[d] + Ttl

Inv ==
    /\ TypeOK
    /\ \A c \in Call : Fits(c) /\ Spaced(c) /\ Justified(c)
    /\ KeyOutlives
    /\ KeyHasMarker

LEMMA InitInv == Init => Inv
  BY MessageAssumption
     DEF Init, Inv, TypeOK, Label, Never, Fits, Spaced, Justified, KeyOutlives, KeyHasMarker

(* A step that neither looks nor marks changes nothing that matters.       *)
LEMMA QuietStep ==
    ASSUME Inv, TypeOK', NEW c \in Call,
           now <= now', UNCHANGED <<key, message, looked, marked, earlier>>,
           \A d \in Call \ {c} : pc'[d] = pc[d],
           pc'[c] = pc[c] \/ (pc[c] # "idle" /\ pc'[c] \in {"token", "post", "sent", "failed"})
    PROVE  Inv'
<1> USE MessageAssumption DEF Inv, TypeOK, Never
<1>1. \A d \in Call : Fits(d)' /\ Spaced(d)' /\ Justified(d)'
  <2> TAKE d \in Call
  <2>1. Fits(d)'
    BY DEF Fits
  <2>2. Spaced(d)' /\ Justified(d)'
    BY DEF Fits, Spaced, Justified
  <2> QED
    BY <2>1, <2>2
<1>2. KeyOutlives' /\ KeyHasMarker'
  BY DEF KeyOutlives, KeyHasMarker
<1> QED
  BY <1>1, <1>2

LEMMA StartStep ==
    ASSUME Inv, NEW c \in Call, NEW m \in Message, Start(c, m) PROVE Inv'
<1> USE MessageAssumption DEF Start, Goto, Inv, TypeOK, Never
<1>1. TypeOK'
  BY DEF Label
<1>2. marked[c] = Never /\ \A d \in Call : c \notin earlier[d]
  BY DEF Fits
<1>3. \A d \in Call : Fits(d)' /\ Spaced(d)' /\ Justified(d)'
  <2> TAKE d \in Call
  <2>1. Fits(d)'
    BY <1>2 DEF Fits
  <2>2. Spaced(d)'
    BY <1>2 DEF Fits, Spaced
  <2>3. Justified(d)'
    BY <1>2 DEF Fits, Justified
  <2> QED
    BY <2>1, <2>2, <2>3
<1>4. KeyOutlives' /\ KeyHasMarker'
  BY <1>2 DEF KeyOutlives, KeyHasMarker
<1> QED
  BY <1>1, <1>3, <1>4

LEMMA ExistsStep == ASSUME Inv, NEW c \in Call, Exists(c) PROVE Inv'
<1> USE MessageAssumption DEF Exists, Goto, Inv, TypeOK, Never
<1> DEFINE m == message[c]
<1>0. m \in Message /\ marked[c] = Never
  BY DEF Fits
<1>1. TypeOK'
  BY DEF Label
<1>2. KeyOutlives' /\ KeyHasMarker'
  BY DEF KeyOutlives, KeyHasMarker
<1>3. earlier'[c] = {d \in Call : marked[d] # Never /\ message[d] = m} /\ looked'[c] = now
  OBVIOUS
<1>4. Fits(c)'
  BY <1>0, <1>3 DEF Fits
<1>5. CASE Marked(m)
  <2>1. PICK d \in Call : marked[d] # Never /\ message[d] = m /\ key[m] = marked[d] + Ttl
    BY <1>0, <1>5 DEF Marked, KeyHasMarker
  <2>2. d \in earlier'[c] /\ marked[d] <= now /\ now < marked[d] + Ttl
    BY <1>3, <1>5, <2>1 DEF Marked, Fits
  <2>3. Spaced(c)' /\ Justified(c)'
    BY <1>0, <1>3, <1>5, <2>1, <2>2 DEF Spaced, Justified
  <2> QED
    BY <1>1, <1>2, <1>4, <2>3 DEF Fits, Spaced, Justified
<1>6. CASE ~Marked(m)
  <2>1. \A d \in earlier'[c] : now >= marked[d] + Ttl
    BY <1>0, <1>3, <1>6 DEF Marked, KeyOutlives
  <2>2. Spaced(c)' /\ Justified(c)'
    BY <1>3, <1>6, <2>1 DEF Spaced, Justified
  <2> QED
    BY <1>1, <1>2, <1>4, <2>2 DEF Fits, Spaced, Justified
<1> QED
  BY <1>5, <1>6

LEMMA SetexStep == ASSUME Inv, NEW c \in Call, Setex(c) PROVE Inv'
<1> USE MessageAssumption DEF Setex, Goto, Inv, TypeOK, Never
<1> DEFINE m == message[c]
<1>0. m \in Message /\ marked[c] = Never /\ \A d \in Call : c \notin earlier[d]
  BY DEF Fits
<1>1. TypeOK'
  BY <1>0 DEF Label
<1>2. key'[m] = now + Ttl /\ marked'[c] = now /\ now # Horizon + 1
  BY <1>0
<1>3. KeyOutlives'
  <2>1. ASSUME NEW d \in Call, marked'[d] # Horizon + 1
        PROVE  key'[message[d]] >= marked'[d] + Ttl
    <3>1. CASE d = c
      BY <1>2, <3>1
    <3>2. CASE d # c
      <4>1. marked'[d] = marked[d] /\ marked[d] <= now /\ message[d] \in Message
        BY <2>1, <3>2 DEF Fits
      <4>2. CASE message[d] = m
        BY <1>2, <4>1, <4>2
      <4>3. CASE message[d] # m
        BY <2>1, <4>1, <4>3 DEF KeyOutlives
      <4> QED
        BY <4>2, <4>3
    <3> QED
      BY <3>1, <3>2
  <2> QED
    BY <2>1 DEF KeyOutlives
<1>4. KeyHasMarker'
  <2>1. ASSUME NEW n \in Message, key'[n] # 0
        PROVE  \E d \in Call : marked'[d] # Horizon + 1 /\ message[d] = n /\ key'[n] = marked'[d] + Ttl
    <3>1. CASE n = m
      BY <1>2, <3>1
    <3>2. CASE n # m
      BY <1>0, <2>1, <3>2 DEF KeyHasMarker
    <3> QED
      BY <3>1, <3>2
  <2> QED
    BY <2>1 DEF KeyHasMarker
<1>5. \A d \in Call : Fits(d)' /\ Spaced(d)' /\ Justified(d)'
  <2> TAKE d \in Call
  <2>0. \A e \in earlier[d] : marked'[e] = marked[e]
    BY <1>0
  <2>1. Fits(d)'
    BY <1>0, <1>2, <2>0 DEF Fits
  <2>2. Spaced(d)'
    BY <1>0, <2>0 DEF Spaced
  <2>3. Justified(d)'
    BY <1>0, <2>0 DEF Justified
  <2> QED
    BY <2>1, <2>2, <2>3
<1> QED
  BY <1>1, <1>3, <1>4, <1>5

LEMMA InvStep == ASSUME Inv, [Next]_vars PROVE Inv'
<1>1. CASE UNCHANGED vars
  BY <1>1 DEF vars, Inv, TypeOK, Fits, Spaced, Justified, KeyOutlives, KeyHasMarker, Never
<1>2. CASE Tick
  <2>1. TypeOK'
    BY <1>2, MessageAssumption DEF Tick, Inv, TypeOK
  <2>2. \A c \in Call : Fits(c)' /\ Spaced(c)' /\ Justified(c)'
    BY <1>2, MessageAssumption DEF Tick, Inv, TypeOK, Fits, Spaced, Justified, Never
  <2>3. KeyOutlives' /\ KeyHasMarker'
    BY <1>2 DEF Tick, Inv, KeyOutlives, KeyHasMarker, Never
  <2> QED
    BY <2>1, <2>2, <2>3 DEF Inv
<1>3. ASSUME NEW c \in Call, RedisFails(c) \/ GetToken(c) \/ Post(c) \/ Fail(c) PROVE Inv'
  <2> USE <1>3 DEF RedisFails, GetToken, Post, Fail, Goto
  <2>1. TypeOK'
    BY MessageAssumption DEF Inv, TypeOK, Label, Never
  <2>2. /\ now <= now' /\ UNCHANGED <<key, message, looked, marked, earlier>>
        /\ \A d \in Call \ {c} : pc'[d] = pc[d]
        /\ pc[c] # "idle" /\ pc'[c] \in {"token", "post", "sent", "failed"}
    BY MessageAssumption DEF Inv, TypeOK
  <2> QED
    BY <2>1, <2>2, QuietStep
<1> QED
  BY <1>1, <1>2, <1>3, StartStep, ExistsStep, SetexStep DEF Next, Step

(* Type correctness.                                                       *)
THEOREM MessageTypeOK == Spec => []TypeOK
<1>1. Inv => TypeOK
  BY DEF Inv
<1> QED
  BY InitInv, InvStep, <1>1, PTL DEF Spec

(* A skipped message was marked less than Ttl before, by a call that went  *)
(* on to send it.                                                          *)
THEOREM MessageSkipJustified == Spec => []SkipJustified
<1>1. Inv => SkipJustified
  BY DEF Inv, Justified, SkipJustified
<1> QED
  BY InitInv, InvStep, <1>1, PTL DEF Spec

(* Only calls that raced between EXISTS and SETEX, or met a Redis failure, *)
(* go ahead with one message less than Ttl apart.                          *)
THEOREM MessageSpacedUnlessRaced == Spec => []SpacedUnlessRaced
<1>1. Inv => SpacedUnlessRaced
  BY DEF Inv, Spaced, SpacedUnlessRaced
<1> QED
  BY InitInv, InvStep, <1>1, PTL DEF Spec

-----------------------------------------------------------------------------
(* WxworkMessage: bytes.                                                   *)

\* A str has at most as many characters as bytes.
LEMMA CharactersBound ==
    ASSUME NEW s \in Seq(Byte) PROVE Characters(s) \in 0 .. Len(s)
<1> DEFINE Starts == {i \in DOMAIN s : ~Continues(s[i])}
<1>1. Len(s) \in Nat /\ DOMAIN s = 1 .. Len(s)
  BY LenProperties
<1>2. IsFiniteSet(1 .. Len(s)) /\ Cardinality(1 .. Len(s)) = Len(s)
  BY <1>1, FS_Interval
<1>3. Starts \in SUBSET (1 .. Len(s))
  BY <1>1
<1>4. IsFiniteSet(Starts) /\ Cardinality(Starts) <= Len(s)
  BY <1>2, <1>3, FS_Subset
<1>5. Cardinality(Starts) \in Nat
  BY <1>4, FS_CardinalityType
<1> QED
  BY <1>1, <1>4, <1>5 DEF Characters

LEMMA LengthIsPacked ==
    ASSUME NEW n \in Nat, Packable(n)
    PROVE  /\ PackLength(n) \in Seq(Byte)
           /\ Len(PackLength(n)) = 4
           /\ UnpackLength(PackLength(n)) = n
<1> DEFINE a == (n \div 16777216) % 256
           b == (n \div 65536) % 256
           c == (n \div 256) % 256
           d == n % 256
<1>1. a \in Byte /\ b \in Byte /\ c \in Byte /\ d \in Byte
  BY DEF Byte
<1>2. a * 16777216 + b * 65536 + c * 256 + d = n
  BY DEF Packable
<1>3. PackLength(n) = <<a, b, c, d>>
  BY DEF PackLength
<1> HIDE DEF a, b, c, d
<1> QED
  BY <1>1, <1>2, <1>3 DEF UnpackLength

LEMMA ConcatBytes ==
    \A s, t \in Seq(Byte) :
        /\ s \o t \in Seq(Byte) /\ Len(s \o t) = Len(s) + Len(t)
        /\ \A u \in Seq(Byte) : (s \o t) \o u = s \o (t \o u)
  BY ConcatProperties, ConcatAssociative

\* The slices at the seam of two strings.
LEMMA SlicesOfConcat ==
    ASSUME NEW s \in Seq(Byte), NEW t \in Seq(Byte)
    PROVE  UpTo(s \o t, Len(s)) = s /\ From(s \o t, Len(s)) = t
<1>1. /\ Len(s) \in Nat /\ Len(t) \in Nat
      /\ s \o t \in Seq(Byte) /\ Len(s \o t) = Len(s) + Len(t)
  BY LenProperties, ConcatProperties
<1>2. \A i \in 1 .. Len(s) + Len(t) : (s \o t)[i] = IF i <= Len(s) THEN s[i] ELSE t[i - Len(s)]
  BY ConcatProperties
<1>3. \A i \in 1 .. Len(s) + Len(t) : (s \o t)[i] \in Byte
  BY <1>1, ElementOfSeq
<1>4. UpTo(s \o t, Len(s)) = s
  <2>1. UpTo(s \o t, Len(s)) = SubSeq(s \o t, 1, Len(s))
    BY <1>1 DEF UpTo
  <2> DEFINE u == SubSeq(s \o t, 1, Len(s))
  <2>2. u \in Seq(Byte) /\ Len(u) = Len(s) /\ \A i \in 1 .. Len(s) : u[i] = (s \o t)[i]
    BY <1>1, <1>3, SubSeqProperties
  <2>3. \A i \in 1 .. Len(u) : u[i] = s[i]
    BY <1>1, <1>2, <2>2
  <2> HIDE DEF u
  <2>4. u = s
    BY <2>2, <2>3, SeqEqual
  <2> QED
    BY <2>1, <2>4 DEF u
<1>5. From(s \o t, Len(s)) = t
  <2>1. From(s \o t, Len(s)) = SubSeq(s \o t, Len(s) + 1, Len(s) + Len(t))
    BY <1>1 DEF From
  <2> DEFINE u == SubSeq(s \o t, Len(s) + 1, Len(s) + Len(t))
  <2>2. /\ u \in Seq(Byte) /\ Len(u) = Len(t)
        /\ \A i \in 1 .. Len(t) : u[i] = (s \o t)[Len(s) + i]
    BY <1>1, <1>3, SubSeqProperties
  <2>3. \A i \in 1 .. Len(u) : u[i] = t[i]
    BY <1>1, <1>2, <2>2
  <2> HIDE DEF u
  <2>4. u = t
    BY <2>2, <2>3, SeqEqual
  <2> QED
    BY <2>1, <2>4 DEF u
<1> QED
  BY <1>4, <1>5

LEMMA LengthOfSlice ==
    ASSUME NEW s \in Seq(Byte), NEW n \in 0 .. Len(s)
    PROVE  Len(From(s, n)) = Len(s) - n
<1>1. Len(s) \in Nat
  BY LenProperties
<1>2. \A i \in n + 1 .. Len(s) : s[i] \in Byte
  BY <1>1, ElementOfSeq
<1> QED
  BY <1>1, <1>2, SubSeqProperties DEF From

\* What Pad adds, Unpad takes off.
LEMMA PadAndUnpad ==
    ASSUME NEW s \in Seq(Byte), s # <<>>
    PROVE  /\ Len(Pad(s)) \in Len(s) + 1 .. Len(s) + BlockSize
           /\ Len(Pad(s)) % BlockSize = 0
           /\ Unpad(Pad(s)) = s
<1> DEFINE amount == BlockSize - (Len(s) % BlockSize)
           added == [i \in 1 .. amount |-> amount]
<1>1. Len(s) \in Nat /\ Len(s) > 0
  BY EmptySeq
<1>2. amount \in 1 .. BlockSize /\ (Len(s) + amount) % BlockSize = 0
  <2>1. ASSUME NEW n \in Nat
        PROVE  32 - (n % 32) \in 1 .. 32 /\ (n + (32 - (n % 32))) % 32 = 0
    OBVIOUS
  <2> QED
    BY <1>1, <2>1 DEF BlockSize
<1>3. amount \in Nat /\ amount \in Byte
  BY <1>2 DEF BlockSize, Byte
<1> HIDE DEF amount
<1>4. added \in Seq(Byte) /\ Len(added) = amount /\ \A i \in 1 .. amount : added[i] = amount
  BY <1>3
<1> HIDE DEF added
<1>5. Pad(s) = s \o added
  BY DEF Pad, amount, added
<1>6. /\ Len(Pad(s)) = Len(s) + amount
      /\ \A i \in 1 .. Len(s) + amount : Pad(s)[i] = IF i <= Len(s) THEN s[i] ELSE added[i - Len(s)]
  <2>1. /\ Len(s \o added) = Len(s) + Len(added)
        /\ \A i \in 1 .. Len(s) + Len(added) :
              (s \o added)[i] = IF i <= Len(s) THEN s[i] ELSE added[i - Len(s)]
    BY <1>4, ConcatProperties
  <2> QED
    BY <1>4, <1>5, <2>1
<1>7. Pad(s)[Len(Pad(s))] = amount
  BY <1>1, <1>2, <1>3, <1>4, <1>6
<1>8. Unpad(Pad(s)) = UpTo(Pad(s), Len(s))
  BY <1>1, <1>2, <1>3, <1>6, <1>7 DEF Unpad
<1>9. UpTo(Pad(s), Len(s)) = s
  BY <1>4, <1>5, SlicesOfConcat
<1> QED
  BY <1>1, <1>2, <1>3, <1>6, <1>8, <1>9 DEF BlockSize

-----------------------------------------------------------------------------
(* WxworkMessage: what is packed, and what is made of it.                  *)

\* What was said to be the length, and whose corp id was packed.
Length == IF sender = "eva" THEN Characters(text) ELSE Len(text)
Corp == IF sender = "stranger" THEN OtherCorp ELSE CorpId

FormatInv ==
    /\ stage \in {"idle", "sent", "garbled", "read"}
    /\ packet = [encrypt |-> packet.encrypt, nonce |-> packet.nonce, signature |-> packet.signature]
    /\ stage = "sent" => Untouched
    /\ stage # "idle" =>
          /\ text \in Text /\ sender \in {"eva", "wxwork", "stranger"}
          /\ \E random \in Random : packet.encrypt = Pad(Raw(random, Length, text, Corp))
    /\ stage = "read" =>
          result = IF Untouched THEN Decrypt(packet.encrypt) ELSE Error("-40001")

LEMMA RandomIsBytes ==
    ASSUME NEW random \in Random PROVE random \in Seq(Byte) /\ Len(random) = 16
<1>1. random \in [1 .. 16 -> Byte]
  BY FormatAssumption DEF RandomLength
<1>2. random \in Seq(Byte)
  <2>1. [1 .. 16 -> Byte] \in {[1 .. n -> Byte] : n \in Nat}
    OBVIOUS
  <2>2. random \in UNION {[1 .. n -> Byte] : n \in Nat}
    BY <1>1, <2>1, Zenon
  <2> QED
    BY <2>2, SeqDef, Zenon
<1>3. DOMAIN random = 1 .. 16 /\ DOMAIN random = 1 .. Len(random) /\ Len(random) \in Nat
  BY <1>1, <1>2, LenProperties
<1> QED
  BY <1>2, <1>3

\* The parts of a packed message, as the reader cuts them.
LEMMA RawParts ==
    ASSUME NEW random \in Random, NEW t \in Seq(Byte), NEW corp \in Seq(Byte),
           NEW n \in Nat, Packable(n)
    PROVE  LET content == PackLength(n) \o t \o corp
           IN  /\ Raw(random, n, t, corp) \in Seq(Byte)
               /\ Len(Raw(random, n, t, corp)) = 20 + Len(t) + Len(corp)
               /\ From(Raw(random, n, t, corp), RandomLength) = content
               /\ content \in Seq(Byte)
               /\ Len(content) = 4 + Len(t) + Len(corp)
               /\ UpTo(content, 4) = PackLength(n)
               /\ From(content, Len(t) + 4) = corp
               /\ From(UpTo(content, Len(t) + 4), 4) = t
<1> DEFINE p == PackLength(n)
<1>1. random \in Seq(Byte) /\ Len(random) = 16
  BY RandomIsBytes
<1>2. p \in Seq(Byte) /\ Len(p) = 4
  BY LengthIsPacked
<1> HIDE DEF p
<1>3. Len(t) \in Nat /\ Len(corp) \in Nat
  BY LenProperties
<1>4. /\ p \o t \in Seq(Byte) /\ Len(p \o t) = Len(t) + 4
      /\ t \o corp \in Seq(Byte)
  <2>1. p \o t \in Seq(Byte) /\ Len(p \o t) = Len(p) + Len(t) /\ t \o corp \in Seq(Byte)
    BY <1>2, ConcatBytes, Zenon
  <2> QED
    BY <1>2, <1>3, <2>1
<1> DEFINE content == (p \o t) \o corp
<1>5. content \in Seq(Byte) /\ Len(content) = 4 + Len(t) + Len(corp)
  <2>1. content \in Seq(Byte) /\ Len(content) = Len(p \o t) + Len(corp)
    BY <1>4, ConcatBytes, Zenon
  <2> QED
    BY <1>3, <1>4, <2>1
<1>6. content = p \o (t \o corp)
  BY <1>2, ConcatBytes
<1>7. Raw(random, n, t, corp) = random \o content
  <2>1. Raw(random, n, t, corp) = ((random \o p) \o t) \o corp
    BY DEF Raw, p
  <2>2. random \o p \in Seq(Byte) /\ (random \o p) \o t = random \o (p \o t)
    BY <1>1, <1>2, ConcatBytes
  <2>3. (random \o (p \o t)) \o corp = random \o ((p \o t) \o corp)
    BY <1>1, <1>4, ConcatBytes
  <2> QED
    BY <2>1, <2>2, <2>3
<1>8. UpTo(content, 4) = p
  BY <1>2, <1>4, <1>6, SlicesOfConcat
<1>9. From(content, Len(t) + 4) = corp /\ UpTo(content, Len(t) + 4) = p \o t
  BY <1>4, SlicesOfConcat
<1>10. From(p \o t, 4) = t
  BY <1>2, SlicesOfConcat
<1> HIDE DEF content
<1>11. /\ Raw(random, n, t, corp) \in Seq(Byte)
       /\ Len(Raw(random, n, t, corp)) = 20 + Len(t) + Len(corp)
  <2>1. random \o content \in Seq(Byte) /\ Len(random \o content) = Len(random) + Len(content)
    BY <1>1, <1>5, ConcatBytes, Zenon
  <2> QED
    BY <1>1, <1>3, <1>5, <1>7, <2>1
<1>12. From(Raw(random, n, t, corp), RandomLength) = content
  BY <1>1, <1>5, <1>7, SlicesOfConcat DEF RandomLength
<1> QED
  BY <1>5, <1>8, <1>9, <1>10, <1>11, <1>12 DEF content, p

\* A length that is no longer than the text is read back, or the packet is refused.
LEMMA DecryptPacked ==
    ASSUME NEW random \in Random, NEW t \in Text, NEW corp \in {CorpId, OtherCorp},
           NEW n \in 0 .. Len(t), n = Len(t) \/ corp = CorpId
    PROVE  LET read == Decrypt(Pad(Raw(random, n, t, corp)))
           IN  /\ read.code = "0" => n = Len(t) /\ corp = CorpId /\ read.content = t
               /\ n = Len(t) /\ corp = CorpId => read.code = "0"
<1> DEFINE content == PackLength(n) \o t \o corp
           found == From(content, n + 4)
<1>1. /\ t \in Seq(Byte) /\ corp \in Seq(Byte) /\ CorpId \in Seq(Byte)
      /\ Packable(Len(t))
      /\ CorpId # OtherCorp /\ Decodable(CorpId)
  BY FormatAssumption
<1>2. Len(t) \in Nat /\ Len(corp) \in Nat /\ n \in Nat
  BY <1>1, LenProperties
<1>3. Packable(n)
  BY <1>1, <1>2, SMT DEF Packable
<1>4. /\ Raw(random, n, t, corp) \in Seq(Byte)
      /\ Len(Raw(random, n, t, corp)) = 20 + Len(t) + Len(corp)
      /\ From(Raw(random, n, t, corp), RandomLength) = content
      /\ content \in Seq(Byte)
      /\ Len(content) = 4 + Len(t) + Len(corp)
      /\ UpTo(content, 4) = PackLength(n)
      /\ From(content, Len(t) + 4) = corp
      /\ From(UpTo(content, Len(t) + 4), 4) = t
  BY <1>1, <1>2, <1>3, RawParts
<1>5. Unpad(Pad(Raw(random, n, t, corp))) = Raw(random, n, t, corp)
  <2>1. Raw(random, n, t, corp) # <<>>
    BY <1>2, <1>4, EmptySeq
  <2> QED
    BY <1>4, <2>1, PadAndUnpad
<1>6. UnpackLength(PackLength(n)) = n
  BY <1>2, <1>3, LengthIsPacked
<1> HIDE DEF content
<1>7. ~(Len(content) < 4)
  BY <1>2, <1>4
<1>8. Decrypt(Pad(Raw(random, n, t, corp))) =
        IF ~Decodable(found) THEN Error("-40002")
        ELSE IF found # CorpId THEN Error("-40005")
        ELSE [code |-> "0", content |-> From(UpTo(content, n + 4), 4)]
  BY <1>4, <1>5, <1>6, <1>7 DEF Decrypt
<1>9. n < Len(t) /\ corp = CorpId => found # CorpId
  <2> SUFFICES ASSUME n < Len(t), corp = CorpId PROVE Len(found) # Len(CorpId)
    OBVIOUS
  <2>1. n + 4 \in 0 .. Len(content)
    BY <1>2, <1>4
  <2>2. Len(found) = Len(content) - (n + 4)
    BY <1>4, <2>1, LengthOfSlice
  <2> QED
    BY <1>2, <1>4, <2>2
<1>10. n = Len(t) => found = corp
  BY <1>4
<1> HIDE DEF found
<1> QED
  BY <1>1, <1>2, <1>4, <1>8, <1>9, <1>10 DEF Error

-----------------------------------------------------------------------------
(* WxworkMessage: the invariant.                                           *)

LEMMA FormatInitInv == FormatInit => FormatInv
  BY DEF FormatInit, FormatInv, NoPacket

\* A message that was just packed.
LEMMA SentStep ==
    ASSUME stage' = "sent", text' \in Text, sender' \in {"eva", "wxwork", "stranger"},
           NEW nonce, NEW random \in Random,
           packet' = Sent(nonce, Pad(Raw(random, Length', text', Corp')))
    PROVE  FormatInv'
<1> DEFINE encrypt == Pad(Raw(random, Length', text', Corp'))
<1>1. packet' = [encrypt |-> encrypt, nonce |-> nonce, signature |-> Signature(nonce, encrypt)]
  BY DEF Sent
<1>2. packet'.encrypt = encrypt
  BY <1>1
<1>3. \E r \in Random : packet'.encrypt = Pad(Raw(r, Length', text', Corp'))
  BY <1>2
<1> HIDE DEF encrypt
<1>4. Untouched'
  BY <1>1 DEF Untouched
<1>5. packet' = [encrypt |-> packet'.encrypt, nonce |-> packet'.nonce, signature |-> packet'.signature]
  BY <1>1
<1> QED
  BY <1>3, <1>4, <1>5 DEF FormatInv

LEMMA PackStep ==
    ASSUME FormatInv, NEW t \in Text, NEW nonce \in Nonce, NEW corp \in {CorpId, OtherCorp},
           EncryptMsg(t, nonce) \/ WxworkEncrypts(t, nonce, corp)
    PROVE  FormatInv'
<1>1. CASE EncryptMsg(t, nonce)
  <2>1. Length' = Characters(t) /\ Corp' = CorpId
    BY <1>1 DEF EncryptMsg, Length, Corp
  <2> QED
    BY <1>1, <2>1, SentStep DEF EncryptMsg
<1>2. CASE WxworkEncrypts(t, nonce, corp)
  <2>1. Length' = Len(t) /\ Corp' = corp
    BY <1>2, FormatAssumption DEF WxworkEncrypts, Length, Corp
  <2> QED
    BY <1>2, <2>1, SentStep DEF WxworkEncrypts
<1> QED
  BY <1>1, <1>2

LEMMA GarbleStep == ASSUME FormatInv, NEW nonce \in Nonce, Garble(nonce) PROVE FormatInv'
<1>1. /\ stage = "sent" /\ stage' = "garbled" /\ text' = text /\ sender' = sender
      /\ packet' = [packet EXCEPT !.nonce = nonce]
  BY DEF Garble
<1>2. packet' = [encrypt |-> packet.encrypt, nonce |-> nonce, signature |-> packet.signature]
  BY <1>1 DEF FormatInv
<1>3. packet'.encrypt = packet.encrypt
  BY <1>2
<1>4. Length' = Length /\ Corp' = Corp
  BY <1>1 DEF Length, Corp
<1>5. packet' = [encrypt |-> packet'.encrypt, nonce |-> packet'.nonce, signature |-> packet'.signature]
  BY <1>2
<1> QED
  BY <1>1, <1>3, <1>4, <1>5 DEF FormatInv

LEMMA ReadStep == ASSUME FormatInv, Read PROVE FormatInv'
<1>1. Untouched' = Untouched /\ Length' = Length /\ Corp' = Corp
  BY DEF Read, Untouched, Length, Corp
<1> QED
  BY <1>1 DEF Read, FormatInv

LEMMA FormatInvStep == ASSUME FormatInv, [FormatNext]_formatVars PROVE FormatInv'
<1>1. CASE UNCHANGED formatVars
  <2>1. Untouched' = Untouched /\ Length' = Length /\ Corp' = Corp
    BY <1>1 DEF formatVars, Untouched, Length, Corp
  <2> QED
    BY <1>1, <2>1 DEF formatVars, FormatInv
<1>2. CASE FormatNext
  BY <1>2, PackStep, GarbleStep, ReadStep DEF FormatNext, DecryptMsg, VerifyURL
<1> QED
  BY <1>1, <1>2

\* What the invariant says of the text, in numbers.
LEMMA LengthBound ==
    ASSUME FormatInv, stage # "idle"
    PROVE  /\ text \in Text /\ text \in Seq(Byte) /\ Length \in 0 .. Len(text)
           /\ Corp \in {CorpId, OtherCorp} /\ Corp \in Seq(Byte)
           /\ Corp = CorpId <=> sender # "stranger"
           /\ Length = Len(text) \/ Corp = CorpId
<1>1. text \in Text /\ text \in Seq(Byte) /\ sender \in {"eva", "wxwork", "stranger"}
  BY FormatAssumption DEF FormatInv
<1>2. Len(text) \in Nat /\ Characters(text) \in 0 .. Len(text)
  BY <1>1, LenProperties, CharactersBound
<1> QED
  BY <1>1, <1>2, FormatAssumption DEF Length, Corp

(* What is read is what was packed; what cannot be read right is refused.  *)
THEOREM FormatReadBack == FormatSpec => []ReadBack
<1>1. ASSUME FormatInv PROVE ReadBack
  <2> SUFFICES ASSUME stage = "read"
               PROVE  /\ result.code = "0" =>
                            Untouched /\ sender # "stranger" /\ result.content = text
                      /\ Untouched /\ (sender = "wxwork"
                                       \/ (sender = "eva" /\ Characters(text) = Len(text)))
                            => result.code = "0"
    BY DEF ReadBack
  <2>1. result = IF Untouched THEN Decrypt(packet.encrypt) ELSE Error("-40001")
    BY <1>1 DEF FormatInv
  <2>2. PICK random \in Random : packet.encrypt = Pad(Raw(random, Length, text, Corp))
    BY <1>1 DEF FormatInv
  <2>3. CASE ~Untouched
    BY <2>1, <2>3 DEF Error
  <2>4. CASE Untouched
    <3>1. result = Decrypt(Pad(Raw(random, Length, text, Corp)))
      BY <2>1, <2>2, <2>4
    <3>2. /\ result.code = "0" =>
                Length = Len(text) /\ Corp = CorpId /\ result.content = text
          /\ Length = Len(text) /\ Corp = CorpId => result.code = "0"
      BY <1>1, <3>1, LengthBound, DecryptPacked
    <3>3. sender = "wxwork" \/ (sender = "eva" /\ Characters(text) = Len(text))
             => Length = Len(text) /\ Corp = CorpId
      BY DEF Length, Corp
    <3> QED
      BY <1>1, <2>4, <3>2, <3>3, LengthBound
  <2> QED
    BY <2>3, <2>4
<1> QED
  BY FormatInitInv, FormatInvStep, <1>1, PTL DEF FormatSpec

(* Padding ends at the next block boundary, and comes off again.           *)
THEOREM FormatPaddingIsLeast == FormatSpec => []PaddingIsLeast
<1>1. ASSUME FormatInv PROVE PaddingIsLeast
  <2> DEFINE n == RandomLength + 4 + Len(text) + Len(Corp)
  <2> SUFFICES ASSUME stage # "idle"
               PROVE  /\ Len(packet.encrypt) \in n + 1 .. n + BlockSize
                      /\ Len(packet.encrypt) % BlockSize = 0
                      /\ Len(Unpad(packet.encrypt)) = n
    BY DEF PaddingIsLeast, Corp
  <2>1. PICK random \in Random : packet.encrypt = Pad(Raw(random, Length, text, Corp))
    BY <1>1 DEF FormatInv
  <2> DEFINE raw == Raw(random, Length, text, Corp)
  <2>2. /\ text \in Text /\ text \in Seq(Byte) /\ Corp \in Seq(Byte)
        /\ Length \in 0 .. Len(text) /\ Len(text) \in Nat /\ Len(Corp) \in Nat
    BY <1>1, LengthBound, LenProperties
  <2>3. Length \in Nat /\ Packable(Length)
    BY <2>2, FormatAssumption, SMT DEF Packable
  <2>4. raw \in Seq(Byte) /\ Len(raw) = 20 + Len(text) + Len(Corp)
    BY <2>2, <2>3, RawParts
  <2>5. Len(raw) = n /\ raw # <<>>
    BY <2>2, <2>4, EmptySeq DEF RandomLength
  <2> HIDE DEF raw, n
  <2>6. /\ Len(Pad(raw)) \in Len(raw) + 1 .. Len(raw) + BlockSize
        /\ Len(Pad(raw)) % BlockSize = 0
        /\ Unpad(Pad(raw)) = raw
    BY <2>4, <2>5, PadAndUnpad
  <2>7. packet.encrypt = Pad(raw)
    BY <2>1 DEF raw
  <2> QED
    BY <2>5, <2>6, <2>7
<1> QED
  BY FormatInitInv, FormatInvStep, <1>1, PTL DEF FormatSpec
=============================================================================
