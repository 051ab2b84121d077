--------------------------- MODULE WxworkMessage ---------------------------
(***************************************************************************)
(* The message format of core/wxwork_crypto.py (WXBizMsgCrypt): EncryptMsg *)
(* packs a reply for enterprise WeChat, DecryptMsg and VerifyURL read what *)
(* enterprise WeChat packed.  Both sides use the same layout:              *)
(*                                                                         *)
(*   16 random bytes, the length in 4 bytes, the text, the corp id, padding *)
(*                                                                         *)
(* A byte is a number, and a str the sequence of its UTF-8 bytes: to       *)
(* encode it changes nothing, and its len() is another than the number of  *)
(* its bytes.  AES and base64 are undone by the other side and change no   *)
(* byte, so a packet holds the padded bytes themselves; a signature holds  *)
(* what was signed.                                                        *)
(***************************************************************************)
EXTENDS Naturals, Sequences, FiniteSets

CONSTANTS
    Text,       \* strs that are sent
    CorpId,     \* the corp id of this program
    OtherCorp,  \* the corp id of somebody else
    Random,     \* what _get_random_str returns
    Nonce       \* nonces

RandomLength == 16
BlockSize == 32
Byte == 0 .. 255

-----------------------------------------------------------------------------
(* Bytes.                                                                  *)

\* Whether bytes.decode("utf-8") returns: a slice of a str may lack some bytes of
\* its first or last character, and has no other fault.
Continues(b) == b \in 128 .. 191
Width(b) == IF b < 128 THEN 1 ELSE IF b < 224 THEN 2 ELSE IF b < 240 THEN 3 ELSE 4
Decodable(s) ==
    \A i \in DOMAIN s :
        \/ /\ Continues(s[i])
           /\ \E k \in 1 .. 3 : i > k /\ ~Continues(s[i - k]) /\ Width(s[i - k]) > k
        \/ /\ ~Continues(s[i])
           /\ i + Width(s[i]) - 1 <= Len(s)
           /\ \A j \in i + 1 .. i + Width(s[i]) - 1 : Continues(s[j])

\* len(str): one character begins at every byte that continues none.
Characters(s) == Cardinality({i \in DOMAIN s : ~Continues(s[i])})

\* struct.pack("!I", n), for an n that four bytes can hold, and struct.unpack("!I", s)
Packable(n) == n \div 16777216 < 256
PackLength(n) == <<(n \div 16777216) % 256, (n \div 65536) % 256, (n \div 256) % 256, n % 256>>
UnpackLength(s) == s[1] * 16777216 + s[2] * 65536 + s[3] * 256 + s[4]

\* Python's s[n:], s[:n] for n >= 0.
From(s, n) == SubSeq(s, n + 1, Len(s))
UpTo(s, n) == SubSeq(s, 1, IF n < Len(s) THEN n ELSE Len(s))

\* Mutant: nothing is added to what already fills its blocks.
PadToFill(s) ==
    LET amount == (BlockSize - (Len(s) % BlockSize)) % BlockSize
    IN  s \o [i \in 1 .. amount |-> amount]

Pad(s) ==
    LET amount == BlockSize - (Len(s) % BlockSize)
    IN  s \o [i \in 1 .. amount |-> amount]

\* s[:-pad], which is empty for a pad of 0
Unpad(s) ==
    LET pad == s[Len(s)]
    IN  IF pad = 0 \/ pad >= Len(s) THEN <<>> ELSE UpTo(s, Len(s) - pad)

-----------------------------------------------------------------------------
(* Strs have the bytes that UTF-8 gives them, and no more than struct.pack *)
(* can count in four bytes.                                                *)
ASSUME FormatAssumption ==
    /\ \A s \in Text \cup {CorpId, OtherCorp} :
          s \in Seq(Byte) /\ Decodable(s) /\ Packable(Len(s))
    /\ CorpId # OtherCorp
    /\ Random \subseteq [1 .. RandomLength -> Byte]

VARIABLES
    stage,   \* where the exchange is
    sender,  \* who packed the message
    text,    \* the text that was packed
    packet,  \* what travels: encrypt, nonce and signature
    result   \* what the reader returned: a code and the text

formatVars == <<stage, sender, text, packet, result>>

Nobody == "nobody"
NoPacket == [encrypt |-> <<>>, nonce |-> "", signature |-> <<>>]
NoResult == [code |-> "none", content |-> <<>>]

FormatInit ==
    /\ stage = "idle"
    /\ sender = Nobody
    /\ text = <<>>
    /\ packet = NoPacket
    /\ result = NoResult

-----------------------------------------------------------------------------
(* Packing.                                                                *)

Raw(random, length, t, corp) == random \o PackLength(length) \o t \o corp

(* _generate_signature sorts what it signs, so it tells a nonce from a     *)
(* timestamp only by its value; the token is that of this program.         *)
Signature(nonce, encrypt) == <<nonce, encrypt>>

Sent(nonce, encrypt) ==
    [encrypt |-> encrypt, nonce |-> nonce, signature |-> Signature(nonce, encrypt)]

\* The program packs a reply: the length is that of the str, in characters.
EncryptMsg(t, nonce) ==
    /\ stage = "idle"
    /\ \E random \in Random :
          packet' = Sent(nonce, Pad(Raw(random, Characters(t), t, CorpId)))
    /\ sender' = "eva"
    /\ text' = t
    /\ stage' = "sent"
    /\ UNCHANGED result

\* Enterprise WeChat packs a message, or the echostr of a URL check.
WxworkEncrypts(t, nonce, corp) ==
    /\ stage = "idle"
    /\ \E random \in Random :
          packet' = Sent(nonce, Pad(Raw(random, Len(t), t, corp)))
    /\ sender' = IF corp = CorpId THEN "wxwork" ELSE "stranger"
    /\ text' = t
    /\ stage' = "sent"
    /\ UNCHANGED result

\* The packet arrives with another nonce than the one it was signed with.
Garble(nonce) ==
    /\ stage = "sent"
    /\ nonce # packet.nonce
    /\ packet' = [packet EXCEPT !.nonce = nonce]
    /\ stage' = "garbled"
    /\ UNCHANGED <<sender, text, result>>

-----------------------------------------------------------------------------
(* Reading.                                                                *)

Error(code) == [code |-> code, content |-> <<>>]

\* Mutant: the corp id is looked for one byte early.
DecryptEarly(encrypt) ==
    LET content == From(Unpad(encrypt), RandomLength)
        length == UnpackLength(UpTo(content, 4))
        corp == From(content, length + 3)
    IN  IF Len(content) < 4 \/ ~Decodable(corp) THEN Error("-40002")
        ELSE IF corp # CorpId THEN Error("-40005")
        ELSE [code |-> "0", content |-> From(UpTo(content, length + 4), 4)]

Decrypt(encrypt) ==
    LET content == From(Unpad(encrypt), RandomLength)
        length == UnpackLength(UpTo(content, 4))
        corp == From(content, length + 4)
    IN  IF Len(content) < 4 \/ ~Decodable(corp) THEN Error("-40002")
        ELSE IF corp # CorpId THEN Error("-40005")
        ELSE [code |-> "0", content |-> From(UpTo(content, length + 4), 4)]

Untouched == packet.signature = Signature(packet.nonce, packet.encrypt)

Read ==
    /\ stage \in {"sent", "garbled"}
    /\ result' = IF Untouched THEN Decrypt(packet.encrypt) ELSE Error("-40001")
    /\ stage' = "read"
    /\ UNCHANGED <<sender, text, packet>>

\* The message of a webhook, or the reply as its reader takes it apart.
DecryptMsg == Read

\* The echostr of a URL check, which only enterprise WeChat sends.
VerifyURL == sender # "eva" /\ Read

FormatNext ==
    \/ \E t \in Text, nonce \in Nonce :
          \/ EncryptMsg(t, nonce)
          \/ \E corp \in {CorpId, OtherCorp} : WxworkEncrypts(t, nonce, corp)
    \/ \E nonce \in Nonce : Garble(nonce)
    \/ DecryptMsg \/ VerifyURL

FormatSpec == FormatInit /\ [][FormatNext]_formatVars

-----------------------------------------------------------------------------
(* What is read is what was packed, never the text of a garbled packet or  *)
(* of another corp.  All that enterprise WeChat packs for this corp is     *)
(* read.  Of the replies only those whose characters take one byte each    *)
(* are sure to be: the others carry too short a length, and are refused    *)
(* rather than misread.                                                    *)
ReadBack ==
    stage = "read" =>
        /\ result.code = "0" => Untouched /\ sender # "stranger" /\ result.content = text
        /\ Untouched /\ (sender = "wxwork" \/ (sender = "eva" /\ Characters(text) = Len(text)))
              => result.code = "0"

(* The padding fills the packet up to the next block boundary, to the one  *)
(* after it when it is there already, and taking it off gives back what    *)
(* was packed.                                                             *)
PaddingIsLeast ==
    stage # "idle" =>
        LET n == RandomLength + 4 + Len(text)
                 + Len(IF sender = "stranger" THEN OtherCorp ELSE CorpId)
        IN  /\ Len(packet.encrypt) \in n + 1 .. n + BlockSize
            /\ Len(packet.encrypt) % BlockSize = 0
            /\ Len(Unpad(packet.encrypt)) = n
=============================================================================
