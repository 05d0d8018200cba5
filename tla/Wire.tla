-------------------------------- MODULE Wire --------------------------------
(***************************************************************************)
(* The MQTT codec of the onboarding modes (aquilo-server/src/mqtt_wire.rs):*)
(* a decoder fed with whatever a read returned, and the encoders.          *)
(*                                                                         *)
(* A peer sends items; an item is [bytes, means]: what is on the wire and  *)
(* the packet it is, Ignored for a body that is none, Malformed for a      *)
(* length that is none.  Bytes are numbers, text is a sequence of bytes.   *)
(***************************************************************************)
EXTENDS Integers, Sequences, SequencesExt

CONSTANTS Sendings,   \* the sequences of items a peer may send
          None,       \* Option::None
          Ignored, Malformed

Byte == 0..255
ASSUME WireAssumption ==
  \A s \in Sendings :
    /\ s \in Seq(Range(s))
    /\ \A i \in DOMAIN s : s[i].bytes \in Seq(Byte) /\ s[i].bytes # <<>>

VARIABLES sending,  \* what the peer of this connection sends
          read,     \* how many of its bytes have been read
          buf,      \* Decoder.buf
          out       \* the packets decoded so far
vars == <<sending, read, buf, out>>

Bit(flags, b) == (flags \div b) % 2 = 1
Word(b, i) == b[i] * 256 + b[i + 1]

-----------------------------------------------------------------------------
(* String::from_utf8_lossy.  A character is `Width` bytes; what is none is *)
(* replaced by U+FFFD, a character cut short as one.                       *)
Trail == 128..191
Second(lead) ==
  CASE lead = 224 -> 160..191 [] lead = 237 -> 128..159
    [] lead = 240 -> 144..191 [] lead = 244 -> 128..143 [] OTHER -> Trail
Width(lead) ==
  CASE lead < 128       -> 1 [] lead \in 194..223 -> 2
    [] lead \in 224..239 -> 3 [] lead \in 240..244 -> 4 [] OTHER -> 0

(* k bytes from i on are a character or begin one; i is inside of one that *)
(* began before it; a character begins at i and is all there.              *)
Starts(b, i, k) ==
  /\ i + k - 1 <= Len(b) /\ k <= Width(b[i])
  /\ \A j \in 1..k - 1 : b[i + j] \in (IF j = 1 THEN Second(b[i]) ELSE Trail)
Inside(b, i) == \E k \in 1..3 : k < i /\ Starts(b, i - k, k + 1)
Character(b, i) == Width(b[i]) > 0 /\ Starts(b, i, Width(b[i]))

Converted(b, i) ==
  IF Inside(b, i) THEN <<>>
  ELSE IF Character(b, i) THEN SubSeq(b, i, i + Width(b[i]) - 1) ELSE <<239, 191, 189>>
Lossy(b) == FlattenSeq([i \in 1..Len(b) |-> Converted(b, i)])

(* The bytes that it leaves as they are. *)
Utf8(b) == \A i \in 1..Len(b) : Inside(b, i) \/ Character(b, i)

-----------------------------------------------------------------------------
(* Bodies.  A reader takes an offset and gives what it read and the offset *)
(* after it; NoRead is the None that `?` passes on.                        *)
NoRead == [bytes |-> <<>>, off |-> -1]

(* Bug: a length that goes past the end is cut. *)
ReadBytesCut(b, off) ==
  IF off < 0 \/ off + 2 > Len(b) THEN NoRead
  ELSE LET end == off + 2 + Word(b, off + 1)
       IN [bytes |-> SubSeq(b, off + 3, IF end > Len(b) THEN Len(b) ELSE end),
           off |-> IF end > Len(b) THEN Len(b) ELSE end]

(* read_bytes; read_str is Lossy of it. *)
ReadBytes(b, off) ==
  IF off < 0 \/ off + 2 > Len(b) \/ off + 2 + Word(b, off + 1) > Len(b) THEN NoRead
  ELSE [bytes |-> SubSeq(b, off + 3, off + 2 + Word(b, off + 1)),
        off |-> off + 2 + Word(b, off + 1)]

(* A field that a flag of the CONNECT announces, and the text of one. *)
ReadIf(present, b, off) ==
  IF present THEN ReadBytes(b, off) ELSE [bytes |-> None, off |-> off]
TextIf(present, bytes) == IF present THEN Lossy(bytes) ELSE None

DecodeConnect(b) ==
  LET head  == ReadBytes(b, 0)
      flags == b[head.off + 2]
      id    == ReadBytes(b, head.off + 4)
      topic == ReadIf(Bit(flags, 4), b, id.off)
      will  == ReadIf(Bit(flags, 4), b, topic.off)
      user  == ReadIf(Bit(flags, 128), b, will.off)
      pass  == ReadIf(Bit(flags, 64), b, user.off)
  IN IF head.off < 0 \/ head.off + 4 > Len(b) \/ pass.off < 0 THEN Ignored
     ELSE [kind |-> "connect", clientId |-> Lossy(id.bytes),
           user |-> TextIf(Bit(flags, 128), user.bytes), pass |-> TextIf(Bit(flags, 64), pass.bytes)]

DecodePublish(flags, b) ==
  LET topic == ReadBytes(b, 0)
      qos   == (flags \div 2) % 4
      off   == topic.off + (IF qos > 0 THEN 2 ELSE 0)
  IN IF topic.off < 0 \/ off > Len(b) THEN Ignored
     ELSE [kind |-> "publish", topic |-> Lossy(topic.bytes), qos |-> qos, retain |-> Bit(flags, 1),
           id |-> IF qos > 0 THEN Word(b, topic.off + 1) ELSE None,
           payload |-> SubSeq(b, off + 1, Len(b))]

(* The topics from an offset on, each with a QoS byte after it, which the  *)
(* last one may do without; Ignored when one of them does not fit.         *)
TopicsFrom(b) ==
  LET topics[off \in Nat] ==
        IF off >= Len(b) THEN <<>>
        ELSE LET t == ReadBytes(b, off)
             IN IF t.off < 0 \/ topics[t.off + 1] = Ignored THEN Ignored
                ELSE <<Lossy(t.bytes)>> \o topics[t.off + 1]
  IN topics[2]

DecodeSubscribe(b) ==
  IF Len(b) < 2 \/ TopicsFrom(b) = Ignored THEN Ignored
  ELSE [kind |-> "subscribe", id |-> Word(b, 1), topics |-> TopicsFrom(b)]

DecodeBody(kind, flags, b) ==
  CASE kind = 1  -> DecodeConnect(b)
    [] kind = 3  -> DecodePublish(flags, b)
    [] kind = 8  -> DecodeSubscribe(b)
    [] kind = 12 -> [kind |-> "pingreq"]
    [] kind = 14 -> [kind |-> "disconnect"]
    [] OTHER     -> [kind |-> "other", type |-> kind]

-----------------------------------------------------------------------------
(* Frames.  The length ends with the first byte below 128, at the latest   *)
(* the fourth; total is 0 for Incomplete and -1 for Corrupt.               *)
LengthEnds(b, most) == {i \in 2..1 + most : i <= Len(b) /\ b[i] < 128}

(* What byte i adds to a length that ends at byte `end`. *)
Digit(b, end, i, mult) == IF i <= end THEN (b[i] % 128) * mult ELSE 0
Length(b, end) ==
  Digit(b, end, 2, 1) + Digit(b, end, 3, 128) + Digit(b, end, 4, 16384) + Digit(b, end, 5, 2097152)

Framed(b, most) ==
  LET end == CHOOSE i \in LengthEnds(b, most) : \A j \in LengthEnds(b, most) : i <= j
      len == Length(b, end)
  IN IF LengthEnds(b, most) = {} THEN [total |-> IF Len(b) > most THEN -1 ELSE 0]
     ELSE IF Len(b) < end + len THEN [total |-> 0]
     ELSE [total |-> end + len,
           packet |-> DecodeBody(b[1] \div 16, b[1] % 16, SubSeq(b, end + 1, end + len))]

(* Bug: the limit is checked one byte late. *)
NextFrameLate(b) == Framed(b, 5)

NextFrame(b) == Framed(b, 4)

(* A body that is no packet is passed over. *)
Kept(packet) == IF packet = Ignored THEN <<>> ELSE <<packet>>

(* The loop of Decoder::push: frames while there are any, then what is     *)
(* left; Corrupt drops it.                                                 *)
Drain[b \in Seq(Byte)] ==
  LET f    == NextFrame(b)
      rest == Drain[SubSeq(b, f.total + 1, Len(b))]
  IN IF f.total = 0 THEN [buf |-> b, packets |-> <<>>]
     ELSE IF f.total < 0 THEN [buf |-> <<>>, packets |-> <<>>]
     ELSE [buf |-> rest.buf, packets |-> Kept(f.packet) \o rest.packets]

-----------------------------------------------------------------------------
(* Encoders. *)
Varint[n \in Nat] ==
  IF n < 128 THEN <<n>> ELSE <<128 + (n % 128)>> \o Varint[n \div 128]
Frame(header, body) == <<header>> \o Varint[Len(body)] \o body

(* Bug: the low byte of the length first. *)
TextLowFirst(s) == <<Len(s) % 256, (Len(s) \div 256) % 256>> \o s

Text(s) == <<(Len(s) \div 256) % 256, Len(s) % 256>> \o s
Publish(topic, payload, retain) ==
  Frame(IF retain THEN 49 ELSE 48, Text(topic) \o payload)
ConnAck == <<32, 2, 0, 0>>
SubAck(id, count) == Frame(144, <<id \div 256, id % 256>> \o [i \in 1..count |-> 0])
PubAck(id) == <<64, 2, id \div 256, id % 256>>
PingResp == <<208, 0>>

-----------------------------------------------------------------------------
Stream(s) == FlattenSeq([i \in DOMAIN s |-> s[i].bytes])

Init == sending \in Sendings /\ read = 0 /\ buf = <<>> /\ out = <<>>

(* Decoder::push of the n bytes that a read returned. *)
Push(n) ==
  LET chunk == SubSeq(Stream(sending), read + 1, read + n)
      drained == Drain[buf \o chunk]
  IN /\ read + n <= Len(Stream(sending))
     /\ buf' = drained.buf
     /\ out' = out \o drained.packets
     /\ read' = read + n
     /\ UNCHANGED sending

(* Bug: the decoder outlives its connection. *)
ReconnectKeeping ==
  sending' \in Sendings /\ read' = 0 /\ out' = <<>> /\ UNCHANGED buf

(* The connection ends wherever it is; the next one has a new Decoder. *)
Reconnect == sending' \in Sendings /\ read' = 0 /\ out' = <<>> /\ buf' = <<>>

Next == (\E n \in 1..Len(Stream(sending)) : Push(n)) \/ Reconnect
Spec == Init /\ [][Next]_vars

-----------------------------------------------------------------------------
(* The items before a malformed length, and those that have been read. *)
Sound == {j \in 0..Len(sending) : \A i \in 1..j : sending[i].means # Malformed}
Whole == {j \in Sound : Len(Stream(SubSeq(sending, 1, j))) <= read}
Arrived == CHOOSE j \in Whole : \A k \in Whole : k <= j
Meant(j) == FlattenSeq([i \in 1..j |-> Kept(sending[i].means)])

(* mqtt_wire.rs:255-284,73-93: an item handed over whole is one packet, of *)
(* exactly its bytes, and the packet it is: what the encoders write is     *)
(* what the decoder reads.                                                 *)
DecodesWhole ==
  \A i \in DOMAIN sending :
    LET item == sending[i]
    IN item.means # Malformed =>
         NextFrame(item.bytes) = [total |-> Len(item.bytes), packet |-> item.means]

(* mqtt_wire.rs:51-52,73: however the stream was cut, the packets decoded  *)
(* are those whose last byte has been read, each once, in order and as     *)
(* they were encoded; bodies that are no packet are passed over without    *)
(* losing one; nothing that came before a malformed length is lost by it.  *)
DecodedAsSent ==
  IF Len(sending) \in Sound THEN out = Meant(Arrived)
  ELSE IsPrefix(Meant(Arrived), out)

(* mqtt_wire.rs:51-52: what the decoder holds back is the packet that is   *)
(* not complete, from its first byte, and nothing else: the stream stays   *)
(* in sync, on every connection.                                           *)
HoldsTheRest ==
  Len(sending) \in Sound =>
    buf = SubSeq(Stream(sending), Len(Stream(SubSeq(sending, 1, Arrived))) + 1, read)

(* mqtt_wire.rs:64-65,117-119: a length whose fourth byte is not its last  *)
(* is never waited for, on whichever read that byte comes.                 *)
NothingCorruptKept == Len(buf) < 5 \/ \E i \in 2..5 : buf[i] < 128
=============================================================================
