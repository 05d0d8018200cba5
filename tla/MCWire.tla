------------------------------- MODULE MCWire -------------------------------
(***************************************************************************)
(* Wire on a device's connection, a cloud's, and streams with bodies and   *)
(* lengths that are wrong or at their limits.                              *)
(***************************************************************************)
EXTENDS Wire

Item(bytes, means) == [bytes |-> bytes, means |-> means]

(* What an MQTT client writes; flags as mqtt_wire.rs's own test has them.  *)
Connect(flags, fields) ==
  Frame(16, Text(<<77, 81>>) \o <<4, flags, 0, 60>> \o FlattenSeq([i \in DOMAIN fields |-> Text(fields[i])]))
Named(id, user, pass) == [kind |-> "connect", clientId |-> id, user |-> user, pass |-> pass]
Published(topic, qos, retain, id, payload) ==
  [kind |-> "publish", topic |-> topic, qos |-> qos, retain |-> retain, id |-> id,
   payload |-> payload]

WithCredentials == Item(Connect(194, <<<<1>>, <<2, 3>>, <<4>>>>), Named(<<1>>, <<2, 3>>, <<4>>))
WithWill == Item(Connect(134, <<<<1>>, <<8>>, <<9>>, <<2>>>>), Named(<<1>>, <<2>>, None))
Retained == Item(Publish(<<7>>, <<5, 6>>, TRUE), Published(<<7>>, 0, TRUE, None, <<5, 6>>))
Empty == Item(Publish(<<7>>, <<>>, FALSE), Published(<<7>>, 0, FALSE, None, <<>>))
Acked == Item(Frame(50, Text(<<7>>) \o <<1, 4, 5>>), Published(<<7>>, 1, FALSE, 260, <<5>>))
Long == LET zeros == [i \in 1..200 |-> 0]
        IN Item(Publish(<<7>>, zeros, FALSE), Published(<<7>>, 0, FALSE, None, zeros))
TwoTopics == Item(Frame(130, <<0, 1>> \o Text(<<7>>) \o <<0>> \o Text(<<8>>) \o <<0>>),
                  [kind |-> "subscribe", id |-> 1, topics |-> <<<<7>>, <<8>>>>])
Ping == Item(<<192, 0>>, [kind |-> "pingreq"])
Leave == Item(<<224, 0>>, [kind |-> "disconnect"])
Other(bytes, type) == Item(bytes, [kind |-> "other", type |-> type])

(* Texts that are UTF-8, of two, three and four bytes, and texts that are   *)
(* not: a byte that begins nothing, a character cut short, one too long.   *)
Replaced == <<239, 191, 189>>
Accented == LET name == <<80, 195, 164>>   pass == <<226, 130, 172, 240, 159, 166, 138>>
            IN Item(Connect(194, <<<<1>>, name, pass>>), Named(<<1>>, name, pass))
Binary == Item(Connect(194, <<<<200>>, <<226, 130, 65>>, <<192, 175, 240, 159, 255>>>>),
               Named(Replaced, Replaced \o <<65>>,
                     Replaced \o Replaced \o Replaced \o Replaced))
OddTopic == Item(Publish(<<7, 237, 160, 128>>, <<255>>, FALSE),
                 Published(<<7>> \o Replaced \o Replaced \o Replaced, 0, FALSE, None, <<255>>))
OddWish == Item(Frame(130, <<0, 1>> \o Text(<<244, 144>>) \o <<0>>),
                [kind |-> "subscribe", id |-> 1, topics |-> <<Replaced \o Replaced>>])

(* Bodies that claim more than they hold, at each of their fields. *)
ShortConnect == Item(Frame(16, Text(<<77, 81>>) \o <<4, 2, 0>>), Ignored)
NoPassword == Item(Connect(194, <<<<1>>, <<2, 3>>>>), Ignored)
ShortTopic == Item(Frame(48, <<0, 3, 7, 7>>), Ignored)
NoPacketId == Item(Frame(50, Text(<<7>>) \o <<1>>), Ignored)
ShortSubscribe == Item(Frame(130, <<0, 1>> \o Text(<<7>>) \o <<0, 0>>), Ignored)

(* A length of four bytes, and one of five. *)
Padded == Other(<<208, 128, 128, 128, 0>>, 13)
TooLong == Item(<<208, 128, 128, 128, 128, 0>>, Malformed)

MCSendings == {
  <<WithCredentials, TwoTopics, Acked, Ping, Leave>>,
  <<Other(ConnAck, 2), Other(SubAck(1, 2), 9), Retained, Empty, Other(PubAck(260), 4),
    Other(PingResp, 13)>>,
  <<WithWill, Long, Ping>>,
  <<ShortConnect, Retained, NoPassword, ShortTopic, Ping, NoPacketId, ShortSubscribe, Acked>>,
  <<Accented, Binary, OddTopic, OddWish, Ping>>,
  <<Retained, Padded, Ping>>,
  <<Retained, Ping, TooLong, Retained>>}
=============================================================================
