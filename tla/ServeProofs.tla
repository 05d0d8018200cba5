---------------------------- MODULE ServeProofs -----------------------------
(***************************************************************************)
(* The `serve` loop sends no state that is not on disk, sends the device   *)
(* no version but its own, and once it waits for a slot of its own full    *)
(* channel does so for good, which it never does while the channel is      *)
(* large enough: for every size of the channel and every number of         *)
(* readings, pings and faults.                                             *)
(***************************************************************************)
EXTENDS Serve, SequenceTheorems, FunctionTheorems, FiniteSetTheorems, TLAPS

(* server.rs:91-114: a handler that waits on a full channel waits until    *)
(* the process ends, whatever the broker, the device and the ping task do. *)
THEOREM WedgesForGood == Spec => WedgedForever
<1>1. [Next]_vars => [Wedged => Wedged' \/ ~up']_vars
  <2> SUFFICES ASSUME Next, Wedged PROVE Wedged' \/ ~up'
    BY DEF vars
  <2>1. up /\ todo # <<>> /\ Head(todo) # PersistStep /\ Len(chan) = ChanCap /\ ~Polling
    BY DEF Wedged, Polling
  <2>2. ~(Len(chan) < ChanCap)
    BY <2>1, ServeAssumption
  <2>3. CASE Crash
    BY <2>3 DEF Crash
  <2>4. CASE Disconnect \/ BrokerStop \/ BrokerStart \/ DeviceConnect \/ DeviceDrop \/ DeviceRead
    <3>1. UNCHANGED <<up, todo, chan>>
      BY <2>4 DEF Disconnect, BrokerStop, BrokerStart, DeviceConnect, DeviceDrop, DeviceRead, server
    <3> QED
      BY <2>1, <3>1 DEF Wedged
  <2>5. ~Start /\ ~StartUnreadable /\ ~PingTick /\ ~ServerStep
    BY <2>1, <2>2 DEF Start, StartUnreadable, Boot, PingTick, ServerStep, ConnAck, Enqueue, Persist, SendRequest,
                      HandleRead, HandleLog, ConnLost
  <2> QED
    BY <2>3, <2>4, <2>5 DEF Next
<1> QED
  BY <1>1, PTL DEF Spec, WedgedForever

-----------------------------------------------------------------------------
(* What the handlers ask for are requests of the known kinds. *)
LEMMA RequestTypes ==
  /\ \A fw \in {FwCfg, FwDev} : VersionReq(fw) \in Requests
  /\ \A n \in States : StateReq(n) \in Requests
  /\ RadarReq \in Requests /\ PingReq \in Requests
  /\ \A i \in 1..3 : SubReq(DeviceTopics[i]) \in Requests
<1>1. \A i \in 1..3 : DeviceTopics[i] \in {"read", "log", "connection"}
  BY DEF DeviceTopics
<1> QED
  BY <1>1 DEF Requests

(* A request is told by its kind. *)
LEMMA RequestKinds ==
  ASSUME NEW r \in Requests
  PROVE  /\ r.kind = "version" => r.fw \in {FwCfg, FwDev}
         /\ r.kind = "state" => r.n \in States /\ r = StateReq(r.n)
         /\ r.kind = "sub" => r.topic \in {"read", "log", "connection"}
  BY DEF Requests, VersionReq, StateReq, SubReq, RadarReq, PingReq

(* So are messages. *)
LEMMA MessageKinds ==
  /\ \A m \in Messages : m.kind = "read" => m.n \in States
  /\ \A n \in States : ReadMsg(n) \in Messages
  /\ \A f \in LogFormats : LogMsg(f) \in Messages
<1>1. ASSUME NEW m \in Messages, m.kind = "read" PROVE m.n \in States
  <2>1. CASE \E n \in States : m = ReadMsg(n)
    BY <2>1 DEF ReadMsg
  <2>2. CASE \E f \in LogFormats : m = LogMsg(f)
    <3>1. m.kind = "log"
      BY <2>2 DEF LogMsg
    <3> QED
      BY <3>1, <1>1
  <2> QED
    BY <2>1, <2>2 DEF Messages
<1>2. \A n \in States : ReadMsg(n) \in Messages
  BY DEF Messages
<1>3. \A f \in LogFormats : LogMsg(f) \in Messages
  BY DEF Messages
<1> QED
  BY <1>1, <1>2, <1>3

(* The handlers' lists of steps hold requests and, for a reading, the      *)
(* call of persist.                                                        *)
LEMMA StepTypes ==
  /\ \A n \in States : SeedSteps(n) \in Seq(Requests \cup {PersistStep})
  /\ \A n \in States : ReadSteps(n) \in Seq(Requests \cup {PersistStep})
  /\ \A f : LogSteps(f) \in Seq(Requests \cup {PersistStep})
<1> DEFINE S == Requests \cup {PersistStep}
<1>1. ASSUME NEW n \in States PROVE SeedSteps(n) \in Seq(S)
  <2>1. <<VersionReq(FwCfg), RadarReq, StateReq(n)>> \in Seq(S)
    BY RequestTypes
  <2>2. [i \in 1..3 |-> SubReq(DeviceTopics[i])] \in Seq(S)
    BY RequestTypes
  <2> QED
    BY <2>1, <2>2, ConcatProperties DEF SeedSteps
<1>2. ASSUME NEW n \in States PROVE ReadSteps(n) \in Seq(S)
  BY RequestTypes DEF ReadSteps
<1>3. ASSUME NEW f PROVE LogSteps(f) \in Seq(S)
  <2>1. LogSteps(f) = <<VersionReq(FwDev)>> \/ LogSteps(f) = <<>>
    BY DEF LogSteps, ParseFirmware
  <2>2. VersionReq(FwDev) \in S
    BY RequestTypes
  <2>3. <<VersionReq(FwDev)>> \in Seq(S) /\ <<>> \in Seq(S)
    BY <2>2
  <2> HIDE DEF S
  <2> QED
    BY <2>1, <2>3
<1> QED
  BY <1>1, <1>2, <1>3

(* A message that arrives leaves the inbox a sequence of messages. *)
LEMMA ForwardType ==
  ASSUME TypeOK, NEW topic, NEW m \in Messages, Forward(topic, m)
  PROVE  inbox' \in Seq(Messages)
  BY AppendProperties DEF TypeOK, Forward

-----------------------------------------------------------------------------
(* What a request does to the broker and to the device. *)
Brokers == [embedded : Deployments, up : BOOLEAN, retained : Retained,
            subs : SUBSET {"read", "log", "connection"}]
Devices == [on : BOOLEAN, version : Versions, state : States \cup {NoState}]

LEMMA BrokerTypes ==
  ASSUME NEW b \in Brokers
  PROVE  /\ \A r \in Requests : BrokerAfter(b, r) \in Brokers
         /\ \A kept \in Retained : Stopped(b, kept) \in Brokers
         /\ [b EXCEPT !.up = TRUE] \in Brokers
         /\ [b EXCEPT !.up = @ \/ b.embedded] \in Brokers
         /\ [b EXCEPT !.subs = {}] \in Brokers
         /\ NothingRetained \in Retained /\ b.retained \in Retained
<1>1. ASSUME NEW r \in Requests PROVE BrokerAfter(b, r) \in Brokers
  <2>1. FwCfg \in Versions /\ FwDev \in Versions
    BY DEF Versions
  <2>2. CASE r.kind = "version"
    BY <2>1, <2>2, RequestKinds DEF BrokerAfter, Brokers, Retained
  <2>3. CASE r.kind = "radarParams"
    BY <2>3 DEF BrokerAfter, Brokers, Retained
  <2>4. CASE r.kind = "state"
    BY <2>4, RequestKinds DEF BrokerAfter, Brokers, Retained
  <2>5. CASE r.kind = "sub"
    BY <2>5, RequestKinds DEF BrokerAfter, Brokers
  <2>6. CASE r.kind \notin {"version", "radarParams", "state", "sub"}
    BY <2>6 DEF BrokerAfter
  <2> QED
    BY <2>2, <2>3, <2>4, <2>5, <2>6
<1>2. NothingRetained \in Retained
  BY DEF NothingRetained, Retained, Versions
<1>3. \A kept \in Retained : Stopped(b, kept) \in Brokers
  BY DEF Stopped, Brokers
<1>4. b.embedded \in BOOLEAN /\ b.up \in BOOLEAN
  BY ServeAssumption DEF Brokers
<1>5. /\ [b EXCEPT !.up = TRUE] \in Brokers
      /\ [b EXCEPT !.subs = {}] \in Brokers
      /\ b.retained \in Retained
  BY DEF Brokers
<1>6. [b EXCEPT !.up = @ \/ b.embedded] \in Brokers
  BY <1>4 DEF Brokers
<1> QED
  BY <1>1, <1>2, <1>3, <1>5, <1>6

LEMMA DeviceTypes ==
  ASSUME NEW d \in Devices
  PROVE  /\ \A r \in Requests : DeviceAfter(d, r) \in Devices
         /\ [d EXCEPT !.on = FALSE] \in Devices
         /\ \A e \in BOOLEAN : [d EXCEPT !.on = @ /\ ~e] \in Devices
<1>1. ASSUME NEW r \in Requests PROVE DeviceAfter(d, r) \in Devices
  <2>1. CASE d.on /\ r.kind = "version"
    BY <2>1, RequestKinds DEF DeviceAfter, Devices, Versions
  <2>2. CASE d.on /\ r.kind = "state"
    BY <2>2, RequestKinds DEF DeviceAfter, Devices
  <2>3. CASE ~(d.on /\ r.kind = "version") /\ ~(d.on /\ r.kind = "state")
    BY <2>3 DEF DeviceAfter
  <2> QED
    BY <2>1, <2>2, <2>3
<1>2. [d EXCEPT !.on = FALSE] \in Devices
  BY DEF Devices
<1>3. ASSUME NEW e \in BOOLEAN PROVE [d EXCEPT !.on = @ /\ ~e] \in Devices
  BY DEF Devices
<1> QED
  BY <1>1, <1>2, <1>3

-----------------------------------------------------------------------------
(* TypeOK is inductive: the loop, its channel, the broker and the device   *)
(* hold what they are declared to hold, in every reachable state.          *)
LEMMA TypeInit == Init => TypeOK
<1> SUFFICES ASSUME Init PROVE TypeOK
  OBVIOUS
<1>1. 0 \in States /\ 0 \in 0..MaxFaults
  BY ServeAssumption DEF States
<1>2. broker \in Brokers
  <2>1. PICK e \in Deployments : broker = [embedded |-> e, up |-> ~e,
                                          retained |-> NothingRetained, subs |-> {}]
    BY DEF Init
  <2>2. NothingRetained \in Retained
    BY DEF NothingRetained, Retained, Versions
  <2> QED
    BY <2>1, <2>2 DEF Brokers
<1>3. dev \in Devices
  BY DEF Init, Devices, Versions
<1>4. /\ todo \in Seq(Requests \cup {PersistStep})
      /\ chan \in Seq(Requests) /\ Len(chan) = 0
      /\ inbox \in Seq(Messages)
  BY EmptySeq DEF Init
<1>5. ChanCap >= 0
  BY ServeAssumption
<1> QED
  BY <1>1, <1>2, <1>3, <1>4, <1>5 DEF Init, TypeOK, Brokers, Devices

LEMMA TypeStep == TypeOK /\ [Next]_vars => TypeOK'
<1> SUFFICES ASSUME TypeOK, [Next]_vars PROVE TypeOK'
  OBVIOUS
<1> USE ServeAssumption
<1>0. broker \in Brokers /\ dev \in Devices
  BY DEF TypeOK, Brokers, Devices
<1>1. CASE Start
  <2>1. broker' \in Brokers
    BY <1>0, <1>1, BrokerTypes DEF Start, Boot
  <2> QED
    BY <2>1, <1>1 DEF Start, Boot, TypeOK, Brokers
<1>18. CASE StartUnreadable
  <2>1. broker' \in Brokers
    BY <1>0, <1>18, BrokerTypes DEF StartUnreadable, Boot
  <2>2. faults' \in 0..MaxFaults
    BY <1>18 DEF StartUnreadable, TypeOK
  <2>3. current' \in States /\ stored' \in States /\ unsaved' \in BOOLEAN /\ up' \in BOOLEAN
    BY <1>18 DEF StartUnreadable, Boot, TypeOK, States
  <2>4. UNCHANGED <<todo, chan, link, inbox, heard, dev, reads>>
    BY <1>18 DEF StartUnreadable, Boot
  <2> QED
    BY <2>1, <2>2, <2>3, <2>4 DEF TypeOK, Brokers
<1>2. CASE PingTick
  <2>1. PingReq \in Requests
    BY RequestTypes
  <2>2. chan' \in Seq(Requests) /\ Len(chan') = Len(chan) + 1
    BY <2>1, <1>2, AppendProperties DEF PingTick, TypeOK
  <2> QED
    BY <2>2, <1>2, LenProperties DEF PingTick, TypeOK
<1>3. CASE ConnAck
  <2>1. SeedSteps(current) \in Seq(Requests \cup {PersistStep})
    BY StepTypes DEF TypeOK
  <2> QED
    BY <2>1, <1>3 DEF ConnAck, TypeOK
<1>4. CASE Enqueue
  <2>1. Head(todo) \in Requests /\ todo' \in Seq(Requests \cup {PersistStep})
    BY <1>4, HeadTailProperties DEF Enqueue, TypeOK
  <2>2. chan' \in Seq(Requests) /\ Len(chan') = Len(chan) + 1
    BY <2>1, <1>4, AppendProperties DEF Enqueue, TypeOK
  <2> QED
    BY <2>1, <2>2, <1>4, LenProperties DEF Enqueue, TypeOK
<1>5. CASE Persist
  <2>1. todo' \in Seq(Requests \cup {PersistStep})
    BY <1>5, HeadTailProperties DEF Persist, TypeOK
  <2> QED
    BY <2>1, <1>5 DEF Persist, TypeOK
<1>6. CASE SendRequest
  <2>1. Head(chan) \in Requests /\ chan' \in Seq(Requests) /\ Len(chan') = Len(chan) - 1
    BY <1>6, HeadTailProperties DEF SendRequest, TypeOK
  <2>2. broker' \in Brokers
    BY <2>1, <1>0, <1>6, BrokerTypes DEF SendRequest
  <2>3. dev' \in Devices
    BY <2>1, <1>0, <1>6, DeviceTypes DEF SendRequest
  <2> QED
    BY <2>1, <2>2, <2>3, <1>6, LenProperties DEF SendRequest, TypeOK, Brokers, Devices
<1>7. CASE HandleRead
  <2>1. Head(inbox) \in Messages /\ inbox' \in Seq(Messages)
    BY <1>7, HeadTailProperties DEF HandleRead, TypeOK
  <2>2. current' \in States
    BY <2>1, <1>7, MessageKinds DEF HandleRead
  <2>3. todo' \in Seq(Requests \cup {PersistStep})
    BY <2>2, <1>7, StepTypes DEF HandleRead
  <2> QED
    BY <2>1, <2>2, <2>3, <1>7 DEF HandleRead, TypeOK
<1>8. CASE HandleLog
  <2>1. inbox' \in Seq(Messages)
    BY <1>8, HeadTailProperties DEF HandleLog, TypeOK
  <2>2. todo' \in Seq(Requests \cup {PersistStep})
    BY <1>8, StepTypes DEF HandleLog
  <2>3. heard' \in BOOLEAN
    BY <1>8 DEF HandleLog, TypeOK
  <2> QED
    BY <2>1, <2>2, <2>3, <1>8 DEF HandleLog, TypeOK
<1>9. CASE ConnLost
  <2>1. inbox' \in Seq(Messages)
    BY <1>9, SubSeqProperties DEF ConnLost, TypeOK
  <2>2. chan' \in Seq(Requests) /\ Len(chan') = 0
    BY <1>9, EmptySeq DEF ConnLost
  <2> QED
    BY <2>1, <2>2, <1>9 DEF ConnLost, TypeOK
<1>10. CASE Crash
  <2>1. broker' \in Brokers
    BY <1>0, <1>10, BrokerTypes DEF Crash
  <2>2. dev' \in Devices
    BY <1>0, <1>10, DeviceTypes DEF Crash, Brokers
  <2>3. faults' \in 0..MaxFaults
    BY <1>10 DEF Crash, Fault, TypeOK
  <2>4. /\ todo' \in Seq(Requests \cup {PersistStep})
        /\ chan' \in Seq(Requests) /\ Len(chan') = 0
        /\ inbox' \in Seq(Messages)
    BY <1>10, EmptySeq DEF Crash
  <2>5. up' \in BOOLEAN /\ heard' \in BOOLEAN /\ link' \in {"down", "up", "broken"}
    BY <1>10 DEF Crash
  <2>6. UNCHANGED <<current, stored, unsaved, reads>>
    BY <1>10 DEF Crash
  <2> QED
    BY <2>1, <2>2, <2>3, <2>4, <2>5, <2>6 DEF TypeOK, Brokers, Devices
<1>11. CASE Disconnect
  <2>1. broker' \in Brokers
    BY <1>0, <1>11, BrokerTypes DEF Disconnect
  <2>2. faults' \in 0..MaxFaults
    BY <1>11 DEF Disconnect, Fault, TypeOK
  <2> QED
    BY <2>1, <2>2, <1>11 DEF Disconnect, TypeOK, Brokers
<1>12. CASE BrokerStop
  <2>1. broker' \in Brokers
    BY <1>0, <1>12, BrokerTypes DEF BrokerStop
  <2>2. dev' \in Devices
    BY <1>0, <1>12, DeviceTypes DEF BrokerStop
  <2>3. faults' \in 0..MaxFaults
    BY <1>12 DEF BrokerStop, Fault, TypeOK
  <2> QED
    BY <2>1, <2>2, <2>3, <1>12 DEF BrokerStop, Broken, TypeOK, Brokers, Devices
<1>13. CASE BrokerStart
  <2>1. broker' \in Brokers
    BY <1>0, <1>13, BrokerTypes DEF BrokerStart
  <2> QED
    BY <2>1, <1>13 DEF BrokerStart, server, TypeOK, Brokers
<1>14. CASE DeviceConnect
  <2>1. dev' \in Devices
    BY <1>0, <1>14 DEF DeviceConnect, Brokers, Devices, Retained
  <2>2. inbox' \in Seq(Messages)
    BY <1>14, ForwardType, MessageKinds DEF DeviceConnect
  <2> QED
    BY <2>1, <2>2, <1>14 DEF DeviceConnect, TypeOK, Devices
<1>15. CASE DeviceDrop
  <2>1. dev' \in Devices
    BY <1>0, <1>15, DeviceTypes DEF DeviceDrop
  <2>2. faults' \in 0..MaxFaults
    BY <1>15 DEF DeviceDrop, Fault, TypeOK
  <2> QED
    BY <2>1, <2>2, <1>15 DEF DeviceDrop, server, TypeOK, Devices
<1>16. CASE DeviceRead
  <2>1. reads' \in States
    BY <1>16 DEF DeviceRead, TypeOK, States
  <2>2. inbox' \in Seq(Messages)
    BY <2>1, <1>16, ForwardType, MessageKinds DEF DeviceRead
  <2> QED
    BY <2>1, <2>2, <1>16 DEF DeviceRead, TypeOK
<1>17. CASE UNCHANGED vars
  BY <1>17 DEF vars, server, TypeOK
<1> QED
  BY <1>1, <1>2, <1>3, <1>4, <1>5, <1>6, <1>7, <1>8, <1>9, <1>10, <1>11, <1>12, <1>13,
     <1>14, <1>15, <1>16, <1>17, <1>18 DEF Next, ServerStep

(* Every reachable state of the loop, the broker and the device has its    *)
(* declared types; in particular the channel never holds more than ChanCap *)
(* requests.                                                               *)
THEOREM TypeCorrect == Spec => []TypeOK
  BY TypeInit, TypeStep, PTL DEF Spec

(* server.rs:284-285: with the device's own firmware configured, no run    *)
(* ever sends the device another version, so it never starts an OTA.       *)
THEOREM NeverOTA ==
  ASSUME FwCfg = FwDev
  PROVE  Spec => []NoOTA
<1>1. TypeOK => NoOTA
  BY FwCfg = FwDev DEF TypeOK, NoOTA, Versions
<1> QED
  BY <1>1, TypeCorrect, PTL

-----------------------------------------------------------------------------
(* The states that have left the loop: in the channel, at the broker, at   *)
(* the device; and the readings that wait for it.                          *)
Sent == {n \in States : \E i \in DOMAIN chan : chan[i] = StateReq(n)}
          \cup {broker.retained.state, dev.state}
Waiting == {n \in States : \E i \in DOMAIN inbox : inbox[i] = ReadMsg(n)}

(* handle_read has applied the reading and is about to persist. *)
BeforePersist == todo = <<PersistStep, StateReq(current)>>

(* A handler publishes no state but the current one, which is new only     *)
(* where persist is still to come.                                         *)
HandlerForm ==
  \/ BeforePersist /\ \A p \in Sent : p <= current
  \/ \A i \in DOMAIN todo : /\ todo[i] # PersistStep
                            /\ \A n \in States : todo[i] = StateReq(n) => n = current

(* Readings arrive in order and are newer than all that is known. *)
ReadingsOrdered ==
  /\ \A n \in Waiting : current < n /\ n <= reads /\ \A p \in Sent : p < n
  /\ \A i, j \in DOMAIN inbox : \A m, n \in States :
       i < j /\ inbox[i] = ReadMsg(m) /\ inbox[j] = ReadMsg(n) => m < n

KnownOrdered == stored <= reads /\ current <= reads /\ \A p \in Sent : p <= reads
Offline == ~up => inbox = <<>> /\ todo = <<>> /\ link = "down"

(* What was sent is on disk; outside a handler that is to persist, the     *)
(* disk has the current state.                                             *)
Settled == ~unsaved => /\ \A p \in Sent : p <= stored
                       /\ up /\ ~BeforePersist => current = stored

OrderInv == HandlerForm /\ ReadingsOrdered /\ KnownOrdered /\ Offline /\ Settled

LEMMA Numbers ==
  ASSUME TypeOK
  PROVE  /\ Sent \subseteq Int /\ Waiting \subseteq Nat /\ States \subseteq Nat
         /\ current \in Nat /\ stored \in Nat /\ reads \in Nat
  BY ServeAssumption DEF TypeOK, Sent, Waiting, States, NoState, Retained

(* Two requests or messages of a kind are equal only with equal numbers,   *)
(* and a state is no other request.                                        *)
LEMMA NumbersTell ==
  /\ \A m, n \in States : StateReq(m) = StateReq(n) => m = n
  /\ \A m, n \in States : ReadMsg(m) = ReadMsg(n) => m = n
  /\ \A n \in States : StateReq(n) # PersistStep
<1>1. \A n \in States : StateReq(n).n = n /\ ReadMsg(n).n = n /\ StateReq(n).kind = "state"
  BY DEF StateReq, ReadMsg
<1>2. PersistStep.kind = "persist"
  BY DEF PersistStep
<1> QED
  BY <1>1, <1>2

-----------------------------------------------------------------------------
(* Where nothing new is sent and the loop does nothing, the order stays. *)
LEMMA Quiet ==
  ASSUME TypeOK, OrderInv, Sent' \subseteq Sent \cup {NoState},
         UNCHANGED <<up, current, stored, todo, inbox, unsaved, reads>>,
         ~up => link' = "down"
  PROVE  OrderInv'
<1> USE Numbers
<1>1. \A n \in Nat : NoState < n /\ NoState <= n
  BY DEF NoState
<1>2. Waiting' = Waiting /\ (BeforePersist' <=> BeforePersist)
  BY DEF Waiting, BeforePersist
<1>3. HandlerForm'
  BY <1>1, <1>2 DEF OrderInv, HandlerForm
<1>4. ReadingsOrdered'
  BY <1>1, <1>2 DEF OrderInv, ReadingsOrdered
<1>5. KnownOrdered'
  BY <1>1 DEF OrderInv, KnownOrdered
<1>6. Offline'
  BY DEF OrderInv, Offline
<1>7. Settled'
  BY <1>1, <1>2 DEF OrderInv, Settled
<1> QED
  BY <1>3, <1>4, <1>5, <1>6, <1>7 DEF OrderInv

(* A request that is sent moves a state on, to the broker and the device. *)
LEMMA SendingMoves ==
  ASSUME TypeOK, SendRequest
  PROVE  Sent' \subseteq Sent
<1>1. /\ Head(chan) = chan[1] /\ 1 \in DOMAIN chan
      /\ \A i \in DOMAIN chan' : i + 1 \in DOMAIN chan /\ chan'[i] = chan[i + 1]
  BY HeadTailProperties DEF SendRequest, TypeOK
<1>2. Head(chan) \in Requests
  BY <1>1 DEF TypeOK
<1>3. \A r \in Requests : r.kind = "state" => r.n \in States /\ r = StateReq(r.n)
  BY RequestKinds
<1>4. Head(chan).kind = "state" => Head(chan).n \in Sent
  BY <1>1, <1>2, <1>3 DEF Sent
<1>5. broker'.retained.state \in Sent
  <2>1. \/ broker'.retained.state = broker.retained.state
        \/ Head(chan).kind = "state" /\ broker'.retained.state = Head(chan).n
    BY DEF SendRequest, BrokerAfter, TypeOK, Retained
  <2> QED
    BY <2>1, <1>4 DEF Sent
<1>6. dev'.state \in Sent
  <2>1. \/ dev'.state = dev.state
        \/ Head(chan).kind = "state" /\ dev'.state = Head(chan).n
    BY DEF SendRequest, DeviceAfter, TypeOK
  <2> QED
    BY <2>1, <1>4 DEF Sent
<1> QED
  BY <1>1, <1>5, <1>6 DEF Sent

(* A message that arrives is the newest, if it is a reading. *)
LEMMA ArrivalOrdered ==
  ASSUME TypeOK, ReadingsOrdered, NEW topic, NEW m \in Messages, Forward(topic, m),
         UNCHANGED current, Sent' \subseteq Sent,
         reads <= reads', reads' \in Nat,
         \A n \in States : m = ReadMsg(n) =>
           /\ n = reads' /\ current < n
           /\ \A p \in Sent : p < n
           /\ \A w \in Waiting : w < n
  PROVE  ReadingsOrdered'
<1> USE Numbers
<1>1. CASE inbox' = inbox
  <2>1. Waiting' = Waiting
    BY <1>1 DEF Waiting
  <2> QED
    BY <1>1, <2>1 DEF ReadingsOrdered
<1>2. CASE inbox' = Append(inbox, m)
  <2>1. /\ DOMAIN inbox = 1..Len(inbox) /\ DOMAIN inbox' = 1..(Len(inbox) + 1)
        /\ Len(inbox) \in Nat
        /\ \A i \in DOMAIN inbox : inbox'[i] = inbox[i]
        /\ inbox'[Len(inbox) + 1] = m
    BY <1>2, AppendProperties, LenProperties DEF TypeOK
  <2>2. \A n \in Waiting' : n \in Waiting \/ (m = ReadMsg(n) /\ n \in States)
    BY <2>1 DEF Waiting
  <2>3. \A n \in Waiting' : current' < n /\ n <= reads' /\ \A p \in Sent' : p < n
    BY <2>2 DEF ReadingsOrdered
  <2>4. ASSUME NEW i \in DOMAIN inbox', NEW j \in DOMAIN inbox', NEW k \in States,
               NEW n \in States, i < j, inbox'[i] = ReadMsg(k), inbox'[j] = ReadMsg(n)
        PROVE  k < n
    <3>1. i \in DOMAIN inbox /\ inbox[i] = ReadMsg(k)
      BY <2>1, <2>4
    <3>2. CASE j \in DOMAIN inbox
      BY <2>1, <2>4, <3>1, <3>2 DEF ReadingsOrdered
    <3>3. CASE j = Len(inbox) + 1
      <4>1. k \in Waiting
        BY <3>1 DEF Waiting
      <4> QED
        BY <2>1, <2>4, <3>3, <4>1
    <3> QED
      BY <2>1, <3>2, <3>3
  <2> QED
    BY <2>3, <2>4 DEF ReadingsOrdered
<1> QED
  BY <1>1, <1>2 DEF Forward

(* Part of what waits is ordered as the whole was. *)
LEMMA PartOrdered ==
  ASSUME TypeOK, ReadingsOrdered, NEW d \in Nat,
         \A i \in DOMAIN inbox' : i + d \in DOMAIN inbox /\ inbox'[i] = inbox[i + d],
         DOMAIN inbox' \subseteq Nat
  PROVE  /\ Waiting' \subseteq Waiting
         /\ \A i, j \in DOMAIN inbox' : \A m, n \in States :
              i < j /\ inbox'[i] = ReadMsg(m) /\ inbox'[j] = ReadMsg(n) => m < n
<1>1. Waiting' \subseteq Waiting
  BY DEF Waiting
<1>2. ASSUME NEW i \in DOMAIN inbox', NEW j \in DOMAIN inbox', NEW m \in States,
             NEW n \in States, i < j, inbox'[i] = ReadMsg(m), inbox'[j] = ReadMsg(n)
      PROVE  m < n
  <2>1. i + d < j + d
    BY <1>2
  <2> QED
    BY <1>2, <2>1 DEF ReadingsOrdered
<1> QED
  BY <1>1, <1>2

(* The handlers that publish no new state. *)
LEMMA SeedForm ==
  ASSUME NEW c \in States
  PROVE  \A i \in DOMAIN SeedSteps(c) :
           /\ SeedSteps(c)[i] # PersistStep
           /\ \A n \in States : SeedSteps(c)[i] = StateReq(n) => n = c
<1> DEFINE a == <<VersionReq(FwCfg), RadarReq, StateReq(c)>>
           b == [i \in 1..3 |-> SubReq(DeviceTopics[i])]
<1>1. \A i \in DOMAIN SeedSteps(c) :
        \/ SeedSteps(c)[i] \in {VersionReq(FwCfg), RadarReq, StateReq(c)}
        \/ \E t : SeedSteps(c)[i] = SubReq(t)
  <2>1. a \in Seq({VersionReq(FwCfg), RadarReq, StateReq(c)}) /\ Len(a) = 3
    OBVIOUS
  <2>2. b \in Seq({SubReq(DeviceTopics[i]) : i \in 1..3}) /\ Len(b) = 3
    OBVIOUS
  <2>3. a \o b \in Seq({VersionReq(FwCfg), RadarReq, StateReq(c)}
                         \cup {SubReq(DeviceTopics[i]) : i \in 1..3})
    BY <2>1, <2>2, ConcatProperties
  <2>4. SeedSteps(c) = a \o b
    BY DEF SeedSteps
  <2> HIDE DEF a, b
  <2>5. \A i \in DOMAIN SeedSteps(c) :
          SeedSteps(c)[i] \in {VersionReq(FwCfg), RadarReq, StateReq(c)}
                                \cup {SubReq(DeviceTopics[j]) : j \in 1..3}
    BY <2>3, <2>4
  <2> QED
    BY <2>5
<1>2. \A fw : VersionReq(fw) # PersistStep /\ \A n : VersionReq(fw) # StateReq(n)
  <2>1. \A fw : VersionReq(fw).kind = "version"
    BY DEF VersionReq
  <2>2. \A n : StateReq(n).kind = "state"
    BY DEF StateReq
  <2>3. PersistStep.kind = "persist"
    BY DEF PersistStep
  <2> QED
    BY <2>1, <2>2, <2>3
<1>3. \A t : SubReq(t) # PersistStep /\ \A n : SubReq(t) # StateReq(n)
  <2>1. \A t : SubReq(t).kind = "sub"
    BY DEF SubReq
  <2>2. \A n : StateReq(n).kind = "state"
    BY DEF StateReq
  <2>3. PersistStep.kind = "persist"
    BY DEF PersistStep
  <2> QED
    BY <2>1, <2>2, <2>3
<1>4. RadarReq # PersistStep /\ \A n : RadarReq # StateReq(n)
  <2>1. \A n : StateReq(n).kind = "state"
    BY DEF StateReq
  <2> QED
    BY <2>1 DEF RadarReq, PersistStep
<1> QED
  BY <1>1, <1>2, <1>3, <1>4, NumbersTell

LEMMA LogForm ==
  ASSUME NEW f
  PROVE  \A i \in DOMAIN LogSteps(f) :
           /\ LogSteps(f)[i] # PersistStep
           /\ \A n : LogSteps(f)[i] # StateReq(n)
<1>1. \A fw : VersionReq(fw).kind = "version"
  BY DEF VersionReq
<1>2. \A n : StateReq(n).kind = "state"
  BY DEF StateReq
<1>3. PersistStep.kind = "persist"
  BY DEF PersistStep
<1>4. \A fw : VersionReq(fw) # PersistStep /\ \A n : VersionReq(fw) # StateReq(n)
  BY <1>1, <1>2, <1>3
<1>5. \/ LogSteps(f) = <<>>
      \/ LogSteps(f) = <<VersionReq(ParseFirmware(f))>>
  BY DEF LogSteps
<1> QED
  BY <1>4, <1>5

-----------------------------------------------------------------------------
LEMMA OrderInit == Init => OrderInv
<1> SUFFICES ASSUME Init PROVE OrderInv
  OBVIOUS
<1>1. todo = <<>> /\ inbox = <<>> /\ chan = <<>> /\ ~up /\ link = "down"
  BY DEF Init
<1>2. DOMAIN todo = {} /\ DOMAIN inbox = {} /\ DOMAIN chan = {}
  BY <1>1
<1>3. Sent = {NoState} /\ Waiting = {}
  BY <1>2 DEF Init, Sent, Waiting, NothingRetained
<1>4. current = 0 /\ stored = 0 /\ reads = 0
  BY DEF Init
<1>5. NoState <= 0
  BY DEF NoState
<1> QED
  BY <1>1, <1>2, <1>3, <1>4, <1>5
  DEF OrderInv, HandlerForm, ReadingsOrdered, KnownOrdered, Offline, Settled

LEMMA OrderStep == TypeOK /\ TypeOK' /\ OrderInv /\ [Next]_vars => OrderInv'
<1> SUFFICES ASSUME TypeOK, TypeOK', OrderInv, [Next]_vars PROVE OrderInv'
  OBVIOUS
<1> USE Numbers
<1>a. Waiting' \subseteq Nat /\ current' \in Nat /\ stored' \in Nat /\ reads' \in Nat
      /\ Sent' \subseteq Int
  <2>1. States \subseteq Nat
    BY DEF States
  <2>2. current' \in States /\ stored' \in States /\ reads' \in States
    BY DEF TypeOK
  <2>3. Waiting' \subseteq States
    BY DEF Waiting
  <2>4. broker'.retained.state \in States \cup {-1} /\ dev'.state \in States \cup {-1}
    BY DEF TypeOK, Retained, NoState
  <2>5. Sent' \subseteq States \cup {-1}
    BY <2>4 DEF Sent
  <2> QED
    BY <2>1, <2>2, <2>3, <2>5
<1>b. HandlerForm /\ ReadingsOrdered /\ KnownOrdered /\ Offline /\ Settled
  BY DEF OrderInv
<1>1. CASE Start
  <2>1. Sent' = Sent
    BY <1>1 DEF Start, Boot, Sent
  <2>2. /\ todo' = <<>> /\ DOMAIN todo' = {} /\ inbox' = <<>> /\ DOMAIN inbox' = {}
        /\ ~BeforePersist' /\ ~BeforePersist /\ Waiting' = {}
    BY <1>1, <1>b DEF Start, Boot, Offline, Waiting, BeforePersist
  <2> QED
    BY <2>1, <2>2, <1>1, <1>b
    DEF Start, Boot, OrderInv, HandlerForm, ReadingsOrdered, KnownOrdered, Offline, Settled
<1>18. CASE StartUnreadable
  <2>1. Sent' = Sent
    BY <1>18 DEF StartUnreadable, Boot, Sent
  <2>2. /\ todo' = <<>> /\ DOMAIN todo' = {} /\ inbox' = <<>> /\ DOMAIN inbox' = {}
        /\ Waiting' = {}
    BY <1>18, <1>b DEF StartUnreadable, Boot, Offline, Waiting
  <2>3. /\ current' = 0 /\ stored' \in {0, stored} /\ unsaved' /\ up' /\ reads' = reads
    BY <1>18 DEF StartUnreadable, Boot
  <2> QED
    BY <2>1, <2>2, <2>3, <1>b
    DEF OrderInv, HandlerForm, ReadingsOrdered, KnownOrdered, Offline, Settled
<1>2. CASE PingTick
  <2>1. Sent' \subseteq Sent
    <3>1. /\ DOMAIN chan' = 1..(Len(chan) + 1) /\ DOMAIN chan = 1..Len(chan)
          /\ \A i \in DOMAIN chan : chan'[i] = chan[i]
          /\ chan'[Len(chan) + 1] = PingReq
      BY <1>2, AppendProperties, LenProperties DEF PingTick, TypeOK
    <3>2. \A n \in States : PingReq # StateReq(n)
      <4>1. PingReq.kind = "ping" /\ \A n \in States : StateReq(n).kind = "state"
        BY DEF PingReq, StateReq
      <4> QED
        BY <4>1
    <3> QED
      BY <3>1, <3>2, <1>2 DEF PingTick, Sent
  <2> QED
    BY <2>1, <1>2, Quiet DEF PingTick
<1>3. CASE ConnAck
  <2>1. Sent' = Sent /\ Waiting' = Waiting
    BY <1>3 DEF ConnAck, Sent, Waiting
  <2>2. todo = <<>> /\ ~BeforePersist
    BY <1>3 DEF ConnAck, Polling, BeforePersist
  <2>3. current \in States /\ todo' = SeedSteps(current) /\ current' = current
    BY <1>3 DEF ConnAck, TypeOK
  <2>4. HandlerForm'
    BY <2>3, SeedForm DEF HandlerForm
  <2>5. ReadingsOrdered' /\ KnownOrdered' /\ Offline' /\ Settled'
    BY <2>1, <2>2, <1>3, <1>b
    DEF ConnAck, Polling, ReadingsOrdered, KnownOrdered, Offline, Settled
  <2> QED
    BY <2>4, <2>5 DEF OrderInv
<1>4. CASE Enqueue
  <2>1. /\ Head(todo) = todo[1] /\ 1 \in DOMAIN todo
        /\ \A i \in DOMAIN todo' : i + 1 \in DOMAIN todo /\ todo'[i] = todo[i + 1]
    BY <1>4, HeadTailProperties DEF Enqueue, TypeOK
  <2>2. ~BeforePersist
    BY <1>4 DEF Enqueue, BeforePersist
  <2>3. \A i \in DOMAIN todo : /\ todo[i] # PersistStep
                               /\ \A n \in States : todo[i] = StateReq(n) => n = current
    BY <2>2, <1>b DEF HandlerForm
  <2>4. Sent' \subseteq Sent \cup {current}
    <3>1. /\ DOMAIN chan' = 1..(Len(chan) + 1) /\ DOMAIN chan = 1..Len(chan)
          /\ \A i \in DOMAIN chan : chan'[i] = chan[i]
          /\ chan'[Len(chan) + 1] = todo[1]
      <4>1. Head(todo) \in Requests
        BY <2>1, <2>3 DEF TypeOK
      <4> QED
        BY <4>1, <2>1, <1>4, AppendProperties, LenProperties DEF Enqueue, TypeOK
    <3> QED
      BY <3>1, <2>1, <2>3, <1>4 DEF Enqueue, Sent
  <2>5. Waiting' = Waiting /\ UNCHANGED <<up, current, stored, link, inbox, unsaved, reads>>
    BY <1>4 DEF Enqueue, Waiting
  <2>6. \A i \in DOMAIN todo' :
          /\ todo'[i] # PersistStep
          /\ \A n \in States : todo'[i] = StateReq(n) => n = current'
    BY <2>1, <2>3, <2>5
  <2>7. up
    BY <1>4 DEF Enqueue
  <2>8. ReadingsOrdered'
    BY <2>4, <2>5, <1>b DEF ReadingsOrdered
  <2>9. KnownOrdered' /\ Settled' /\ Offline'
    BY <2>2, <2>4, <2>5, <2>7, <1>b DEF KnownOrdered, Settled, Offline
  <2> QED
    BY <2>6, <2>8, <2>9 DEF OrderInv, HandlerForm
<1>5. CASE Persist
  <2>1. BeforePersist
    <3>1. todo # <<>> /\ Head(todo) = PersistStep
      BY <1>5 DEF Persist
    <3>2. 1 \in DOMAIN todo /\ todo[1] = PersistStep
      BY <3>1, HeadTailProperties DEF TypeOK
    <3> QED
      BY <3>2, <1>b DEF HandlerForm
  <2>2. todo' = <<StateReq(current)>> /\ current' = current
    BY <2>1, <1>5 DEF Persist, BeforePersist
  <2>3. Sent' = Sent /\ Waiting' = Waiting
    BY <1>5 DEF Persist, Sent, Waiting
  <2>4. 1 \in DOMAIN todo /\ todo[1] = PersistStep
    BY <2>1 DEF BeforePersist
  <2>5. \A p \in Sent : p <= current
    BY <2>4, <1>b DEF HandlerForm
  <2>6. HandlerForm'
    <3>1. current \in States
      BY DEF TypeOK
    <3>2. DOMAIN todo' = {1} /\ todo'[1] = StateReq(current)
      BY <2>2
    <3> QED
      BY <3>1, <3>2, <2>2, NumbersTell DEF HandlerForm
  <2>7. ReadingsOrdered' /\ KnownOrdered' /\ Offline'
    BY <2>2, <2>3, <1>5, <1>b DEF Persist, ReadingsOrdered, KnownOrdered, Offline
  <2>8. Settled'
    BY <2>2, <2>3, <2>5, <1>5 DEF Persist, Settled
  <2> QED
    BY <2>6, <2>7, <2>8 DEF OrderInv
<1>6. CASE SendRequest
  <2>1. Sent' \subseteq Sent
    BY <1>6, SendingMoves
  <2>2. /\ UNCHANGED <<up, current, stored, todo, inbox, unsaved, reads>>
        /\ ~up => link' = "down"
    BY <1>6 DEF SendRequest, Polling
  <2> QED
    BY <2>1, <2>2, Quiet
<1>7. CASE HandleRead
  <2>1. /\ Head(inbox) = inbox[1] /\ 1 \in DOMAIN inbox
        /\ \A i \in DOMAIN inbox' : i + 1 \in DOMAIN inbox /\ inbox'[i] = inbox[i + 1]
        /\ DOMAIN inbox' \subseteq Nat \ {0}
    BY <1>7, HeadTailProperties, LenProperties DEF HandleRead, TypeOK
  <2>2. PICK n \in States : inbox[1] = ReadMsg(n) /\ current' = n
    <3>1. inbox[1] \in Messages /\ inbox[1].kind = "read"
      BY <2>1, <1>7 DEF HandleRead, TypeOK
    <3>2. \A f : LogMsg(f).kind = "log"
      BY DEF LogMsg
    <3>3. \E n \in States : inbox[1] = ReadMsg(n)
      BY <3>1, <3>2 DEF Messages
    <3>4. \A n : ReadMsg(n).n = n
      BY DEF ReadMsg
    <3> QED
      BY <3>3, <3>4, <2>1, <1>7 DEF HandleRead
  <2>3. n \in Waiting /\ current < n /\ n <= reads /\ \A p \in Sent : p < n
    BY <2>1, <2>2, <1>b DEF Waiting, ReadingsOrdered
  <2>4. Sent' = Sent
    BY <1>7 DEF HandleRead, Sent
  <2>5. /\ Waiting' \subseteq Waiting
        /\ \A i, j \in DOMAIN inbox' : \A k, l \in States :
             i < j /\ inbox'[i] = ReadMsg(k) /\ inbox'[j] = ReadMsg(l) => k < l
    BY <2>1, <1>b, PartOrdered
  <2>6. ASSUME NEW w \in Waiting' PROVE n < w
    <3>1. PICK i \in DOMAIN inbox' : inbox'[i] = ReadMsg(w) /\ w \in States
      BY DEF Waiting
    <3>2. 1 < i + 1 /\ i + 1 \in DOMAIN inbox /\ inbox[i + 1] = ReadMsg(w)
      BY <3>1, <2>1
    <3> QED
      BY <3>1, <3>2, <2>1, <2>2, <1>b DEF ReadingsOrdered
  <2>7. BeforePersist'
    BY <1>7 DEF HandleRead, BeforePersist, ReadSteps
  <2>8. UNCHANGED <<up, stored, unsaved, reads>> /\ up
    BY <1>7 DEF HandleRead, Polling
  <2>9. HandlerForm'
    BY <2>2, <2>3, <2>4, <2>7 DEF HandlerForm
  <2>10. ReadingsOrdered'
    BY <2>2, <2>3, <2>4, <2>5, <2>6, <2>8, <1>b DEF ReadingsOrdered
  <2>11. KnownOrdered' /\ Offline' /\ Settled'
    BY <2>2, <2>3, <2>4, <2>7, <2>8, <1>b DEF KnownOrdered, Offline, Settled
  <2> QED
    BY <2>9, <2>10, <2>11 DEF OrderInv
<1>8. CASE HandleLog
  <2>1. /\ \A i \in DOMAIN inbox' : i + 1 \in DOMAIN inbox /\ inbox'[i] = inbox[i + 1]
        /\ DOMAIN inbox' \subseteq Nat
    BY <1>8, HeadTailProperties, LenProperties DEF HandleLog, TypeOK
  <2>2. /\ Waiting' \subseteq Waiting
        /\ \A i, j \in DOMAIN inbox' : \A k, l \in States :
             i < j /\ inbox'[i] = ReadMsg(k) /\ inbox'[j] = ReadMsg(l) => k < l
    BY <2>1, <1>b, PartOrdered
  <2>3. Sent' = Sent /\ UNCHANGED <<up, current, stored, unsaved, reads>> /\ up
    BY <1>8 DEF HandleLog, Sent, Polling
  <2>4. ~BeforePersist
    BY <1>8 DEF HandleLog, Polling, BeforePersist
  <2>5. HandlerForm'
    BY <1>8, LogForm DEF HandleLog, HandlerForm
  <2>6. ReadingsOrdered'
    BY <2>2, <2>3, <1>b DEF ReadingsOrdered
  <2>7. KnownOrdered' /\ Offline' /\ Settled'
    BY <2>3, <2>4, <1>b DEF KnownOrdered, Offline, Settled
  <2> QED
    BY <2>5, <2>6, <2>7 DEF OrderInv
<1>9. CASE ConnLost
  <2>1. PICK k \in 0..Len(inbox) : inbox' = SubSeq(inbox, 1, k)
    BY <1>9 DEF ConnLost
  <2>2. /\ \A i \in DOMAIN inbox' : i + 0 \in DOMAIN inbox /\ inbox'[i] = inbox[i + 0]
        /\ DOMAIN inbox' \subseteq Nat
    <3>1. /\ inbox \in Seq(Messages) /\ Len(inbox) \in Nat /\ DOMAIN inbox = 1..Len(inbox)
          /\ 1 \in 1..(Len(inbox) + 1) /\ k \in 0..Len(inbox)
      BY LenProperties DEF TypeOK
    <3>2. /\ DOMAIN inbox' = 1..k /\ \A i \in 1..k : inbox'[i] = inbox[i]
      BY <2>1, <3>1, SubSeqProperties
    <3> QED
      BY <3>1, <3>2
  <2>3. /\ Waiting' \subseteq Waiting
        /\ \A i, j \in DOMAIN inbox' : \A m, n \in States :
             i < j /\ inbox'[i] = ReadMsg(m) /\ inbox'[j] = ReadMsg(n) => m < n
    BY <2>2, <1>b, PartOrdered
  <2>4. Sent' \subseteq Sent /\ up /\ UNCHANGED <<up, current, stored, todo, unsaved, reads>>
    BY <1>9 DEF ConnLost, Sent, Polling
  <2>5. BeforePersist' <=> BeforePersist
    BY <2>4 DEF BeforePersist
  <2>6. HandlerForm'
    BY <2>4, <2>5, <1>b DEF HandlerForm
  <2>7. ReadingsOrdered'
    BY <2>3, <2>4, <1>b DEF ReadingsOrdered
  <2>8. KnownOrdered' /\ Offline' /\ Settled'
    BY <2>4, <2>5, <1>b DEF KnownOrdered, Offline, Settled
  <2> QED
    BY <2>6, <2>7, <2>8 DEF OrderInv
<1>10. CASE Crash
  <2>1. Sent' \subseteq Sent \cup {NoState}
    BY <1>10 DEF Crash, Sent, Stopped, NothingRetained, TypeOK, Retained
  <2>2. /\ todo' = <<>> /\ DOMAIN todo' = {} /\ inbox' = <<>> /\ DOMAIN inbox' = {}
        /\ Waiting' = {}
    BY <1>10 DEF Crash, Waiting
  <2>3. \A n \in Nat : NoState <= n
    BY DEF NoState
  <2>4. ~up' /\ link' = "down" /\ UNCHANGED <<current, stored, unsaved, reads>>
    BY <1>10 DEF Crash
  <2>5. HandlerForm' /\ ReadingsOrdered' /\ Offline'
    BY <2>2, <2>4 DEF HandlerForm, ReadingsOrdered, Offline
  <2>6. KnownOrdered' /\ Settled'
    BY <2>1, <2>3, <2>4, <1>b DEF KnownOrdered, Settled
  <2> QED
    BY <2>5, <2>6 DEF OrderInv
<1>11. CASE Disconnect
  <2>1. Sent' = Sent
    BY <1>11 DEF Disconnect, Sent, TypeOK
  <2>2. /\ UNCHANGED <<up, current, stored, todo, inbox, unsaved, reads>>
        /\ ~up => link' = "down"
    BY <1>11, <1>b DEF Disconnect, Offline
  <2> QED
    BY <2>1, <2>2, Quiet
<1>12. CASE BrokerStop
  <2>1. Sent' \subseteq Sent \cup {NoState}
    BY <1>12 DEF BrokerStop, Sent, Stopped, NothingRetained, TypeOK, Retained
  <2>2. /\ UNCHANGED <<up, current, stored, todo, inbox, unsaved, reads>>
        /\ ~up => link' = "down"
    BY <1>12, <1>b DEF BrokerStop, Broken, Offline
  <2> QED
    BY <2>1, <2>2, Quiet
<1>13. CASE BrokerStart
  <2>1. Sent' = Sent
    BY <1>13 DEF BrokerStart, Sent, server, TypeOK
  <2>2. /\ UNCHANGED <<up, current, stored, todo, inbox, unsaved, reads>>
        /\ ~up => link' = "down"
    BY <1>13, <1>b DEF BrokerStart, server, Offline
  <2> QED
    BY <2>1, <2>2, Quiet
<1>14. CASE DeviceConnect
  <2>1. Sent' \subseteq Sent
    BY <1>14 DEF DeviceConnect, Sent
  <2>2. PICK f \in LogFormats : Forward("log", LogMsg(f))
    BY <1>14 DEF DeviceConnect
  <2>3. UNCHANGED <<up, current, stored, todo, link, unsaved, reads>>
    BY <1>14 DEF DeviceConnect
  <2>4. \A n : LogMsg(f) # ReadMsg(n)
    <3>1. LogMsg(f).kind = "log" /\ \A n : ReadMsg(n).kind = "read"
      BY DEF LogMsg, ReadMsg
    <3> QED
      BY <3>1
  <2>5. ReadingsOrdered'
    <3>1. LogMsg(f) \in Messages
      BY MessageKinds
    <3> QED
      BY <2>1, <2>2, <2>3, <2>4, <3>1, <1>b, ArrivalOrdered
  <2>6. BeforePersist' <=> BeforePersist
    BY <2>3 DEF BeforePersist
  <2>7. HandlerForm'
    BY <2>1, <2>3, <2>6, <1>b DEF HandlerForm
  <2>8. Offline'
    BY <2>2, <2>3, <1>b DEF Offline, Forward
  <2>9. KnownOrdered' /\ Settled'
    BY <2>1, <2>3, <2>6, <1>b DEF KnownOrdered, Settled
  <2> QED
    BY <2>5, <2>7, <2>8, <2>9 DEF OrderInv
<1>15. CASE DeviceDrop
  <2>1. Sent' = Sent
    BY <1>15 DEF DeviceDrop, Sent, server, TypeOK
  <2>2. /\ UNCHANGED <<up, current, stored, todo, inbox, unsaved, reads>>
        /\ ~up => link' = "down"
    BY <1>15, <1>b DEF DeviceDrop, server, Offline
  <2> QED
    BY <2>1, <2>2, Quiet
<1>16. CASE DeviceRead
  <2>1. Sent' = Sent /\ reads' = reads + 1 /\ Forward("read", ReadMsg(reads + 1))
    BY <1>16 DEF DeviceRead, Sent
  <2>2. UNCHANGED <<up, current, stored, todo, link, unsaved>>
    BY <1>16 DEF DeviceRead
  <2>3. reads + 1 \in States /\ ReadMsg(reads + 1) \in Messages
    BY <2>1, MessageKinds DEF TypeOK
  <2>4. ASSUME NEW n \in States, ReadMsg(reads + 1) = ReadMsg(n)
        PROVE  /\ n = reads' /\ current < n
               /\ \A p \in Sent : p < n
               /\ \A w \in Waiting : w < n
    <3>1. n = reads + 1
      BY <2>3, <2>4, NumbersTell
    <3> QED
      BY <3>1, <2>1, <1>b DEF KnownOrdered, ReadingsOrdered
  <2>5. ReadingsOrdered'
    BY <2>1, <2>2, <2>3, <2>4, <1>b, ArrivalOrdered
  <2>6. BeforePersist' <=> BeforePersist
    BY <2>2 DEF BeforePersist
  <2>7. HandlerForm'
    BY <2>1, <2>2, <2>6, <1>b DEF HandlerForm
  <2>8. Offline'
    BY <2>1, <2>2, <1>b DEF Offline, Forward
  <2>9. KnownOrdered' /\ Settled'
    BY <2>1, <2>2, <2>6, <1>b DEF KnownOrdered, Settled
  <2> QED
    BY <2>5, <2>7, <2>8, <2>9 DEF OrderInv
<1>17. CASE UNCHANGED vars
  <2>1. Sent' = Sent
    BY <1>17 DEF vars, server, Sent
  <2>2. /\ UNCHANGED <<up, current, stored, todo, inbox, unsaved, reads>>
        /\ ~up => link' = "down"
    BY <1>17, <1>b DEF vars, server, Offline
  <2> QED
    BY <2>1, <2>2, Quiet
<1> QED
  BY <1>1, <1>2, <1>3, <1>4, <1>5, <1>6, <1>7, <1>8, <1>9, <1>10, <1>11, <1>12, <1>13,
     <1>14, <1>15, <1>16, <1>17, <1>18 DEF Next, ServerStep

(* server.rs:303-327, 5-9: whatever crashes, breaks or is replayed, no     *)
(* state that left the loop is newer than the file, unless the last        *)
(* persist failed.                                                         *)
THEOREM PublishedIsAlwaysStored == Spec => []PublishedIsStored
<1>1. OrderInv => PublishedIsStored
  <2> SUFFICES ASSUME OrderInv, ~unsaved PROVE PublishedIsStored
    BY DEF PublishedIsStored
  <2>1. \A p \in Sent : p <= stored
    BY DEF OrderInv, Settled
  <2>2. \A r \in Published : r.n \in Sent
    BY DEF Published, Sent, StateReq
  <2> QED
    BY <2>1, <2>2 DEF PublishedIsStored, Sent
<1> QED
  BY <1>1, OrderInit, OrderStep, TypeCorrect, PTL DEF Spec

-----------------------------------------------------------------------------
(* How full the channel can be: counting the pings in a queue. *)
PingsIn(q) == {i \in DOMAIN q : q[i] = PingReq}

LEMMA PingsCounted ==
  ASSUME NEW q \in Seq(Requests)
  PROVE  IsFiniteSet(PingsIn(q)) /\ Cardinality(PingsIn(q)) \in Nat
<1>1. Len(q) \in Nat /\ DOMAIN q = 1..Len(q)
  BY LenProperties
<1>2. IsFiniteSet(1..Len(q))
  BY <1>1, FS_Interval
<1>3. PingsIn(q) \in SUBSET (1..Len(q))
  BY <1>1 DEF PingsIn
<1>4. IsFiniteSet(PingsIn(q))
  BY <1>2, <1>3, FS_Subset
<1> QED
  BY <1>4, FS_CardinalityType

(* A request that joins the queue is one ping more if it is one. *)
LEMMA PingsAppend ==
  ASSUME NEW q \in Seq(Requests), NEW r \in Requests
  PROVE  Cardinality(PingsIn(Append(q, r)))
           = Cardinality(PingsIn(q)) + (IF r = PingReq THEN 1 ELSE 0)
<1> DEFINE n == Len(q) + 1
           a == Append(q, r)
<1>1. /\ n \in Nat /\ DOMAIN q = 1..Len(q) /\ n \notin DOMAIN q
      /\ DOMAIN a = DOMAIN q \cup {n} /\ a[n] = r
      /\ \A i \in DOMAIN q : a[i] = q[i]
  BY AppendProperties, LenProperties
<1> HIDE DEF a, n
<1>2. PingsIn(a) = IF r = PingReq THEN PingsIn(q) \cup {n} ELSE PingsIn(q)
  BY <1>1 DEF PingsIn
<1>3. n \notin PingsIn(q)
  BY <1>1 DEF PingsIn
<1>4. Cardinality(PingsIn(q) \cup {n}) = Cardinality(PingsIn(q)) + 1
  BY <1>3, PingsCounted, FS_AddElement
<1>5. Cardinality(PingsIn(q)) \in Nat
  BY PingsCounted
<1> QED
  BY <1>2, <1>4, <1>5 DEF a

(* The request that leaves it is one ping less if it is one. *)
LEMMA PingsTail ==
  ASSUME NEW q \in Seq(Requests), q # <<>>
  PROVE  Cardinality(PingsIn(Tail(q)))
           = Cardinality(PingsIn(q)) - (IF Head(q) = PingReq THEN 1 ELSE 0)
<1> DEFINE t == Tail(q)
           S == PingsIn(q) \ {1}
           T == PingsIn(t)
           f == [i \in S |-> i - 1]
<1>1. /\ Len(q) \in Nat \ {0} /\ DOMAIN q = 1..Len(q) /\ DOMAIN t = 1..(Len(q) - 1)
      /\ \A i \in 1..(Len(q) - 1) : t[i] = q[i + 1]
      /\ Head(q) = q[1]
  BY HeadTailProperties, LenProperties
<1>2. S = {i \in 2..Len(q) : q[i] = PingReq} /\ T = {i \in 1..(Len(q) - 1) : t[i] = PingReq}
  BY <1>1 DEF PingsIn
<1>3. f \in [S -> T]
  <2>1. ASSUME NEW i \in S PROVE i - 1 \in T
    <3>1. i \in 2..Len(q) /\ q[i] = PingReq
      BY <1>2
    <3>2. i - 1 \in 1..(Len(q) - 1) /\ (i - 1) + 1 = i
      BY <1>1, <3>1
    <3>3. t[i - 1] = q[i]
      BY <1>1, <3>2
    <3> QED
      BY <1>2, <3>1, <3>2, <3>3
  <2> QED
    BY <2>1
<1>4. \A i, j \in S : f[i] = f[j] => i = j
  BY <1>1, <1>2
<1>5. ASSUME NEW k \in T PROVE \E i \in S : f[i] = k
  <2>1. k + 1 \in S /\ f[k + 1] = k
    BY <1>1, <1>2
  <2> QED
    BY <2>1
<1>6. IsFiniteSet(PingsIn(q)) /\ Cardinality(PingsIn(q)) \in Nat
  BY PingsCounted
<1>7. /\ IsFiniteSet(S)
      /\ Cardinality(S) = Cardinality(PingsIn(q)) - (IF Head(q) = PingReq THEN 1 ELSE 0)
  <2>1. 1 \in PingsIn(q) <=> Head(q) = PingReq
    BY <1>1 DEF PingsIn
  <2> QED
    BY <1>6, <2>1, FS_RemoveElement
<1> HIDE DEF S, T, f
<1>8. ExistsBijection(S, T)
  <2>1. f \in Bijection(S, T)
    BY <1>3, <1>4, <1>5, Fun_IsBij
  <2> QED
    BY <2>1, Fun_ExistsBij
<1> QED
  BY <1>7, <1>8, FS_Bijection DEF T

(* The requests that wait besides the pings, and those that the running    *)
(* handler has still to make.                                              *)
Load(q) == Len(q) - Cardinality(PingsIn(q))
Due(q) == IF q # <<>> /\ Head(q) = PersistStep THEN Len(q) - 1 ELSE Len(q)

(* A handler calls persist first if at all, and sends no ping. *)
PersistFirst == /\ \A i \in DOMAIN todo : todo[i] # PingReq
                /\ \A i \in 2..Len(todo) : todo[i] # PersistStep

(* poll takes a publish in only while fewer than `most` requests wait: it  *)
(* does not starve the channel, from which it could send instead.          *)
Prompt(most) == HandleRead \/ HandleLog => Load(chan) < most

(* A session starts with the six requests of the seed; a publish adds one  *)
(* to fewer than `most`.                                                   *)
RoomInv(most) ==
  /\ Cardinality(PingsIn(chan)) <= MaxPings
  /\ PersistFirst
  /\ IF link = "down" THEN todo = <<>> /\ Load(chan) = 0
     ELSE Load(chan) + Due(todo) <= most

LEMMA RoomNumbers ==
  ASSUME TypeOK
  PROVE  /\ Load(chan) \in Int /\ Due(todo) \in Int
         /\ Len(chan) \in Nat /\ Len(todo) \in Nat
         /\ Cardinality(PingsIn(chan)) \in Nat
         /\ MaxPings \in Nat /\ ChanCap \in Nat
<1>1. chan \in Seq(Requests) /\ todo \in Seq(Requests \cup {PersistStep})
  BY DEF TypeOK
<1>2. Len(chan) \in Nat /\ Len(todo) \in Nat
  BY <1>1, LenProperties
<1>3. Cardinality(PingsIn(chan)) \in Nat
  BY <1>1, PingsCounted
<1>4. {MaxPings, ChanCap} \subseteq Nat
  BY ServeAssumption
<1> QED
  BY <1>1, <1>2, <1>3, <1>4 DEF Load, Due

(* The handlers call persist first, send no ping, and make as many         *)
(* requests as the bounds count.                                           *)
LEMMA HandlersFit ==
  /\ \A n : /\ Len(SeedSteps(n)) = 6
            /\ \A i \in 1..6 : SeedSteps(n)[i] \notin {PingReq, PersistStep}
  /\ \A n : /\ Len(ReadSteps(n)) = 2 /\ Head(ReadSteps(n)) = PersistStep
            /\ ReadSteps(n)[1] # PingReq /\ ReadSteps(n)[2] \notin {PingReq, PersistStep}
  /\ \A f : /\ Len(LogSteps(f)) \in {0, 1}
            /\ \A i \in 1..Len(LogSteps(f)) : LogSteps(f)[i] \notin {PingReq, PersistStep}
<1>1. /\ \A t : SubReq(t) \notin {PingReq, PersistStep}
      /\ \A n : StateReq(n) \notin {PingReq, PersistStep}
      /\ \A fw : VersionReq(fw) \notin {PingReq, PersistStep}
      /\ RadarReq \notin {PingReq, PersistStep} /\ PersistStep # PingReq
  <2>1. /\ \A t : SubReq(t).kind = "sub"
        /\ \A n : StateReq(n).kind = "state"
        /\ \A fw : VersionReq(fw).kind = "version"
        /\ PingReq.kind = "ping" /\ PersistStep.kind = "persist" /\ RadarReq.kind = "radarParams"
    BY DEF SubReq, StateReq, VersionReq, PingReq, PersistStep, RadarReq
  <2> QED
    BY <2>1
<1>2. ASSUME NEW n
      PROVE  /\ Len(SeedSteps(n)) = 6
             /\ \A i \in 1..6 : SeedSteps(n)[i] \notin {PingReq, PersistStep}
  <2> DEFINE a == <<VersionReq(FwCfg), RadarReq, StateReq(n)>>
             b == [i \in 1..3 |-> SubReq(DeviceTopics[i])]
             R == {VersionReq(FwCfg), RadarReq, StateReq(n)} \cup {SubReq(DeviceTopics[i]) : i \in 1..3}
  <2>1. a \in Seq(R) /\ Len(a) = 3
    OBVIOUS
  <2>2. b \in Seq(R) /\ Len(b) = 3
    OBVIOUS
  <2>3. SeedSteps(n) = a \o b
    BY DEF SeedSteps
  <2>4. \A r \in R : r \notin {PingReq, PersistStep}
    BY <1>1
  <2> HIDE DEF a, b, R
  <2>5. a \o b \in Seq(R) /\ Len(a \o b) = Len(a) + Len(b)
    BY <2>1, <2>2, ConcatProperties
  <2>6. \A i \in 1..6 : (a \o b)[i] \in R
    BY <2>1, <2>2, <2>5
  <2>7. Len(a \o b) = 6
    BY <2>1, <2>2, <2>5
  <2> QED
    BY <2>3, <2>4, <2>6, <2>7
<1>3. ASSUME NEW n
      PROVE  /\ Len(ReadSteps(n)) = 2 /\ Head(ReadSteps(n)) = PersistStep
             /\ ReadSteps(n)[1] # PingReq /\ ReadSteps(n)[2] \notin {PingReq, PersistStep}
  BY <1>1 DEF ReadSteps
<1>4. ASSUME NEW f
      PROVE  /\ Len(LogSteps(f)) \in {0, 1}
             /\ \A i \in 1..Len(LogSteps(f)) : LogSteps(f)[i] \notin {PingReq, PersistStep}
  BY <1>1 DEF LogSteps
<1> QED
  BY <1>2, <1>3, <1>4

LEMMA RoomInit == ASSUME NEW most, Init PROVE RoomInv(most)
<1>1. todo = <<>> /\ chan = <<>> /\ link = "down"
  BY DEF Init
<1>2. Len(chan) = 0 /\ DOMAIN chan = {} /\ DOMAIN todo = {} /\ Len(todo) = 0
  BY <1>1
<1>3. PingsIn(chan) = {}
  BY <1>2 DEF PingsIn
<1>4. Cardinality(PingsIn(chan)) = 0
  BY <1>3, FS_EmptySet
<1>5. MaxPings \in Nat
  BY ServeAssumption
<1>6. PersistFirst
  BY <1>2 DEF PersistFirst
<1>7. Load(chan) = 0
  BY <1>1, <1>2, <1>4 DEF Load
<1> QED
  BY <1>1, <1>4, <1>5, <1>6, <1>7 DEF RoomInv

(* The handler that starts finds no other under way. *)
LEMMA HandlerFits ==
  ASSUME NEW most \in Nat, 6 <= most, TypeOK, RoomInv(most), Polling, UNCHANGED chan,
         link' # "down",
         \A i \in DOMAIN todo' : todo'[i] # PingReq,
         \A i \in 2..Len(todo') : todo'[i] # PersistStep,
         Due(todo') \in Int,
         IF link = "down" THEN Due(todo') <= 6 ELSE Load(chan) < most /\ Due(todo') <= 1
  PROVE  RoomInv(most)'
<1>0. Load(chan) \in Int /\ Len(chan) \in Nat /\ Cardinality(PingsIn(chan)) \in Nat
  BY RoomNumbers
<1>1. PersistFirst'
  BY DEF PersistFirst
<1>2. Load(chan') = Load(chan) /\ Cardinality(PingsIn(chan')) = Cardinality(PingsIn(chan))
  BY DEF Load
<1>3. Load(chan') + Due(todo') <= most
  <2>1. CASE link = "down"
    <3>1. Load(chan) = 0 /\ Due(todo') <= 6
      BY <2>1 DEF RoomInv
    <3> QED
      BY <1>0, <1>2, <3>1
  <2>2. CASE link # "down"
    BY <1>0, <1>2, <2>2
  <2> QED
    BY <2>1, <2>2
<1> QED
  BY <1>1, <1>2, <1>3 DEF RoomInv

(* A handler that has done a step still calls persist first. *)
LEMMA PersistStaysFirst ==
  ASSUME TypeOK, PersistFirst, todo # <<>>, todo' = Tail(todo)
  PROVE  /\ Len(todo) \in Nat \ {0} /\ Len(todo') = Len(todo) - 1
         /\ Head(todo) # PingReq /\ PersistFirst'
         /\ todo' # <<>> => Head(todo') # PersistStep
<1>1. /\ Len(todo) \in Nat \ {0} /\ Len(todo') = Len(todo) - 1
      /\ DOMAIN todo = 1..Len(todo) /\ DOMAIN todo' = 1..Len(todo')
      /\ \A i \in 1..Len(todo') : todo'[i] = todo[i + 1]
      /\ Head(todo) = todo[1] /\ todo' \in Seq(Requests \cup {PersistStep})
  BY HeadTailProperties, LenProperties DEF TypeOK
<1>2. Head(todo) # PingReq
  BY <1>1 DEF PersistFirst
<1>3. ASSUME NEW i \in 1..Len(todo') PROVE todo'[i] \notin {PingReq, PersistStep}
  <2>1. i + 1 \in 1..Len(todo) /\ i + 1 \in 2..Len(todo) /\ todo'[i] = todo[i + 1]
    BY <1>1
  <2> QED
    BY <2>1, <1>1 DEF PersistFirst
<1>4. PersistFirst'
  BY <1>1, <1>3 DEF PersistFirst
<1>5. todo' # <<>> => Head(todo') = todo'[1] /\ 1 \in 1..Len(todo')
  BY <1>1, HeadTailProperties, LenProperties
<1> QED
  BY <1>1, <1>2, <1>3, <1>4, <1>5

(* The running handler does its next step. *)
LEMMA RoomEnqueue ==
  ASSUME NEW most \in Nat, TypeOK, RoomInv(most), Enqueue
  PROVE  RoomInv(most)'
<1>0. /\ Load(chan) \in Int /\ Due(todo) \in Int
      /\ Len(chan) \in Nat /\ Cardinality(PingsIn(chan)) \in Nat /\ MaxPings \in Nat
  BY RoomNumbers
<1>1. /\ todo \in Seq(Requests \cup {PersistStep}) /\ todo # <<>> /\ chan \in Seq(Requests)
      /\ Head(todo) # PersistStep /\ UNCHANGED link
      /\ chan' = Append(chan, Head(todo)) /\ todo' = Tail(todo)
  BY DEF Enqueue, TypeOK
<1>2. /\ Len(todo) \in Nat \ {0} /\ Len(todo') = Len(todo) - 1
      /\ Head(todo) # PingReq /\ PersistFirst'
      /\ todo' # <<>> => Head(todo') # PersistStep
  BY <1>1, PersistStaysFirst DEF RoomInv
<1>3. Head(todo) \in Requests
  <2>1. Head(todo) \in Requests \cup {PersistStep}
    BY <1>1, HeadTailProperties
  <2> QED
    BY <1>1, <2>1
<1>5. Cardinality(PingsIn(chan')) = Cardinality(PingsIn(chan))
  <2>1. Cardinality(PingsIn(Append(chan, Head(todo))))
          = Cardinality(PingsIn(chan)) + (IF Head(todo) = PingReq THEN 1 ELSE 0)
    BY <1>1, <1>3, PingsAppend
  <2>2. (IF Head(todo) = PingReq THEN 1 ELSE 0) = 0
    BY <1>2
  <2>3. Cardinality(PingsIn(chan')) = Cardinality(PingsIn(chan)) + 0
    BY <1>1, <2>1, <2>2
  <2> QED
    BY <1>0, <2>3
<1>6. Len(chan') = Len(chan) + 1
  BY <1>1, <1>3, AppendProperties
<1>7. Load(chan') = Load(chan) + 1
  BY <1>0, <1>5, <1>6 DEF Load
<1>8. Due(todo) = Len(todo)
  BY <1>1 DEF Due
<1>9. Due(todo') = Len(todo')
  BY <1>2 DEF Due
<1>11. link # "down"
  BY <1>1 DEF RoomInv
<1>12. Load(chan') + Due(todo') = Load(chan) + Due(todo)
  BY <1>0, <1>2, <1>7, <1>8, <1>9
<1> QED
  BY <1>1, <1>2, <1>5, <1>11, <1>12 DEF RoomInv

LEMMA RoomPersist ==
  ASSUME NEW most \in Nat, TypeOK, RoomInv(most), Persist
  PROVE  RoomInv(most)'
<1>0. /\ Load(chan) \in Int /\ Due(todo) \in Int
      /\ Len(chan) \in Nat /\ Cardinality(PingsIn(chan)) \in Nat /\ MaxPings \in Nat
  BY RoomNumbers
<1>1. /\ todo \in Seq(Requests \cup {PersistStep}) /\ todo # <<>>
      /\ Head(todo) = PersistStep /\ UNCHANGED <<link, chan>>
      /\ todo' = Tail(todo)
  BY DEF Persist, TypeOK
<1>2. Len(todo) \in Nat \ {0} /\ Len(todo') = Len(todo) - 1 /\ PersistFirst'
  BY <1>1, PersistStaysFirst DEF RoomInv
<1>4. Due(todo') <= Due(todo) /\ Due(todo') \in Int
  BY <1>1, <1>2 DEF Due
<1>5. Load(chan') = Load(chan) /\ PingsIn(chan') = PingsIn(chan)
  BY <1>1 DEF Load
<1>6. link # "down" /\ link' = link
  BY <1>1 DEF RoomInv
<1>7. Load(chan') + Due(todo') <= most
  <2>1. Load(chan) + Due(todo) <= most
    BY <1>6 DEF RoomInv
  <2> QED
    BY <1>0, <1>4, <1>5, <1>6, <2>1
<1> QED
  BY <1>2, <1>5, <1>6, <1>7 DEF RoomInv

(* poll takes a request out of the channel. *)
LEMMA RoomSend ==
  ASSUME NEW most \in Nat, TypeOK, RoomInv(most), SendRequest
  PROVE  RoomInv(most)'
<1>0. /\ Load(chan) \in Int /\ Due(todo) \in Int
      /\ Len(chan) \in Nat /\ Cardinality(PingsIn(chan)) \in Nat /\ MaxPings \in Nat
  BY RoomNumbers
<1>1. /\ chan \in Seq(Requests) /\ chan # <<>> /\ chan' = Tail(chan)
      /\ UNCHANGED <<todo, link>> /\ link # "down"
  BY DEF SendRequest, TypeOK
<1>2. Len(chan) \in Nat \ {0} /\ Len(chan') = Len(chan) - 1
  BY <1>1, HeadTailProperties, LenProperties
<1>3. Cardinality(PingsIn(chan'))
        = Cardinality(PingsIn(chan)) - (IF Head(chan) = PingReq THEN 1 ELSE 0)
  BY <1>1, PingsTail
<1>4. /\ Load(chan') \in Int /\ Load(chan') <= Load(chan)
      /\ Cardinality(PingsIn(chan')) <= Cardinality(PingsIn(chan))
      /\ Cardinality(PingsIn(chan')) \in Int
  <2>1. \/ Cardinality(PingsIn(chan')) = Cardinality(PingsIn(chan))
        \/ Cardinality(PingsIn(chan')) = Cardinality(PingsIn(chan)) - 1
    <3>1. CASE Head(chan) = PingReq
      BY <1>3, <3>1
    <3>2. CASE Head(chan) # PingReq
      BY <1>0, <1>3, <3>2
    <3> QED
      BY <3>1, <3>2
  <2>2. Load(chan') = Len(chan') - Cardinality(PingsIn(chan'))
    BY DEF Load
  <2>3. Load(chan) = Len(chan) - Cardinality(PingsIn(chan))
    BY DEF Load
  <2> QED
    BY <1>0, <1>2, <2>1, <2>2, <2>3
<1>5. Due(todo') = Due(todo) /\ PersistFirst'
  BY <1>1 DEF Due, RoomInv, PersistFirst
<1>6. Load(chan) + Due(todo) <= most /\ Cardinality(PingsIn(chan)) <= MaxPings
  BY <1>1 DEF RoomInv
<1>7. Load(chan') + Due(todo') <= most /\ Cardinality(PingsIn(chan')) <= MaxPings
  BY <1>0, <1>4, <1>5, <1>6
<1> QED
  BY <1>1, <1>5, <1>7 DEF RoomInv

LEMMA RoomPing ==
  ASSUME NEW most \in Nat, TypeOK, RoomInv(most), PingTick
  PROVE  RoomInv(most)'
<1>0. /\ Load(chan) \in Int /\ Due(todo) \in Int
      /\ Len(chan) \in Nat /\ Cardinality(PingsIn(chan)) \in Nat /\ MaxPings \in Nat
  BY RoomNumbers
<1>1. /\ chan \in Seq(Requests) /\ chan' = Append(chan, PingReq) /\ PingReq \in Requests
      /\ UNCHANGED <<todo, link>>
      /\ Cardinality(PingsIn(chan)) < MaxPings
  BY RequestTypes DEF PingTick, PingsWaiting, PingsIn, TypeOK
<1>2. Len(chan') = Len(chan) + 1
  BY <1>1, AppendProperties
<1>3. Cardinality(PingsIn(chan')) = Cardinality(PingsIn(chan)) + 1
  BY <1>1, PingsAppend
<1>4. Load(chan') = Load(chan)
  BY <1>0, <1>2, <1>3 DEF Load
<1>5. Due(todo') = Due(todo) /\ PersistFirst'
  BY <1>1 DEF Due, RoomInv, PersistFirst
<1>6. Cardinality(PingsIn(chan')) <= MaxPings
  BY <1>0, <1>1, <1>3
<1> QED
  BY <1>1, <1>4, <1>5, <1>6 DEF RoomInv

(* poll returns a publish, and its handler starts. *)
LEMMA RoomHandle ==
  ASSUME NEW most \in Nat, 6 <= most, TypeOK, RoomInv(most), Prompt(most),
         ConnAck \/ HandleRead \/ HandleLog
  PROVE  RoomInv(most)'
<1>1. CASE ConnAck
  <2>1. /\ Polling /\ link = "down" /\ link' = "up" /\ todo' = SeedSteps(current)
        /\ UNCHANGED chan
    BY <1>1 DEF ConnAck
  <2>2. /\ Len(todo') = 6 /\ DOMAIN todo' = 1..6
        /\ \A i \in 1..6 : todo'[i] \notin {PingReq, PersistStep}
    <3>1. current \in States
      BY DEF TypeOK
    <3>2. todo' \in Seq(Requests \cup {PersistStep})
      BY <2>1, <3>1, StepTypes
    <3> QED
      BY <2>1, <3>2, HandlersFit, LenProperties
  <2>3. Due(todo') \in Int /\ Due(todo') <= 6
    BY <2>2 DEF Due
  <2> QED
    BY <2>1, <2>2, <2>3, HandlerFits
<1>2. ASSUME HandleRead \/ HandleLog
      PROVE  Polling /\ link # "down" /\ link' = link /\ UNCHANGED chan /\ Load(chan) < most
  BY <1>2 DEF HandleRead, HandleLog, Prompt
<1>3. CASE HandleRead
  <2>1. PICK n : todo' = ReadSteps(n)
    BY <1>3 DEF HandleRead
  <2>2. /\ DOMAIN todo' = 1..2 /\ Len(todo') = 2
        /\ todo'[1] # PingReq /\ todo'[2] \notin {PingReq, PersistStep}
    BY <2>1, HandlersFit DEF ReadSteps
  <2>3. Due(todo') = 1
    BY <2>1, <2>2, HandlersFit DEF Due
  <2> QED
    BY <1>2, <1>3, <2>2, <2>3, HandlerFits
<1>4. CASE HandleLog
  <2>1. PICK f : todo' = LogSteps(f)
    BY <1>4 DEF HandleLog
  <2>2. /\ Len(todo') \in {0, 1} /\ DOMAIN todo' = 1..Len(todo')
        /\ \A i \in DOMAIN todo' : todo'[i] \notin {PingReq, PersistStep}
    <3>1. todo' \in Seq(Requests \cup {PersistStep})
      BY <2>1, StepTypes
    <3> QED
      BY <2>1, <3>1, HandlersFit, LenProperties
  <2>3. Due(todo') \in Int /\ Due(todo') <= 1
    BY <2>2 DEF Due
  <2>4. /\ \A i \in DOMAIN todo' : todo'[i] # PingReq
        /\ \A i \in 2..Len(todo') : todo'[i] # PersistStep
    <3>1. 2..Len(todo') = {}
      BY <2>2
    <3> QED
      BY <2>2, <3>1
  <2> QED
    BY <1>2, <1>4, <2>3, <2>4, HandlerFits
<1> QED
  BY <1>1, <1>3, <1>4

(* The session ends, and what waits is forgotten. *)
LEMMA RoomEmptied ==
  ASSUME NEW most, Crash \/ ConnLost
  PROVE  RoomInv(most)'
<1>1. chan' = <<>> /\ todo' = <<>> /\ link' = "down"
  BY DEF Crash, ConnLost, Polling
<1>2. Len(chan') = 0 /\ DOMAIN chan' = {} /\ DOMAIN todo' = {} /\ Len(todo') = 0
  BY <1>1
<1>3. PingsIn(chan') = {}
  BY <1>2 DEF PingsIn
<1>4. Cardinality(PingsIn(chan')) = 0 /\ Load(chan') = 0
  BY <1>2, <1>3, FS_EmptySet DEF Load
<1>5. PersistFirst'
  BY <1>2 DEF PersistFirst
<1>6. MaxPings \in Nat
  BY ServeAssumption
<1> QED
  BY <1>1, <1>4, <1>5, <1>6 DEF RoomInv

LEMMA RoomStep ==
  ASSUME NEW most \in Nat, 6 <= most, TypeOK, RoomInv(most), [Next]_vars, [Prompt(most)]_vars
  PROVE  RoomInv(most)'
<1>1. CASE PingTick
  BY <1>1, RoomPing
<1>2. CASE ConnAck \/ HandleRead \/ HandleLog
  <2>1. CASE Prompt(most)
    BY <1>2, <2>1, RoomHandle
  <2>2. CASE UNCHANGED vars
    BY <2>2 DEF vars, server, RoomInv, PersistFirst
  <2> QED
    BY <2>1, <2>2
<1>3. CASE Enqueue
  BY <1>3, RoomEnqueue
<1>4. CASE Persist
  BY <1>4, RoomPersist
<1>5. CASE SendRequest
  BY <1>5, RoomSend
<1>6. CASE Crash \/ ConnLost
  BY <1>6, RoomEmptied
<1>7. CASE \/ Start \/ StartUnreadable \/ BrokerStart \/ UNCHANGED vars
           \/ Disconnect \/ BrokerStop \/ DeviceConnect \/ DeviceDrop \/ DeviceRead
  <2>1. UNCHANGED <<todo, chan>> /\ (link' = "down" <=> link = "down")
    BY <1>7 DEF Start, StartUnreadable, Boot, BrokerStart, vars, server, Disconnect, BrokerStop,
                Broken, DeviceConnect, DeviceDrop, DeviceRead
  <2> QED
    BY <2>1 DEF RoomInv, PersistFirst
<1> QED
  BY <1>1, <1>2, <1>3, <1>4, <1>5, <1>6, <1>7 DEF Next, ServerStep

(* server.rs:87-114: as long as poll takes no publish in while `most`      *)
(* requests wait, and the channel has slots for those, the six of a seed   *)
(* among them, and for the pings that an outage leaves waiting, no handler *)
(* ever waits for a slot that only its own task would free: for any number *)
(* of readings, faults and restarts, whatever breaks and in whatever order *)
(* poll sends and receives.                                                *)
THEOREM NeverWaitsForItself ==
  ASSUME NEW most \in Nat, 6 <= most, MaxPings + most <= ChanCap
  PROVE  Spec /\ [][Prompt(most)]_vars => []NeverWedged
<1>1. TypeOK /\ RoomInv(most) => NeverWedged
  <2> SUFFICES ASSUME TypeOK, RoomInv(most), Wedged PROVE FALSE
    BY DEF NeverWedged
  <2>1. todo # <<>> /\ Head(todo) # PersistStep /\ Len(chan) = ChanCap
    BY DEF Wedged
  <2>2. Due(todo) >= 1
    BY <2>1, LenProperties, HeadTailProperties DEF Due, TypeOK
  <2>3. Load(chan) + Due(todo) <= most
    BY <2>1 DEF RoomInv
  <2>4. Load(chan) >= ChanCap - MaxPings
    BY <2>1, RoomNumbers DEF RoomInv, Load
  <2> QED
    BY <2>2, <2>3, <2>4, RoomNumbers
<1>2. Init => RoomInv(most)
  BY RoomInit
<1>3. TypeOK /\ RoomInv(most) /\ [Next]_vars /\ [Prompt(most)]_vars => RoomInv(most)'
  BY RoomStep
<1> QED
  BY <1>1, <1>2, <1>3, TypeCorrect, PTL DEF Spec
=============================================================================
