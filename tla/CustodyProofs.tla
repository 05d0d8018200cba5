--------------------------- MODULE CustodyProofs ----------------------------
(***************************************************************************)
(* The `serve` loop keeps custody of the state: while the disk works, what*)
(* the broker and the device show only moves forward, among what is on   *)
(* disk, for every size of the channel and every number of readings, pings*)
(* and faults.                                                           *)
(***************************************************************************)
EXTENDS ServeProofs

(* What is on its way out, oldest first: the channel, then the steps that  *)
(* the running handler has still to do.                                  *)
Pipe == [i \in 1..(Len(chan) + Len(todo)) |->
           IF i <= Len(chan) THEN chan[i] ELSE todo[i - Len(chan)]]
PipeStates == {n \in States : \E i \in DOMAIN Pipe : Pipe[i] = StateReq(n)}

(* States leave in order. *)
InOrder ==
  /\ \A n \in PipeStates : n <= current
  /\ \A i, j \in DOMAIN Pipe : \A m, n \in States :
       i < j /\ Pipe[i] = StateReq(m) /\ Pipe[j] = StateReq(n) => m <= n

(* Without a session nothing waits but pings, and nothing is subscribed.   *)
DownIdle == /\ link = "down" => \A i \in DOMAIN Pipe : Pipe[i] = PingReq
            /\ link # "up" => broker.subs = {}

(* What the broker retains, and what the device shows, is behind all that  *)
(* is on its way.                                                        *)
BrokerBehind == /\ broker.retained.state <= current
                /\ \A n \in PipeStates : broker.retained.state <= n
DeviceBehind == /\ dev.state <= current
                /\ \A n \in PipeStates : dev.state <= n
                /\ \/ broker.retained.state = NoState
                   \/ dev.state <= broker.retained.state

(* The disk works, or a reading newer than all that was sent is about to   *)
(* make it work again.                                                   *)
Recovered == ~unsaved \/ Waiting # {} \/ BeforePersist

(* The subscription to readings is to be sent with no state before it.     *)
SubNext == \E i \in DOMAIN Pipe :
             /\ Pipe[i] = SubReq("read")
             /\ \A j \in 1..(i - 1) : \A n \in States : Pipe[j] # StateReq(n)

(* This session's seed has been sent. *)
Seeded == \/ "read" \in broker.subs
          \/ link = "up" /\ SubNext

BehindInv ==
  /\ InOrder /\ DownIdle
  /\ Recovered => BrokerBehind /\ DeviceBehind
  /\ Seeded => /\ broker.retained.state # NoState /\ BrokerBehind
               /\ dev.on => DeviceBehind

-----------------------------------------------------------------------------
(* The numbers the comparisons are between. *)
LEMMA PipeNumbers ==
  ASSUME TypeOK
  PROVE  /\ PipeStates \subseteq Nat /\ current \in Nat /\ States \subseteq Nat
         /\ Len(chan) \in Nat /\ Len(todo) \in Nat
         /\ DOMAIN Pipe = 1..(Len(chan) + Len(todo))
         /\ broker.retained.state \in Nat \cup {NoState} /\ dev.state \in Nat \cup {NoState}
         /\ NoState \in Int /\ \A n \in Nat : NoState < n
<1>1. States \subseteq Nat
  BY ServeAssumption DEF States
<1>2. Len(chan) \in Nat /\ Len(todo) \in Nat
  BY LenProperties DEF TypeOK
<1>3. DOMAIN Pipe = 1..(Len(chan) + Len(todo)) /\ PipeStates \subseteq States
  BY DEF Pipe, PipeStates
<1>4. broker.retained.state \in States \cup {NoState} /\ dev.state \in States \cup {NoState}
  BY DEF TypeOK, Retained
<1>5. NoState \in Int /\ \A n \in Nat : NoState < n
  BY DEF NoState
<1> QED
  BY <1>1, <1>2, <1>3, <1>4, <1>5 DEF TypeOK

(* The kinds of step that matter here are not each other. *)
LEMMA StepsTell ==
  /\ \A t : SubReq(t) # PingReq /\ SubReq(t) # PersistStep /\ \A n : SubReq(t) # StateReq(n)
  /\ \A fw, t : VersionReq(fw) # SubReq(t)
  /\ \A fw, n : VersionReq(fw) # StateReq(n)
  /\ \A n : StateReq(n) # PingReq /\ StateReq(n) # PersistStep
<1>1. /\ \A t : SubReq(t).kind = "sub"
      /\ \A n : StateReq(n).kind = "state"
      /\ \A fw : VersionReq(fw).kind = "version"
      /\ PingReq.kind = "ping" /\ PersistStep.kind = "persist"
  BY DEF SubReq, StateReq, VersionReq, PingReq, PersistStep
<1> QED
  BY <1>1

(* Where all that is in the pipe was there before, in the same order, or   *)
(* is no state, it stays in order.                                       *)
LEMMA CarriedOrder ==
  ASSUME TypeOK, InOrder, UNCHANGED current, DOMAIN Pipe' \subseteq Nat,
         NEW f,
         \A i \in DOMAIN Pipe' : f[i] \in Int,
         \A i, j \in DOMAIN Pipe' : i < j => f[i] <= f[j],
         \A i \in DOMAIN Pipe' :
           \/ f[i] \in DOMAIN Pipe /\ Pipe'[i] = Pipe[f[i]]
           \/ \A n \in States : Pipe'[i] # StateReq(n)
  PROVE  PipeStates' \subseteq PipeStates /\ InOrder'
<1> USE PipeNumbers
<1>1. PipeStates' \subseteq PipeStates
  BY DEF PipeStates
<1>2. ASSUME NEW i \in DOMAIN Pipe', NEW j \in DOMAIN Pipe', NEW m \in States,
             NEW n \in States, i < j, Pipe'[i] = StateReq(m), Pipe'[j] = StateReq(n)
      PROVE  m <= n
  <2>1. /\ f[i] \in DOMAIN Pipe /\ Pipe[f[i]] = StateReq(m)
        /\ f[j] \in DOMAIN Pipe /\ Pipe[f[j]] = StateReq(n)
    BY <1>2
  <2>2. m \in Nat /\ n \in Nat
    OBVIOUS
  <2>3. CASE f[i] = f[j]
    BY <2>1, <2>2, <2>3, NumbersTell
  <2>4. CASE f[i] < f[j]
    BY <2>1, <2>4 DEF InOrder
  <2> QED
    BY <1>2, <2>3, <2>4
<1> QED
  BY <1>1, <1>2 DEF InOrder

(* Where moreover no state has left the pipe, the seed is not overtaken.   *)
LEMMA CarriedSub ==
  ASSUME TypeOK, DOMAIN Pipe' \subseteq Nat \ {0},
         NEW f,
         \A i \in DOMAIN Pipe' : f[i] \in Int,
         \A i, j \in DOMAIN Pipe' : i < j => f[i] <= f[j],
         \A i \in DOMAIN Pipe' :
           \/ f[i] \in DOMAIN Pipe /\ Pipe'[i] = Pipe[f[i]]
           \/ Pipe'[i] # SubReq("read"),
         \A j \in DOMAIN Pipe : \A n \in States : Pipe[j] = StateReq(n) =>
           \E k \in DOMAIN Pipe' : f[k] = j /\ Pipe'[k] = StateReq(n),
         SubNext'
  PROVE  SubNext
<1> USE PipeNumbers
<1>1. PICK i \in DOMAIN Pipe' :
        /\ Pipe'[i] = SubReq("read")
        /\ \A j \in 1..(i - 1) : \A n \in States : Pipe'[j] # StateReq(n)
  BY DEF SubNext
<1>2. f[i] \in DOMAIN Pipe /\ Pipe[f[i]] = SubReq("read")
  BY <1>1
<1>3. ASSUME NEW j \in 1..(f[i] - 1), NEW n \in States, Pipe[j] = StateReq(n)
      PROVE  FALSE
  <2>1. j \in DOMAIN Pipe /\ j < f[i]
    BY <1>2
  <2>2. PICK k \in DOMAIN Pipe' : f[k] = j /\ Pipe'[k] = StateReq(n)
    BY <2>1, <1>3
  <2>3. k < i
    <3>1. k # i
      BY <2>1, <2>2
    <3>2. ~(i < k)
      BY <2>1, <2>2
    <3>3. i \in Int /\ k \in Int
      BY <1>1, <2>2
    <3> QED
      BY <3>1, <3>2, <3>3
  <2>4. k \in 1..(i - 1)
    BY <1>1, <2>2, <2>3
  <2>5. Pipe'[k] # StateReq(n)
    BY <1>1, <2>4
  <2> QED
    BY <2>2, <2>5
<1> QED
  BY <1>2, <1>3 DEF SubNext

(* Where the pipe gains no state but the current one, and the broker and   *)
(* the device at most forget, both stay behind it.                       *)
LEMMA StayBehind ==
  ASSUME TypeOK, current' \in Nat, current <= current',
         PipeStates' \subseteq PipeStates \cup {current'},
         broker'.retained.state \in {broker.retained.state, NoState},
         dev'.state = dev.state
  PROVE  /\ BrokerBehind => BrokerBehind'
         /\ DeviceBehind => DeviceBehind'
<1> USE PipeNumbers
<1>1. BrokerBehind => BrokerBehind'
  BY DEF BrokerBehind
<1>2. DeviceBehind => DeviceBehind'
  BY DEF DeviceBehind
<1> QED
  BY <1>1, <1>2

(* Where nothing happens to what is on its way. *)
LEMMA Idle ==
  ASSUME TypeOK, BehindInv, UNCHANGED <<current, chan, todo, unsaved, link>>,
         Waiting' \subseteq Waiting,
         broker'.retained.state = broker.retained.state, broker'.subs = broker.subs,
         dev'.state = dev.state, dev'.on => dev.on
  PROVE  BehindInv'
<1>1. Pipe' = Pipe /\ PipeStates' = PipeStates
  BY DEF Pipe, PipeStates
<1>2. (SubNext' <=> SubNext) /\ (Recovered' => Recovered)
  BY <1>1 DEF SubNext, Recovered, BeforePersist
<1>3. InOrder' /\ DownIdle'
  BY <1>1 DEF BehindInv, InOrder, DownIdle
<1>4. current \in Nat /\ current' = current
  BY PipeNumbers
<1> QED
  BY <1>1, <1>2, <1>3, <1>4, StayBehind DEF BehindInv, Seeded

-----------------------------------------------------------------------------
LEMMA BehindInit == Init => BehindInv
<1> SUFFICES ASSUME Init PROVE BehindInv
  OBVIOUS
<1>1. /\ Len(chan) = 0 /\ Len(todo) = 0 /\ link = "down" /\ current = 0
      /\ broker.retained.state = NoState /\ broker.subs = {}
      /\ dev.state = NoState
  BY DEF Init, NothingRetained
<1>2. DOMAIN Pipe = {} /\ PipeStates = {}
  BY <1>1 DEF Pipe, PipeStates
<1>3. NoState <= 0
  BY DEF NoState
<1>4. InOrder /\ DownIdle /\ ~Seeded /\ BrokerBehind /\ DeviceBehind
  BY <1>1, <1>2, <1>3 DEF InOrder, DownIdle, Seeded, BrokerBehind, DeviceBehind
<1> QED
  BY <1>4 DEF BehindInv

(* A process that starts finds nothing on its way but pings. *)
LEMMA FreshStart ==
  ASSUME TypeOK, OrderInv, BehindInv, NEW n, Boot(n)
  PROVE  /\ InOrder' /\ DownIdle' /\ ~Seeded' /\ PipeStates' = {}
         /\ Waiting' = {} /\ ~BeforePersist'
         /\ broker'.retained = broker.retained /\ dev' = dev
<1>1. /\ todo = <<>> /\ inbox = <<>> /\ link = "down" /\ broker.subs = {}
      /\ \A i \in DOMAIN Pipe : Pipe[i] = PingReq
  BY DEF Boot, OrderInv, Offline, BehindInv, DownIdle
<1>2. /\ UNCHANGED <<todo, chan, link, inbox, dev>>
      /\ broker'.retained = broker.retained /\ broker'.subs = broker.subs
  BY DEF Boot, TypeOK
<1>3. Pipe' = Pipe
  BY <1>2 DEF Pipe
<1>4. PipeStates' = {}
  BY <1>1, <1>3, StepsTell DEF PipeStates
<1>5. InOrder'
  BY <1>1, <1>3, <1>4, StepsTell DEF InOrder
<1>6. DownIdle' /\ ~Seeded'
  BY <1>1, <1>2, <1>3 DEF DownIdle, Seeded
<1>7. Waiting' = {} /\ ~BeforePersist'
  BY <1>1, <1>2 DEF Waiting, BeforePersist
<1> QED
  BY <1>2, <1>4, <1>5, <1>6, <1>7

(* A handler's first step goes to the channel: the pipe is what it was.    *)
LEMMA EnqueueCarries ==
  ASSUME TypeOK, Enqueue
  PROVE  Pipe' = Pipe
<1>1. /\ todo \in Seq(Requests \cup {PersistStep}) /\ chan \in Seq(Requests)
      /\ todo # <<>>
  BY DEF Enqueue, TypeOK
<1>2. /\ Len(todo) \in Nat \ {0} /\ Len(todo') = Len(todo) - 1 /\ Head(todo) = todo[1]
      /\ \A i \in 1..Len(todo') : todo'[i] = todo[i + 1]
  BY <1>1, HeadTailProperties, LenProperties DEF Enqueue
<1>3. todo[1] \in Requests
  BY <1>1, <1>2 DEF Enqueue
<1>4. /\ Len(chan) \in Nat /\ Len(chan') = Len(chan) + 1
      /\ \A i \in 1..Len(chan) : chan'[i] = chan[i]
      /\ chan'[Len(chan) + 1] = todo[1]
  BY <1>1, <1>2, <1>3, AppendProperties, LenProperties DEF Enqueue
<1>5. Len(chan') + Len(todo') = Len(chan) + Len(todo)
  BY <1>2, <1>4
<1>6. ASSUME NEW i \in 1..(Len(chan) + Len(todo))
      PROVE  (IF i <= Len(chan') THEN chan'[i] ELSE todo'[i - Len(chan')])
               = (IF i <= Len(chan) THEN chan[i] ELSE todo[i - Len(chan)])
  <2>1. CASE i <= Len(chan)
    BY <2>1, <1>4
  <2>2. CASE i = Len(chan) + 1
    BY <2>2, <1>4
  <2>3. CASE i > Len(chan) + 1
    <3>1. i - Len(chan') \in 1..Len(todo') /\ (i - Len(chan')) + 1 = i - Len(chan)
      BY <2>3, <1>2, <1>4
    <3> QED
      BY <3>1, <2>3, <1>2, <1>4
  <2> QED
    BY <2>1, <2>2, <2>3, <1>4
<1> QED
  BY <1>5, <1>6 DEF Pipe

(* A ping is put into the pipe, and is no state and no subscription. *)
LEMMA PingCarries ==
  ASSUME TypeOK, BehindInv, PingTick
  PROVE  /\ PipeStates' \subseteq PipeStates /\ InOrder'
         /\ SubNext' => SubNext
         /\ (\A i \in DOMAIN Pipe : Pipe[i] = PingReq)
              => \A i \in DOMAIN Pipe' : Pipe'[i] = PingReq
<1> DEFINE L == Len(chan)
           D == 1..(L + 1 + Len(todo))
           f == [i \in D |-> IF i <= L THEN i ELSE i - 1]
<1>1. /\ L \in Nat /\ Len(todo) \in Nat /\ Len(chan') = L + 1 /\ todo' = todo
      /\ \A i \in 1..L : chan'[i] = chan[i]
      /\ chan'[L + 1] = PingReq
  BY RequestTypes, AppendProperties, LenProperties DEF PingTick, TypeOK
<1>2. DOMAIN Pipe' = D /\ DOMAIN Pipe = 1..(L + Len(todo))
  BY <1>1 DEF Pipe
<1>3. /\ \A i \in D : f[i] \in Int
      /\ \A i, j \in D : i < j => f[i] <= f[j]
  BY <1>1
<1>4. ASSUME NEW i \in D
      PROVE  \/ i # L + 1 /\ f[i] \in DOMAIN Pipe /\ Pipe'[i] = Pipe[f[i]]
             \/ i = L + 1 /\ Pipe'[i] = PingReq
  <2>1. Pipe'[i] = IF i <= L + 1 THEN chan'[i] ELSE todo[i - (L + 1)]
    BY <1>1 DEF Pipe
  <2>2. CASE i <= L
    <3>1. f[i] = i /\ i \in 1..(L + Len(todo)) /\ i \in 1..L
      BY <1>1, <2>2
    <3>2. Pipe[i] = chan[i]
      BY <3>1, <2>2 DEF Pipe
    <3> QED
      BY <3>1, <3>2, <2>1, <2>2, <1>1, <1>2
  <2>3. CASE i = L + 1
    BY <2>1, <2>3, <1>1
  <2>4. CASE i > L + 1
    <3>1. f[i] = i - 1 /\ i - 1 \in 1..(L + Len(todo)) /\ ~(i - 1 <= L)
      BY <1>1, <2>4
    <3>2. Pipe[i - 1] = todo[(i - 1) - L]
      BY <3>1 DEF Pipe
    <3>3. (i - 1) - L = i - (L + 1) /\ ~(i <= L + 1)
      BY <1>1, <2>4
    <3> QED
      BY <3>1, <3>2, <3>3, <2>1, <2>4, <1>2
  <2> QED
    BY <2>2, <2>3, <2>4, <1>1
<1>5. ASSUME NEW j \in DOMAIN Pipe
      PROVE  \E k \in D : k # L + 1 /\ f[k] = j
  <2>1. CASE j <= L
    BY <2>1, <1>1, <1>2
  <2>2. CASE j > L
    <3>1. j + 1 \in D /\ j + 1 # L + 1 /\ f[j + 1] = j
      BY <2>2, <1>1, <1>2
    <3> QED
      BY <3>1
  <2> QED
    BY <2>1, <2>2, <1>1, <1>2
<1>6. InOrder /\ current' = current
  BY DEF BehindInv, PingTick
<1>7. D \subseteq Nat \ {0}
  BY <1>1
<1> HIDE DEF D, f, L
<1>8. PipeStates' \subseteq PipeStates /\ InOrder'
  BY <1>2, <1>3, <1>4, <1>6, <1>7, StepsTell, CarriedOrder
<1>9. SubNext' => SubNext
  <2> SUFFICES ASSUME SubNext' PROVE SubNext
    OBVIOUS
  <2>1. \A j \in DOMAIN Pipe : \A n \in States : Pipe[j] = StateReq(n) =>
          \E k \in DOMAIN Pipe' : f[k] = j /\ Pipe'[k] = StateReq(n)
    BY <1>2, <1>4, <1>5
  <2>2. \A i \in DOMAIN Pipe' : \/ f[i] \in DOMAIN Pipe /\ Pipe'[i] = Pipe[f[i]]
                                \/ Pipe'[i] # SubReq("read")
    BY <1>2, <1>4, StepsTell
  <2>3. /\ DOMAIN Pipe' \subseteq Nat \ {0}
        /\ \A i \in DOMAIN Pipe' : f[i] \in Int
        /\ \A i, j \in DOMAIN Pipe' : i < j => f[i] <= f[j]
    BY <1>2, <1>3, <1>7
  <2> QED
    BY <2>1, <2>2, <2>3, CarriedSub
<1>10. (\A i \in DOMAIN Pipe : Pipe[i] = PingReq) => \A i \in DOMAIN Pipe' : Pipe'[i] = PingReq
  BY <1>2, <1>4
<1> QED
  BY <1>8, <1>9, <1>10

(* A handler that asks for no state but the current one, and for readings  *)
(* only after it.                                                        *)
LEMMA HandlerCarries ==
  ASSUME TypeOK, TypeOK', BehindInv, chan' = chan, current <= current',
         \A k \in 1..Len(todo') : \A n \in States : todo'[k] = StateReq(n) => n = current',
         \A k \in 1..Len(todo') : todo'[k] = SubReq("read") =>
           \E j \in 1..(k - 1) : todo'[j] = StateReq(current')
  PROVE  /\ InOrder' /\ (SubNext' => SubNext)
         /\ PipeStates' \subseteq PipeStates \cup {current'}
<1> DEFINE L == Len(chan)
<1>1. /\ L \in Nat /\ Len(todo) \in Nat /\ Len(todo') \in Nat
      /\ current \in States /\ current' \in States /\ States \subseteq Nat
      /\ PipeStates \subseteq Nat
  BY PipeNumbers, LenProperties DEF TypeOK
<1>2. /\ DOMAIN Pipe' = 1..(L + Len(todo')) /\ DOMAIN Pipe = 1..(L + Len(todo))
      /\ \A i \in 1..L : i \in DOMAIN Pipe /\ Pipe'[i] = Pipe[i]
      /\ \A k \in 1..Len(todo') : k + L \in DOMAIN Pipe' /\ Pipe'[k + L] = todo'[k]
  <2>1. DOMAIN Pipe' = 1..(L + Len(todo')) /\ DOMAIN Pipe = 1..(L + Len(todo))
    BY DEF Pipe
  <2>2. ASSUME NEW i \in 1..L PROVE i \in DOMAIN Pipe /\ Pipe'[i] = Pipe[i]
    BY <1>1, <2>2 DEF Pipe
  <2>3. ASSUME NEW k \in 1..Len(todo') PROVE k + L \in DOMAIN Pipe' /\ Pipe'[k + L] = todo'[k]
    <3>1. k + L \in 1..(L + Len(todo')) /\ ~(k + L <= L) /\ (k + L) - L = k
      BY <1>1
    <3> QED
      BY <3>1 DEF Pipe
  <2> QED
    BY <2>1, <2>2, <2>3
<1> HIDE DEF L
<1>3. ASSUME NEW i \in DOMAIN Pipe'
      PROVE  i \in 1..L \/ \E k \in 1..Len(todo') : i = k + L
  <2>1. CASE i > L
    <3>1. i - L \in 1..Len(todo') /\ (i - L) + L = i
      BY <1>1, <1>2, <2>1
    <3> QED
      BY <3>1
  <2> QED
    BY <1>1, <1>2, <2>1
<1>4. ASSUME NEW i \in DOMAIN Pipe', NEW n \in States, Pipe'[i] = StateReq(n)
      PROVE  \/ i \in 1..L /\ n \in PipeStates /\ n <= current
             \/ i > L /\ n = current'
  <2>1. CASE i \in 1..L
    BY <1>2, <1>4, <2>1 DEF PipeStates, BehindInv, InOrder
  <2>2. CASE \E k \in 1..Len(todo') : i = k + L
    <3>1. PICK k \in 1..Len(todo') : i = k + L
      BY <2>2
    <3>2. n = current'
      BY <3>1, <1>2, <1>4
    <3>3. i > L
      BY <3>1, <1>1
    <3> QED
      BY <3>2, <3>3
  <2> QED
    BY <1>3, <2>1, <2>2
<1>5. PipeStates' \subseteq PipeStates \cup {current'}
  BY <1>4 DEF PipeStates
<1>6. \A n \in PipeStates' : n <= current'
  <2>1. \A n \in PipeStates : n <= current
    BY DEF BehindInv, InOrder
  <2> QED
    BY <1>1, <1>5, <2>1
<1>7. ASSUME NEW i \in DOMAIN Pipe', NEW j \in DOMAIN Pipe', NEW m \in States,
             NEW n \in States, i < j, Pipe'[i] = StateReq(m), Pipe'[j] = StateReq(n)
      PROVE  m <= n
  <2>1. CASE j \in 1..L
    <3>1. i \in 1..L
      BY <1>1, <1>2, <1>7, <2>1
    <3> QED
      BY <3>1, <2>1, <1>2, <1>7 DEF BehindInv, InOrder
  <2>2. CASE j > L
    <3>1. n = current'
      BY <1>1, <1>4, <1>7, <2>2
    <3> QED
      BY <3>1, <1>6, <1>7 DEF PipeStates
  <2> QED
    BY <1>1, <1>2, <2>1, <2>2
<1>8. SubNext' => SubNext
  <2> SUFFICES ASSUME SubNext' PROVE SubNext
    OBVIOUS
  <2>1. PICK i \in DOMAIN Pipe' :
          /\ Pipe'[i] = SubReq("read")
          /\ \A j \in 1..(i - 1) : \A n \in States : Pipe'[j] # StateReq(n)
    BY DEF SubNext
  <2>2. CASE i \in 1..L
    <3>1. \A j \in 1..(i - 1) : j \in 1..L
      BY <1>1, <2>2
    <3> QED
      BY <3>1, <2>1, <2>2, <1>2 DEF SubNext
  <2>3. CASE \E k \in 1..Len(todo') : i = k + L
    <3>1. PICK k \in 1..Len(todo') : i = k + L
      BY <2>3
    <3>2. PICK j \in 1..(k - 1) : todo'[j] = StateReq(current')
      BY <3>1, <2>1, <1>2
    <3>3. j \in 1..Len(todo') /\ j + L \in 1..(i - 1)
      BY <3>1, <3>2, <1>1
    <3>4. Pipe'[j + L] = StateReq(current')
      BY <3>2, <3>3, <1>2
    <3> QED
      BY <3>3, <3>4, <2>1, <1>1
  <2> QED
    BY <1>3, <2>2, <2>3
<1> QED
  BY <1>5, <1>6, <1>7, <1>8 DEF InOrder

(* The oldest request is sent. *)
LEMMA SendCarries ==
  ASSUME TypeOK, BehindInv, SendRequest
  PROVE  /\ PipeStates' \subseteq PipeStates /\ InOrder'
         /\ 1 \in DOMAIN Pipe /\ Pipe[1] = Head(chan) /\ Head(chan) \in Requests
         /\ \A n \in States : Pipe[1] = StateReq(n) =>
              /\ n \in PipeStates /\ n <= current
              /\ \A p \in PipeStates' : n <= p
         /\ (SubNext' /\ \A n \in States : Pipe[1] # StateReq(n)) => SubNext
<1> DEFINE L == Len(chan)
           f == [i \in 1..(L - 1) |-> i + 1]
<1>1. /\ todo = <<>> /\ todo' = <<>> /\ Len(todo) = 0 /\ Len(todo') = 0
      /\ L \in Nat \ {0} /\ Len(chan') = L - 1
      /\ Head(chan) = chan[1] /\ Head(chan) \in Requests
      /\ \A i \in 1..(L - 1) : chan'[i] = chan[i + 1]
  BY HeadTailProperties, LenProperties DEF SendRequest, Polling, TypeOK
<1>2. /\ DOMAIN Pipe = 1..L /\ DOMAIN Pipe' = 1..(L - 1)
      /\ \A i \in 1..L : Pipe[i] = chan[i]
      /\ \A i \in 1..(L - 1) : Pipe'[i] = chan'[i]
  BY <1>1 DEF Pipe
<1>3. /\ \A i \in DOMAIN Pipe' : f[i] \in Int /\ f[i] \in DOMAIN Pipe /\ Pipe'[i] = Pipe[f[i]]
      /\ \A i, j \in DOMAIN Pipe' : i < j => f[i] <= f[j]
      /\ DOMAIN Pipe' \subseteq Nat \ {0}
      /\ 1 \in DOMAIN Pipe /\ Pipe[1] = Head(chan)
  BY <1>1, <1>2
<1>4. \A j \in DOMAIN Pipe : j # 1 => \E k \in DOMAIN Pipe' : f[k] = j /\ Pipe'[k] = Pipe[j]
  <2> SUFFICES ASSUME NEW j \in DOMAIN Pipe, j # 1
               PROVE  \E k \in DOMAIN Pipe' : f[k] = j /\ Pipe'[k] = Pipe[j]
    OBVIOUS
  <2>1. j - 1 \in DOMAIN Pipe' /\ f[j - 1] = j
    BY <1>1, <1>2
  <2> QED
    BY <2>1, <1>3
<1>5. \A i \in DOMAIN Pipe' : 1 < f[i]
  BY <1>1, <1>2
<1>6. InOrder /\ current' = current
  BY DEF BehindInv, SendRequest
<1> HIDE DEF L, f
<1>7. PipeStates' \subseteq PipeStates /\ InOrder'
  BY <1>3, <1>6, CarriedOrder
<1>8. ASSUME NEW n \in States, Pipe[1] = StateReq(n)
      PROVE  /\ n \in PipeStates /\ n <= current
             /\ \A p \in PipeStates' : n <= p
  <2>1. n \in PipeStates /\ n <= current
    BY <1>3, <1>6, <1>8 DEF PipeStates, InOrder
  <2>2. ASSUME NEW p \in PipeStates' PROVE n <= p
    <3>1. PICK i \in DOMAIN Pipe' : Pipe'[i] = StateReq(p) /\ p \in States
      BY DEF PipeStates
    <3>2. f[i] \in DOMAIN Pipe /\ Pipe[f[i]] = StateReq(p) /\ 1 < f[i]
      BY <3>1, <1>3, <1>5
    <3> QED
      BY <3>1, <3>2, <1>3, <1>6, <1>8 DEF InOrder
  <2> QED
    BY <2>1, <2>2
<1>9. ASSUME SubNext', \A n \in States : Pipe[1] # StateReq(n) PROVE SubNext
  <2>1. \A j \in DOMAIN Pipe : \A n \in States : Pipe[j] = StateReq(n) =>
          \E k \in DOMAIN Pipe' : f[k] = j /\ Pipe'[k] = StateReq(n)
    BY <1>4, <1>9
  <2> QED
    BY <1>3, <1>9, <2>1, CarriedSub
<1> QED
  BY <1>1, <1>3, <1>7, <1>8, <1>9

-----------------------------------------------------------------------------
(* The steps of the loop, one by one. *)
LEMMA SeedCarries ==
  ASSUME NEW c \in States
  PROVE  /\ \A k \in 1..Len(SeedSteps(c)) : \A n \in States :
              SeedSteps(c)[k] = StateReq(n) => n = c
         /\ \A k \in 1..Len(SeedSteps(c)) : SeedSteps(c)[k] = SubReq("read") =>
              \E j \in 1..(k - 1) : SeedSteps(c)[j] = StateReq(c)
<1> DEFINE a == <<VersionReq(FwCfg), RadarReq, StateReq(c)>>
           b == [i \in 1..3 |-> SubReq(DeviceTopics[i])]
           S == {VersionReq(FwCfg), RadarReq, StateReq(c)} \cup {b[i] : i \in 1..3}
<1>1. a \in Seq(S) /\ b \in Seq(S) /\ Len(a) = 3 /\ Len(b) = 3
  OBVIOUS
<1>2. SeedSteps(c) = a \o b
  BY DEF SeedSteps
<1>3. a[1] = VersionReq(FwCfg) /\ a[2] = RadarReq /\ a[3] = StateReq(c)
  OBVIOUS
<1>4. RadarReq # SubReq("read")
  BY DEF RadarReq, SubReq
<1> HIDE DEF a, b, S
<1>5. Len(SeedSteps(c)) = 6 /\ \A i \in 1..3 : SeedSteps(c)[i] = a[i]
  <2>1. /\ Len(a \o b) = Len(a) + Len(b)
        /\ \A i \in 1..Len(a) : (a \o b)[i] = a[i]
    <3>1. /\ Len(a \o b) = Len(a) + Len(b)
          /\ \A i \in 1..Len(a) + Len(b) :
               (a \o b)[i] = IF i <= Len(a) THEN a[i] ELSE b[i - Len(a)]
      BY <1>1, ConcatProperties
    <3> QED
      BY <3>1, <1>1
  <2> QED
    BY <2>1, <1>1, <1>2
<1>6. DOMAIN SeedSteps(c) = 1..6
  <2>1. SeedSteps(c) \in Seq(S)
    BY <1>1, <1>2, ConcatProperties
  <2> QED
    BY <2>1, <1>5, LenProperties
<1>7. ASSUME NEW k \in 1..6, SeedSteps(c)[k] = SubReq("read")
      PROVE  \E j \in 1..(k - 1) : SeedSteps(c)[j] = StateReq(c)
  <2>1. k \notin {1, 2, 3}
    BY <1>3, <1>4, <1>5, <1>7, StepsTell
  <2>2. 3 \in 1..(k - 1) /\ SeedSteps(c)[3] = StateReq(c)
    BY <2>1, <1>3, <1>5
  <2> QED
    BY <2>2
<1> QED
  BY <1>5, <1>6, <1>7, SeedForm

LEMMA ConnAckKeeps ==
  ASSUME TypeOK, TypeOK', OrderInv, BehindInv, ConnAck
  PROVE  BehindInv'
<1> USE PipeNumbers
<1>1. /\ UNCHANGED <<chan, current, unsaved, inbox, broker, dev>> /\ todo' = SeedSteps(current)
      /\ link = "down" /\ link' = "up" /\ todo = <<>>
  BY DEF ConnAck, Polling
<1>2. current \in States
  BY DEF TypeOK
<1>3. InOrder' /\ (SubNext' => SubNext) /\ PipeStates' \subseteq PipeStates \cup {current'}
  BY <1>1, <1>2, SeedCarries, HandlerCarries
<1>4. ~SubNext /\ broker.subs = {}
  BY <1>1, StepsTell DEF BehindInv, DownIdle, SubNext
<1>5. DownIdle' /\ ~Seeded'
  BY <1>1, <1>3, <1>4 DEF DownIdle, Seeded
<1>6. Recovered' => Recovered
  <2>1. ~BeforePersist'
    <3>1. \A i \in DOMAIN todo' : todo'[i] # PersistStep
      BY <1>1, <1>2, SeedForm
    <3>2. BeforePersist' => 1 \in DOMAIN todo' /\ todo'[1] = PersistStep
      BY DEF BeforePersist
    <3> QED
      BY <3>1, <3>2
  <2> QED
    BY <2>1, <1>1 DEF Recovered, Waiting
<1>7. Recovered => BrokerBehind' /\ DeviceBehind'
  BY <1>1, <1>3, StayBehind DEF BehindInv
<1> QED
  BY <1>3, <1>5, <1>6, <1>7 DEF BehindInv

(* The reading that is applied is the first of those that waited. *)
LEMMA FirstReading ==
  ASSUME TypeOK, HandleRead
  PROVE  current' \in Waiting
<1>1. inbox # <<>> /\ inbox \in Seq(Messages)
  BY DEF HandleRead, TypeOK
<1>2. 1 \in DOMAIN inbox /\ Head(inbox) = inbox[1] /\ inbox[1] \in Messages
  BY <1>1, HeadTailProperties
<1>3. PICK n \in States : inbox[1] = ReadMsg(n)
  <2>1. inbox[1].kind = "read" /\ \A f : LogMsg(f).kind = "log"
    BY <1>2 DEF HandleRead, LogMsg
  <2> QED
    BY <1>2, <2>1 DEF Messages
<1>4. current' = n
  BY <1>2, <1>3 DEF HandleRead, ReadMsg
<1> QED
  BY <1>2, <1>3, <1>4 DEF Waiting

(* The reading is newer than all that was sent, so that from here on the   *)
(* disk may be trusted again.                                            *)
LEMMA HandleReadKeeps ==
  ASSUME TypeOK, TypeOK', OrderInv, BehindInv, HandleRead
  PROVE  BehindInv'
<1> USE PipeNumbers
<1>1. /\ UNCHANGED <<chan, unsaved, broker, dev, link>> /\ link # "down"
      /\ todo' = <<PersistStep, StateReq(current')>>
  BY DEF HandleRead, ReadSteps
<1>2. Waiting # {} /\ current < current'
  BY FirstReading DEF OrderInv, ReadingsOrdered
<1>3. Recovered
  BY <1>2 DEF Recovered
<1>4. current' \in States /\ current <= current'
  <2>1. current' \in States /\ current \in Nat /\ current' \in Nat
    BY PipeNumbers DEF TypeOK
  <2> QED
    BY <1>2, <2>1
<1>5. InOrder' /\ (SubNext' => SubNext) /\ PipeStates' \subseteq PipeStates \cup {current'}
  <2>1. Len(todo') = 2 /\ todo'[1] = PersistStep /\ todo'[2] = StateReq(current')
    BY <1>1
  <2>2. /\ \A k \in 1..Len(todo') : \A n \in States : todo'[k] = StateReq(n) => n = current'
        /\ \A k \in 1..Len(todo') : todo'[k] # SubReq("read")
    BY <2>1, <1>4, StepsTell, NumbersTell
  <2> QED
    BY <2>2, <1>1, <1>4, HandlerCarries
<1>6. BrokerBehind' /\ DeviceBehind'
  BY <1>1, <1>3, <1>4, <1>5, StayBehind DEF BehindInv
<1>7. DownIdle' /\ (Seeded' => Seeded)
  BY <1>1, <1>5 DEF BehindInv, DownIdle, Seeded
<1> QED
  BY <1>1, <1>5, <1>6, <1>7 DEF BehindInv

(* A log line, and the call of persist, ask for no state that is new.      *)
LEMMA HandleLogKeeps ==
  ASSUME TypeOK, TypeOK', OrderInv, BehindInv, HandleLog
  PROVE  BehindInv'
<1> USE PipeNumbers
<1>1. /\ UNCHANGED <<chan, current, unsaved, broker, dev, link>> /\ link # "down"
      /\ todo' = LogSteps(Head(inbox).format)
  BY DEF HandleLog
<1>2. todo' = <<>> \/ todo' = <<VersionReq(ParseFirmware(Head(inbox).format))>>
  BY <1>1 DEF LogSteps
<1>3. /\ \A k \in 1..Len(todo') : \A n \in States : todo'[k] # StateReq(n)
      /\ \A k \in 1..Len(todo') : todo'[k] # SubReq("read")
  BY <1>2, StepsTell
<1>4. InOrder' /\ (SubNext' => SubNext) /\ PipeStates' \subseteq PipeStates \cup {current'}
  BY <1>1, <1>3, HandlerCarries
<1>5. Recovered' => Recovered
  <2>1. Waiting' \subseteq Waiting
    <3>1. inbox # <<>> /\ inbox \in Seq(Messages) /\ inbox' = Tail(inbox)
      BY DEF HandleLog, TypeOK
    <3>2. \A i \in DOMAIN inbox' : i + 1 \in DOMAIN inbox /\ inbox'[i] = inbox[i + 1]
      BY <3>1, HeadTailProperties, LenProperties
    <3> QED
      BY <3>2 DEF Waiting
  <2>2. ~BeforePersist'
    <3> SUFFICES ASSUME BeforePersist' PROVE FALSE
      OBVIOUS
    <3>1. Len(todo') = 2
      BY DEF BeforePersist
    <3>2. Len(todo') \in {0, 1}
      BY <1>2
    <3> QED
      BY <3>1, <3>2
  <2> QED
    BY <2>1, <2>2, <1>1 DEF Recovered
<1>6. (BrokerBehind => BrokerBehind') /\ (DeviceBehind => DeviceBehind')
  BY <1>1, <1>4, StayBehind
<1>7. DownIdle' /\ (Seeded' => Seeded)
  BY <1>1, <1>4 DEF BehindInv, DownIdle, Seeded
<1> QED
  BY <1>1, <1>4, <1>5, <1>6, <1>7 DEF BehindInv

LEMMA PersistKeeps ==
  ASSUME TypeOK, TypeOK', OrderInv, BehindInv, Persist
  PROVE  BehindInv'
<1> USE PipeNumbers
<1>1. BeforePersist
  <2>1. todo # <<>> /\ todo \in Seq(Requests \cup {PersistStep}) /\ Head(todo) = PersistStep
    BY DEF Persist, TypeOK
  <2>2. 1 \in DOMAIN todo /\ todo[1] = PersistStep
    BY <2>1, HeadTailProperties
  <2> QED
    BY <2>2 DEF OrderInv, HandlerForm
<1>2. /\ todo' = <<StateReq(current)>> /\ Len(todo') = 1 /\ todo'[1] = StateReq(current)
      /\ UNCHANGED <<chan, current, broker, dev, link>> /\ current \in States
  BY <1>1 DEF Persist, BeforePersist, TypeOK
<1>3. Recovered
  BY <1>1 DEF Recovered
<1>4. InOrder' /\ (SubNext' => SubNext) /\ PipeStates' \subseteq PipeStates \cup {current'}
  <2>1. /\ \A k \in 1..Len(todo') : \A n \in States : todo'[k] = StateReq(n) => n = current'
        /\ \A k \in 1..Len(todo') : todo'[k] # SubReq("read")
    BY <1>2, StepsTell, NumbersTell
  <2> QED
    BY <2>1, <1>2, HandlerCarries
<1>5. BrokerBehind' /\ DeviceBehind'
  BY <1>2, <1>3, <1>4, StayBehind DEF BehindInv
<1>6. link # "down"
  <2>1. 1 \in DOMAIN todo /\ Len(todo) = 2 /\ todo[1] = PersistStep
    BY <1>1 DEF BeforePersist
  <2>2. Len(chan) + 1 \in DOMAIN Pipe /\ Pipe[Len(chan) + 1] = PersistStep
    BY <2>1 DEF Pipe
  <2>3. PersistStep # PingReq
    BY DEF PersistStep, PingReq
  <2> QED
    BY <2>2, <2>3 DEF BehindInv, DownIdle
<1>7. DownIdle' /\ (Seeded' => Seeded)
  BY <1>2, <1>4, <1>6 DEF BehindInv, DownIdle, Seeded
<1> QED
  BY <1>2, <1>4, <1>5, <1>7 DEF BehindInv

LEMMA EnqueueKeeps ==
  ASSUME TypeOK, OrderInv, BehindInv, Enqueue
  PROVE  BehindInv'
<1> USE PipeNumbers
<1>1. Pipe' = Pipe /\ PipeStates' = PipeStates
  BY EnqueueCarries DEF PipeStates
<1>2. UNCHANGED <<current, unsaved, inbox, link, broker, dev>>
  BY DEF Enqueue
<1>3. Recovered' => Recovered
  <2>1. ~BeforePersist /\ Waiting' = Waiting
    BY <1>2 DEF Enqueue, BeforePersist, Waiting
  <2>2. ~BeforePersist'
    <3> SUFFICES ASSUME BeforePersist' PROVE FALSE
      OBVIOUS
    <3>1. 1 \in DOMAIN todo' /\ todo'[1] = PersistStep
      BY DEF BeforePersist
    <3>2. 2 \in DOMAIN todo /\ todo[2] = PersistStep
      BY <3>1, HeadTailProperties DEF Enqueue, TypeOK
    <3> QED
      BY <3>2, <2>1 DEF OrderInv, HandlerForm
  <2> QED
    BY <2>1, <2>2, <1>2 DEF Recovered
<1>4. (BrokerBehind' <=> BrokerBehind) /\ (DeviceBehind' <=> DeviceBehind)
  BY <1>1, <1>2 DEF BrokerBehind, DeviceBehind
<1>5. InOrder' /\ DownIdle' /\ (Seeded' => Seeded)
  BY <1>1, <1>2 DEF BehindInv, InOrder, DownIdle, Seeded, SubNext
<1> QED
  BY <1>2, <1>3, <1>4, <1>5 DEF BehindInv

(* What the broker and the device show after a request. *)
LEMMA RequestShows ==
  ASSUME TypeOK, SendRequest, link = "up"
  PROVE  /\ \A n \in States : Head(chan) = StateReq(n) =>
              /\ broker'.retained.state = n /\ broker'.subs = broker.subs
              /\ dev'.state = IF dev.on THEN n ELSE dev.state
         /\ (\A n \in States : Head(chan) # StateReq(n)) =>
              /\ broker'.retained.state = broker.retained.state
              /\ dev'.state = dev.state
              /\ "read" \in broker'.subs => "read" \in broker.subs \/ Head(chan) = SubReq("read")
         /\ dev'.on = dev.on
<1> DEFINE r == Head(chan)
<1>1. r \in Requests
  BY HeadTailProperties DEF SendRequest, TypeOK
<1>2. broker' = BrokerAfter(broker, r) /\ dev' = DeviceAfter(dev, r)
  BY DEF SendRequest
<1>3. \A n : StateReq(n).kind = "state" /\ StateReq(n).n = n
  BY DEF StateReq
<1>4. r.kind = "state" => \E n \in States : r = StateReq(n)
  BY <1>1, RequestKinds
<1>5. r.kind = "sub" => r = SubReq(r.topic)
  BY <1>1 DEF Requests, VersionReq, StateReq, SubReq, RadarReq, PingReq
<1>6. /\ broker \in Brokers /\ dev \in Devices
  BY DEF TypeOK, Brokers, Devices
<1> HIDE DEF r
<1>7. ASSUME NEW n \in States, r = StateReq(n)
      PROVE  /\ broker'.retained.state = n /\ broker'.subs = broker.subs
             /\ dev'.state = IF dev.on THEN n ELSE dev.state
  BY <1>2, <1>3, <1>6, <1>7 DEF BrokerAfter, DeviceAfter, Brokers, Devices, Retained
<1>8. ASSUME \A n \in States : r # StateReq(n)
      PROVE  /\ broker'.retained.state = broker.retained.state
             /\ dev'.state = dev.state
             /\ "read" \in broker'.subs => "read" \in broker.subs \/ r = SubReq("read")
  <2>1. r.kind # "state"
    BY <1>4, <1>8
  <2>2. dev'.state = dev.state
    BY <2>1, <1>2, <1>6 DEF DeviceAfter, Devices
  <2>3. CASE r.kind = "sub"
    BY <2>2, <2>3, <1>2, <1>5, <1>6 DEF BrokerAfter, Brokers, Retained
  <2>4. CASE r.kind # "sub"
    BY <2>1, <2>2, <2>4, <1>2, <1>6 DEF BrokerAfter, Brokers, Retained
  <2> QED
    BY <2>3, <2>4
<1>9. dev'.on = dev.on
  BY <1>2, <1>6 DEF DeviceAfter, Devices
<1> QED
  BY <1>7, <1>8, <1>9 DEF r

LEMMA SendKeeps ==
  ASSUME TypeOK, OrderInv, BehindInv, SendRequest
  PROVE  BehindInv'
<1> USE PipeNumbers
<1>1. /\ UNCHANGED <<current, unsaved, inbox, link, todo>> /\ link # "down" /\ todo = <<>>
  BY DEF SendRequest, Polling
<1>2. Recovered' <=> Recovered
  BY <1>1 DEF Recovered, Waiting, BeforePersist
<1>3. /\ PipeStates' \subseteq PipeStates /\ InOrder'
      /\ 1 \in DOMAIN Pipe /\ Pipe[1] = Head(chan)
  BY SendCarries
<1>4. CASE link # "up"
  <2>1. broker' = broker /\ dev' = dev
    BY <1>4 DEF SendRequest
  <2>2. ~Seeded' /\ DownIdle'
    BY <2>1, <1>1, <1>4 DEF BehindInv, DownIdle, Seeded
  <2> QED
    BY <2>1, <2>2, <1>1, <1>2, <1>3, StayBehind DEF BehindInv
<1>5. ASSUME link = "up", NEW n \in States, Head(chan) = StateReq(n)
      PROVE  BehindInv'
  <2>1. /\ broker'.retained.state = n /\ broker'.subs = broker.subs
        /\ dev'.state = IF dev.on THEN n ELSE dev.state
        /\ dev'.on = dev.on
    BY <1>5, RequestShows
  <2>2. /\ n \in PipeStates /\ n <= current
        /\ \A p \in PipeStates' : n <= p
    BY <1>3, <1>5, SendCarries
  <2>3. BrokerBehind' /\ n # NoState
    BY <2>1, <2>2, <1>1 DEF BrokerBehind
  <2>4. DeviceBehind => DeviceBehind'
    BY <2>1, <2>2, <1>1, <1>3 DEF DeviceBehind
  <2>5. dev'.on => DeviceBehind'
    BY <2>1, <2>2, <1>1 DEF DeviceBehind
  <2>6. DownIdle'
    BY <1>1, <1>5 DEF DownIdle
  <2> QED
    BY <2>1, <2>3, <2>4, <2>5, <2>6, <1>2, <1>3 DEF BehindInv
<1>6. ASSUME link = "up", \A n \in States : Head(chan) # StateReq(n)
      PROVE  BehindInv'
  <2>1. /\ broker'.retained.state = broker.retained.state
        /\ dev'.state = dev.state /\ dev'.on = dev.on
        /\ "read" \in broker'.subs => "read" \in broker.subs \/ Head(chan) = SubReq("read")
    BY <1>6, RequestShows
  <2>2. SubNext' => SubNext
    BY <1>3, <1>6, SendCarries
  <2>3. Head(chan) = SubReq("read") => SubNext
    BY <1>3 DEF SubNext
  <2>4. Seeded' => Seeded
    BY <2>1, <2>2, <2>3, <1>6 DEF Seeded
  <2>5. DownIdle'
    BY <1>1, <1>6 DEF DownIdle
  <2>6. (BrokerBehind => BrokerBehind') /\ (DeviceBehind => DeviceBehind')
    BY <2>1, <1>1, <1>3, StayBehind
  <2> QED
    BY <2>1, <2>4, <2>5, <2>6, <1>2, <1>3 DEF BehindInv
<1> QED
  BY <1>4, <1>5, <1>6

(* A process that dies, or a session that is given up, leaves nothing on   *)
(* its way.                                                              *)
LEMMA DropKeeps ==
  ASSUME TypeOK, BehindInv, Crash \/ ConnLost, Waiting' \subseteq Waiting
  PROVE  BehindInv'
<1> USE PipeNumbers
<1>1. /\ todo' = <<>> /\ chan' = <<>> /\ link' = "down"
      /\ UNCHANGED <<current, unsaved>>
  BY DEF Crash, ConnLost, Polling
<1>2. DOMAIN Pipe' = {} /\ PipeStates' = {}
  BY <1>1 DEF Pipe, PipeStates
<1>3. /\ broker'.retained.state \in {broker.retained.state, NoState}
      /\ broker'.subs = {} /\ dev'.state = dev.state
  <2>1. CASE Crash
    BY <2>1 DEF Crash, Stopped, NothingRetained, TypeOK
  <2>2. CASE ConnLost
    BY <2>2 DEF ConnLost, BehindInv, DownIdle
  <2> QED
    BY <2>1, <2>2
<1>4. InOrder' /\ DownIdle' /\ ~Seeded'
  BY <1>1, <1>2, <1>3 DEF InOrder, DownIdle, Seeded
<1>5. Recovered' => Recovered
  BY <1>1 DEF Recovered, BeforePersist
<1>6. (BrokerBehind => BrokerBehind') /\ (DeviceBehind => DeviceBehind')
  BY <1>1, <1>2, <1>3, StayBehind
<1> QED
  BY <1>4, <1>5, <1>6 DEF BehindInv

(* A session that breaks. *)
LEMMA BreakKeeps ==
  ASSUME TypeOK, BehindInv, Disconnect \/ BrokerStop
  PROVE  BehindInv'
<1> USE PipeNumbers
<1>1. /\ UNCHANGED <<current, chan, todo, unsaved, inbox>>
      /\ link' # "up" /\ (link' = "down" => link = "down") /\ broker'.subs = {}
      /\ broker'.retained.state \in {broker.retained.state, NoState}
      /\ dev'.state = dev.state
  <2>1. CASE Disconnect
    BY <2>1 DEF Disconnect, TypeOK
  <2>2. CASE BrokerStop
    BY <2>2 DEF BrokerStop, Stopped, Broken, NothingRetained, TypeOK
  <2> QED
    BY <2>1, <2>2
<1>2. Pipe' = Pipe /\ PipeStates' = PipeStates
  BY <1>1 DEF Pipe, PipeStates
<1>3. InOrder' /\ DownIdle' /\ ~Seeded'
  BY <1>1, <1>2 DEF BehindInv, InOrder, DownIdle, Seeded
<1>4. Recovered' <=> Recovered
  BY <1>1 DEF Recovered, Waiting, BeforePersist
<1>5. (BrokerBehind => BrokerBehind') /\ (DeviceBehind => DeviceBehind')
  BY <1>1, <1>2, StayBehind
<1> QED
  BY <1>3, <1>4, <1>5 DEF BehindInv

(* A device that connects is shown what is retained, which is behind all   *)
(* that is on its way wherever that matters.                             *)
LEMMA DeviceConnectKeeps ==
  ASSUME TypeOK, BehindInv, DeviceConnect
  PROVE  BehindInv'
<1> USE PipeNumbers
<1>1. /\ UNCHANGED <<current, chan, todo, unsaved, link, broker>>
      /\ dev'.state = IF broker.retained.state = NoState THEN dev.state
                      ELSE broker.retained.state
  BY DEF DeviceConnect
<1>2. Pipe' = Pipe /\ PipeStates' = PipeStates
  BY <1>1 DEF Pipe, PipeStates
<1>3. InOrder' /\ DownIdle' /\ (Seeded' <=> Seeded) /\ (BrokerBehind' <=> BrokerBehind)
  BY <1>1, <1>2 DEF BehindInv, InOrder, DownIdle, Seeded, SubNext, BrokerBehind
<1>4. Waiting' = Waiting
  <2>1. PICK f \in LogFormats : Forward("log", LogMsg(f))
    BY DEF DeviceConnect
  <2>2. \A n : LogMsg(f) # ReadMsg(n)
    <3>1. LogMsg(f).kind = "log" /\ \A n : ReadMsg(n).kind = "read"
      BY DEF LogMsg, ReadMsg
    <3> QED
      BY <3>1
  <2>3. CASE inbox' = inbox
    BY <2>3 DEF Waiting
  <2>4. CASE inbox' = Append(inbox, LogMsg(f))
    <3>1. LogMsg(f) \in Messages /\ inbox \in Seq(Messages)
      BY MessageKinds DEF TypeOK
    <3>2. /\ DOMAIN inbox = 1..Len(inbox) /\ DOMAIN inbox' = 1..(Len(inbox) + 1)
          /\ Len(inbox) \in Nat
          /\ \A i \in DOMAIN inbox : inbox'[i] = inbox[i]
          /\ inbox'[Len(inbox) + 1] = LogMsg(f)
      BY <2>4, <3>1, AppendProperties, LenProperties
    <3> QED
      BY <2>2, <3>2 DEF Waiting
  <2> QED
    BY <2>1, <2>3, <2>4 DEF Forward
<1>5. Recovered' <=> Recovered
  BY <1>1, <1>4 DEF Recovered, BeforePersist
<1>6. BrokerBehind /\ broker.retained.state # NoState => DeviceBehind'
  BY <1>1, <1>2 DEF BrokerBehind, DeviceBehind
<1>7. broker.retained.state = NoState /\ DeviceBehind => DeviceBehind'
  BY <1>1, <1>2 DEF DeviceBehind
<1> QED
  BY <1>1, <1>3, <1>5, <1>6, <1>7 DEF BehindInv

(* A reading that the session hears is heard in a session that is seeded.  *)
LEMMA DeviceReadKeeps ==
  ASSUME TypeOK, BehindInv, DeviceRead
  PROVE  BehindInv'
<1>1. UNCHANGED <<current, chan, todo, unsaved, link, broker, dev>>
  BY DEF DeviceRead
<1>2. CASE inbox' = inbox
  BY <1>1, <1>2, Idle DEF Waiting
<1>3. CASE inbox' # inbox
  <2>1. Seeded /\ dev.on
    BY <1>3 DEF DeviceRead, Forward, Seeded
  <2>2. BrokerBehind /\ DeviceBehind /\ broker.retained.state # NoState
    BY <2>1 DEF BehindInv
  <2>3. Pipe' = Pipe /\ PipeStates' = PipeStates
    BY <1>1 DEF Pipe, PipeStates
  <2>4. InOrder' /\ DownIdle' /\ BrokerBehind' /\ DeviceBehind'
    BY <1>1, <2>2, <2>3 DEF BehindInv, InOrder, DownIdle, BrokerBehind, DeviceBehind
  <2> QED
    BY <1>1, <2>2, <2>4 DEF BehindInv
<1> QED
  BY <1>2, <1>3

LEMMA StartKeeps ==
  ASSUME TypeOK, TypeOK', OrderInv, BehindInv, Start \/ StartUnreadable
  PROVE  BehindInv'
<1> USE PipeNumbers
<1>1. CASE Start
  <2>1. /\ InOrder' /\ DownIdle' /\ ~Seeded' /\ PipeStates' = {}
        /\ Waiting' = {} /\ ~BeforePersist'
        /\ broker'.retained = broker.retained /\ dev' = dev
    BY <1>1, FreshStart DEF Start
  <2>2. ASSUME ~unsaved' PROVE BrokerBehind' /\ DeviceBehind'
    <3>1. ~unsaved /\ current' = stored
      BY <1>1, <2>2 DEF Start, Boot
    <3>2. broker.retained.state <= stored /\ dev.state <= stored
      BY <3>1 DEF OrderInv, Settled, Sent
    <3>3. DeviceBehind
      BY <3>1 DEF BehindInv, Recovered
    <3> QED
      BY <2>1, <3>1, <3>2, <3>3 DEF BrokerBehind, DeviceBehind
  <2> QED
    BY <2>1, <2>2 DEF BehindInv, Recovered
<1>2. CASE StartUnreadable
  <2>1. /\ InOrder' /\ DownIdle' /\ ~Seeded' /\ Waiting' = {} /\ ~BeforePersist'
    BY <1>2, FreshStart DEF StartUnreadable
  <2>2. unsaved'
    BY <1>2 DEF StartUnreadable
  <2> QED
    BY <2>1, <2>2 DEF BehindInv, Recovered
<1> QED
  BY <1>1, <1>2

LEMMA PingKeeps ==
  ASSUME TypeOK, BehindInv, PingTick
  PROVE  BehindInv'
<1> USE PipeNumbers
<1>1. UNCHANGED <<current, todo, unsaved, link, inbox, broker, dev>>
  BY DEF PingTick
<1>2. InOrder' /\ DownIdle' /\ (Seeded' => Seeded) /\ PipeStates' \subseteq PipeStates
  BY <1>1, PingCarries DEF BehindInv, DownIdle, Seeded
<1>3. Recovered' <=> Recovered
  BY <1>1 DEF Recovered, Waiting, BeforePersist
<1>4. (BrokerBehind => BrokerBehind') /\ (DeviceBehind => DeviceBehind')
  BY <1>1, <1>2, StayBehind
<1> QED
  BY <1>1, <1>2, <1>3, <1>4 DEF BehindInv

LEMMA BehindStep ==
  TypeOK /\ TypeOK' /\ OrderInv /\ BehindInv /\ [Next]_vars => BehindInv'
<1> SUFFICES ASSUME TypeOK, TypeOK', OrderInv, BehindInv, [Next]_vars PROVE BehindInv'
  OBVIOUS
<1>1. CASE Start \/ StartUnreadable
  BY <1>1, StartKeeps
<1>2. CASE PingTick
  BY <1>2, PingKeeps
<1>3. CASE ConnAck
  BY <1>3, ConnAckKeeps
<1>4. CASE Enqueue
  BY <1>4, EnqueueKeeps
<1>5. CASE Persist
  BY <1>5, PersistKeeps
<1>6. CASE SendRequest
  BY <1>6, SendKeeps
<1>7. CASE HandleRead
  BY <1>7, HandleReadKeeps
<1>8. CASE HandleLog
  BY <1>8, HandleLogKeeps
<1>9. CASE Crash
  <2>1. inbox' = <<>>
    BY <1>9 DEF Crash
  <2>2. Waiting' = {}
    BY <2>1 DEF Waiting
  <2> QED
    BY <1>9, <2>2, DropKeeps
<1>10. CASE ConnLost
  <2>1. PICK k \in 0..Len(inbox) : inbox' = SubSeq(inbox, 1, k)
    BY <1>10 DEF ConnLost
  <2>2. \A i \in DOMAIN inbox' : i \in DOMAIN inbox /\ inbox'[i] = inbox[i]
    BY <2>1, SubSeqProperties, LenProperties DEF TypeOK
  <2>3. Waiting' \subseteq Waiting
    BY <2>2 DEF Waiting
  <2> QED
    BY <1>10, <2>3, DropKeeps
<1>11. CASE Disconnect \/ BrokerStop
  BY <1>11, BreakKeeps
<1>12. CASE DeviceConnect
  BY <1>12, DeviceConnectKeeps
<1>13. CASE DeviceRead
  BY <1>13, DeviceReadKeeps
<1>14. CASE BrokerStart \/ DeviceDrop \/ UNCHANGED vars
  <2>1. /\ UNCHANGED <<current, chan, todo, unsaved, link, inbox>>
        /\ broker'.retained.state = broker.retained.state /\ broker'.subs = broker.subs
        /\ dev'.state = dev.state /\ (dev'.on => dev.on)
    BY <1>14 DEF BrokerStart, DeviceDrop, vars, server, TypeOK
  <2>2. Waiting' \subseteq Waiting
    BY <2>1 DEF Waiting
  <2> QED
    BY <2>1, <2>2, Idle
<1> QED
  BY <1>1, <1>2, <1>3, <1>4, <1>5, <1>6, <1>7, <1>8, <1>9, <1>10, <1>11, <1>12, <1>13,
     <1>14 DEF Next, ServerStep

(* The loop's states leave in order, and behind them stay the broker and   *)
(* the device.                                                           *)
LEMMA BehindAlways == Spec => [](TypeOK /\ OrderInv /\ BehindInv)
  BY TypeInit, TypeStep, OrderInit, OrderStep, BehindInit, BehindStep, PTL DEF Spec

-----------------------------------------------------------------------------
(* In one step the broker and the device come to show at most a state that *)
(* was on its way, or the device what the broker retains.                *)
LEMMA ShownFromPipe ==
  ASSUME TypeOK, OrderInv, BehindInv, [Next]_vars
  PROVE  /\ broker'.retained.state \in {broker.retained.state, NoState} \cup PipeStates
         /\ dev'.state \in {dev.state} \cup PipeStates
              \cup ({broker.retained.state} \ {NoState})
<1>1. CASE Start \/ StartUnreadable
  <2>1. \E n : Boot(n)
    BY <1>1 DEF Start, StartUnreadable
  <2> QED
    BY <2>1, FreshStart
<1>2. CASE PingTick \/ ConnAck \/ Enqueue \/ Persist \/ HandleRead \/ HandleLog \/ ConnLost
           \/ DeviceRead \/ UNCHANGED vars
  BY <1>2 DEF PingTick, ConnAck, Enqueue, Persist, HandleRead, HandleLog, ConnLost,
              DeviceRead, vars
<1>3. CASE SendRequest
  <2>1. CASE link # "up"
    BY <1>3, <2>1 DEF SendRequest
  <2>2. ASSUME link = "up", NEW n \in States, Head(chan) = StateReq(n)
        PROVE  /\ broker'.retained.state = n /\ dev'.state \in {n, dev.state}
               /\ n \in PipeStates
    BY <1>3, <2>2, RequestShows, SendCarries
  <2>3. CASE link = "up" /\ \A n \in States : Head(chan) # StateReq(n)
    BY <1>3, <2>3, RequestShows
  <2> QED
    BY <2>1, <2>2, <2>3
<1>4. CASE Crash \/ Disconnect \/ BrokerStop \/ BrokerStart \/ DeviceDrop
  <2>1. broker \in Brokers /\ dev \in Devices /\ NothingRetained.state = NoState
    BY DEF TypeOK, Brokers, Devices, NothingRetained
  <2>2. dev'.state = dev.state
    BY <1>4, <2>1 DEF Crash, Disconnect, BrokerStop, BrokerStart, DeviceDrop, server, Devices
  <2>3. broker'.retained \in {broker.retained, NothingRetained}
    BY <1>4, <2>1 DEF Crash, Disconnect, BrokerStop, BrokerStart, DeviceDrop, Stopped, Brokers
  <2> QED
    BY <2>1, <2>2, <2>3
<1>5. CASE DeviceConnect
  BY <1>5 DEF DeviceConnect
<1> QED
  BY <1>1, <1>2, <1>3, <1>4, <1>5 DEF Next, ServerStep

(* What they show are numbers of states, or none. *)
LEMMA ShownNumbers ==
  ASSUME TypeOK, TypeOK'
  PROVE  /\ broker'.retained.state \in {NoState} \cup 0..MaxReads
         /\ dev'.state \in {NoState} \cup 0..MaxReads
         /\ broker.retained.state \in Int /\ dev.state \in Int /\ stored \in Nat
         /\ broker'.retained.state \in Int /\ dev'.state \in Int /\ MaxReads \in Nat
<1>1. MaxReads \in Nat /\ States = 0..MaxReads /\ NoState \in Int
  BY ServeAssumption DEF States, NoState
<1>2. broker.retained.state \in States \cup {NoState} /\ dev.state \in States \cup {NoState}
  BY DEF TypeOK, Retained
<1>3. broker'.retained.state \in States \cup {NoState} /\ dev'.state \in States \cup {NoState}
  BY DEF TypeOK, Retained
<1>4. stored \in States
  BY DEF TypeOK
<1> QED
  BY <1>1, <1>2, <1>3, <1>4

LEMMA ShownMovesOn ==
  ASSUME TypeOK, TypeOK', OrderInv, BehindInv, [Next]_vars, ~unsaved
  PROVE  /\ broker'.retained.state # NoState =>
              broker.retained.state <= broker'.retained.state
         /\ dev.state <= dev'.state
<1> USE PipeNumbers
<1>1. BrokerBehind /\ DeviceBehind
  BY DEF BehindInv, Recovered
<1> QED
  BY <1>1, ShownFromPipe DEF BrokerBehind, DeviceBehind

(* server.rs:5-7, 95-96: while the disk works, neither the retained /state *)
(* nor the device goes back to an older reading, whatever crashes, breaks*)
(* or is replayed, and however many slots the channel has.               *)
THEOREM StateNeverGoesBack == Spec => StateNeverRegresses
<1>1. ASSUME TypeOK, TypeOK', OrderInv, BehindInv, [Next]_vars
      PROVE  [~unsaved =>
                /\ broker'.retained.state \in {NoState} \cup (broker.retained.state..MaxReads)
                /\ dev'.state >= dev.state]_vars
  <2> USE PipeNumbers
  <2> SUFFICES ASSUME ~unsaved
               PROVE  /\ broker'.retained.state \in {NoState} \cup (broker.retained.state..MaxReads)
                      /\ dev'.state >= dev.state
    OBVIOUS
  <2>1. /\ broker'.retained.state # NoState =>
             broker.retained.state <= broker'.retained.state
        /\ dev.state <= dev'.state
    BY <1>1, ShownMovesOn
  <2> QED
    BY <1>1, <2>1, ShownNumbers DEF NoState
<1>2. TypeOK /\ TypeOK' /\ OrderInv /\ BehindInv /\ [Next]_vars =>
        [~unsaved =>
           /\ broker'.retained.state \in {NoState} \cup (broker.retained.state..MaxReads)
           /\ dev'.state >= dev.state]_vars
  BY <1>1
<1> QED
  BY <1>2, BehindAlways, PTL DEF Spec, StateNeverRegresses

-----------------------------------------------------------------------------
(* Each step of the loop, of its broker and of its device is a step of     *)
(* Custody or none.                                                      *)
Outlet == [o \in {"broker", "device"} |->
             IF o = "broker" THEN broker.retained.state ELSE dev.state]

LEMMA CustodyInitial == Init => Custody!CustodyInit
  BY DEF Init, Custody!CustodyInit, NothingRetained

LEMMA ShowStep ==
  ASSUME TypeOK, TypeOK', OrderInv, OrderInv', BehindInv, [Next]_vars,
         UNCHANGED <<current, stored, unsaved>>
  PROVE  Custody!Show
<1> USE PipeNumbers
<1>1. /\ broker'.retained.state \in {NoState} \cup 0..MaxReads
      /\ dev'.state \in {NoState} \cup 0..MaxReads
      /\ broker.retained.state \in Int /\ dev.state \in Int /\ stored \in Nat
      /\ broker'.retained.state \in Int /\ dev'.state \in Int
  BY ShownNumbers
<1>2. ASSUME ~unsaved
      PROVE  /\ broker'.retained.state = NoState
                  \/ broker'.retained.state \in broker.retained.state..stored
             /\ dev'.state \in dev.state..stored
  <2>1. broker'.retained.state <= stored /\ dev'.state <= stored
    BY <1>2 DEF OrderInv, Settled, Sent
  <2> QED
    BY <1>1, <1>2, <2>1, ShownMovesOn DEF NoState
<1>3. Outlet' \in [{"broker", "device"} -> {NoState} \cup 0..MaxReads]
  BY <1>1 DEF Outlet
<1>4. ASSUME NEW o \in {"broker", "device"}
      PROVE  \/ Outlet'[o] \in {Outlet[o], NoState}
             \/ Outlet'[o] \in 0..MaxReads /\ unsaved
             \/ Outlet'[o] \in Outlet[o]..stored
  <2>1. CASE unsaved
    BY <1>1, <2>1 DEF Outlet
  <2>2. CASE ~unsaved
    BY <1>2, <2>2 DEF Outlet
  <2> QED
    BY <2>1, <2>2 DEF TypeOK
<1> QED
  BY <1>3, <1>4 DEF Custody!Show, Outlet

LEMMA LearnStep ==
  ASSUME TypeOK, TypeOK', OrderInv, HandleRead
  PROVE  Custody!Learn
<1> DEFINE n == current'
<1>1. n \in Waiting
  BY FirstReading
<1>2. /\ current < n /\ broker.retained.state < n /\ dev.state < n
      /\ n \in 0..MaxReads /\ current' = n
  BY <1>1 DEF OrderInv, ReadingsOrdered, Sent, Waiting, States
<1>3. /\ broker.retained.state \in Int /\ dev.state \in Int /\ current \in Int
  BY Numbers DEF Sent
<1>4. /\ n > current /\ n > broker.retained.state /\ n > dev.state
  BY <1>2, <1>3
<1>5. UNCHANGED <<stored, unsaved, broker, dev>>
  BY DEF HandleRead
<1> QED
  BY <1>2, <1>4, <1>5 DEF Custody!Learn

LEMMA CustodyStep ==
  TypeOK /\ TypeOK' /\ OrderInv /\ OrderInv' /\ BehindInv /\ [Next]_vars
    => [Custody!CustodyNext]_(Custody!custodyVars)
<1> SUFFICES ASSUME TypeOK, TypeOK', OrderInv, OrderInv', BehindInv, [Next]_vars
             PROVE  Custody!CustodyNext
  OBVIOUS
<1>1. CASE HandleRead
  BY <1>1, LearnStep DEF Custody!CustodyNext
<1>2. CASE Persist
  <2>1. UNCHANGED <<current, broker, dev>>
    BY <1>2 DEF Persist
  <2>2. (stored' = current /\ unsaved' = FALSE) \/ (stored' = stored /\ unsaved' = TRUE)
    BY <1>2 DEF Persist
  <2> QED
    BY <2>1, <2>2 DEF Custody!CustodyNext, Custody!Save, Custody!SaveFails
<1>3. CASE Start
  <2>1. /\ current' = stored /\ UNCHANGED <<stored, unsaved>>
        /\ broker'.retained = broker.retained /\ dev' = dev
    BY <1>3, FreshStart DEF Start, Boot
  <2> QED
    BY <2>1 DEF Custody!CustodyNext, Custody!Restore
<1>4. CASE StartUnreadable
  <2>1. /\ current' = 0 /\ unsaved' = TRUE /\ stored' \in {0, stored}
        /\ broker'.retained = broker.retained /\ dev' = dev
    BY <1>4, FreshStart DEF StartUnreadable, Boot
  <2> QED
    BY <2>1 DEF Custody!CustodyNext, Custody!RestoreNothing
<1>5. CASE PingTick \/ ConnAck \/ Enqueue \/ SendRequest \/ HandleLog \/ ConnLost
           \/ Crash \/ Disconnect \/ BrokerStop \/ BrokerStart
           \/ DeviceConnect \/ DeviceDrop \/ DeviceRead \/ UNCHANGED vars
  <2>1. UNCHANGED <<current, stored, unsaved>>
    BY <1>5 DEF PingTick, ConnAck, Enqueue, SendRequest, HandleLog, ConnLost, Crash,
                Disconnect, BrokerStop, BrokerStart, DeviceConnect, DeviceDrop, DeviceRead,
                vars, server
  <2> QED
    BY <2>1, ShowStep DEF Custody!CustodyNext
<1> QED
  BY <1>1, <1>2, <1>3, <1>4, <1>5 DEF Next, ServerStep

(* server.rs:5-9, 74-77, 303-327: the loop, its channel, the broker and    *)
(* the device implement custody of the state, whatever is lost or replayed*)
(* and however many slots the channel has.                               *)
THEOREM ImplementsCustody == Spec => KeepsCustody
  BY CustodyInitial, CustodyStep, BehindAlways, PTL DEF Spec, KeepsCustody, Custody!CustodySpec
=============================================================================
