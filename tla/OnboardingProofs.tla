-------------------------- MODULE OnboardingProofs ---------------------------
(***************************************************************************)
(* Whatever devices connect, whatever they send, in whichever order the    *)
(* cloud answers and however often a write fails, a connection breaks or   *)
(* the program is run again: the files onboarding leaves agree with each   *)
(* other and with what is known, they describe one device where observe    *)
(* wrote them, and serve starts from them.                                 *)
(***************************************************************************)
EXTENDS Onboarding, SequenceTheorems, TLAPS

(* Learn and Observe have Onboard's operators, each by its own name. *)
LEMMA LearnShares ==
  /\ \A f, d, p : L!ApplyDevice(f, d, p) = ApplyDevice(f, d, p)
  /\ \A f, p : L!ApplyCloud(f, p) = ApplyCloud(f, p)
  /\ \A f : L!MaybeFinalize(f) <=> MaybeFinalize(f)
  /\ L!outputs = outputs /\ L!NoFacts = NoFacts /\ L!Field = Field
  /\ L!Packets = Packets /\ L!CloudPackets = CloudPackets
  /\ \A sent : L!Opening(sent) <=> Opening(sent)
  /\ L!OnboardTypeOK <=> OnboardTypeOK
  /\ L!OnboardInit <=> OnboardInit
<1>1. \A f, keys, value : L!Record(f, keys, value) = Record(f, keys, value)
  BY DEF L!Record, Record, L!Field, Field, L!Optional, Optional
<1>2. /\ L!outputs = outputs /\ L!NoFacts = NoFacts /\ L!Field = Field
      /\ L!Packets = Packets /\ L!CloudPackets = CloudPackets
  BY DEF L!outputs, outputs, L!NoFacts, NoFacts, L!Field, Field, L!Optional, Optional,
         L!Packets, Packets, L!CloudPackets, CloudPackets
<1>3. \A f, d, p : L!ApplyDevice(f, d, p) = ApplyDevice(f, d, p)
  BY <1>1 DEF L!ApplyDevice, ApplyDevice
<1>4. \A f, p : L!ApplyCloud(f, p) = ApplyCloud(f, p)
  BY <1>1 DEF L!ApplyCloud, ApplyCloud
<1>5. \A f : L!MaybeFinalize(f) <=> MaybeFinalize(f)
  BY DEF L!MaybeFinalize, MaybeFinalize, L!outputs, outputs, L!Field, Field, L!Optional, Optional,
         L!IsComplete, IsComplete, L!WriteOutputs, WriteOutputs, L!WriteFails, WriteFails,
         L!RenderConfig, RenderConfig, L!InitialState, InitialState
<1>6. L!OnboardTypeOK <=> OnboardTypeOK
  BY <1>2 DEF L!OnboardTypeOK, OnboardTypeOK, L!Value, Value, L!Config, Config, L!Optional, Optional,
              L!StateFile, StateFile
<1>7. L!OnboardInit <=> OnboardInit
  BY <1>2 DEF L!OnboardInit, OnboardInit
<1>8. \A sent : L!Opening(sent) <=> Opening(sent)
  BY DEF L!Opening, Opening
<1> QED
  BY <1>2, <1>3, <1>4, <1>5, <1>6, <1>7, <1>8

LEMMA ObserveShares ==
  /\ \A f, d, p : O!ApplyDevice(f, d, p) = ApplyDevice(f, d, p)
  /\ \A f : O!MaybeFinalize(f) <=> MaybeFinalize(f)
  /\ O!outputs = outputs /\ O!NoFacts = NoFacts /\ O!Packets = Packets
  /\ \A sent : O!Opening(sent) <=> Opening(sent)
  /\ O!OnboardTypeOK <=> OnboardTypeOK
  /\ O!OnboardInit <=> OnboardInit
<1>1. \A f, keys, value : O!Record(f, keys, value) = Record(f, keys, value)
  BY DEF O!Record, Record, O!Field, Field, O!Optional, Optional
<1>2. /\ O!outputs = outputs /\ O!NoFacts = NoFacts /\ O!Field = Field /\ O!Packets = Packets
  BY DEF O!outputs, outputs, O!NoFacts, NoFacts, O!Field, Field, O!Optional, Optional, O!Packets, Packets
<1>3. \A f, d, p : O!ApplyDevice(f, d, p) = ApplyDevice(f, d, p)
  BY <1>1 DEF O!ApplyDevice, ApplyDevice
<1>4. \A f : O!MaybeFinalize(f) <=> MaybeFinalize(f)
  BY DEF O!MaybeFinalize, MaybeFinalize, O!outputs, outputs, O!Field, Field, O!Optional, Optional,
         O!IsComplete, IsComplete, O!WriteOutputs, WriteOutputs, O!WriteFails, WriteFails,
         O!RenderConfig, RenderConfig, O!InitialState, InitialState
<1>5. O!OnboardTypeOK <=> OnboardTypeOK
  BY <1>2 DEF O!OnboardTypeOK, OnboardTypeOK, O!Value, Value, O!Config, Config, O!Optional, Optional,
              O!StateFile, StateFile
<1>6. O!OnboardInit <=> OnboardInit
  BY <1>2 DEF O!OnboardInit, OnboardInit
<1>7. \A sent : O!Opening(sent) <=> Opening(sent)
  BY DEF O!Opening, Opening
<1> QED
  BY <1>2, <1>3, <1>4, <1>5, <1>6, <1>7

-----------------------------------------------------------------------------
Facts == [Field -> Value \cup {None}]

LEMMA Distinct ==
  /\ FromCloud \notin Devices /\ None \notin Value /\ Default \notin Value
  /\ Misread \notin Value /\ Torn \notin Value
  /\ None \notin Devices /\ None # Default /\ None # Torn /\ None # Misread
  /\ Default # Misread /\ Devices \subseteq Value /\ FromCloud \in Value
  /\ \A d \in Devices : Chatter[d] \in Value
  BY OnboardAssumption DEF Value

(* What a device or the cloud tells is recorded under some of the fields;  *)
(* for its firmware the device may have said another word.                 *)
LEMMA RecordsFacts ==
  ASSUME NEW f \in Facts, NEW value \in Value, NEW keys \in SUBSET Field
  PROVE  Record(f, keys, value) \in Facts
  BY DEF Record, Facts

Said(keys, value, d) == value = d \/ (value = Chatter[d] /\ keys = {"firmware"})

LEMMA DeviceRecords ==
  ASSUME NEW f \in Facts, NEW d, NEW p
  PROVE  \E keys \in SUBSET Field, value \in {d, Chatter[d]} :
           Said(keys, value, d) /\ ApplyDevice(f, d, p) = Record(f, keys, value)
<1>1. f = Record(f, {}, d)
  BY DEF Record, Facts
<1>2. \/ ApplyDevice(f, d, p) \in {Record(f, {"rid", "user", "pass"}, d), Record(f, {"rid"}, d),
                                  Record(f, {"firmware"}, d), Record(f, {"sensor", "name", "seed"}, d), f}
      \/ ApplyDevice(f, d, p) = Record(f, {"firmware"}, Chatter[d])
  BY DEF ApplyDevice
<1>3. ASSUME NEW keys \in SUBSET Field, ApplyDevice(f, d, p) = Record(f, keys, d)
      PROVE  \E ks \in SUBSET Field, value \in {d, Chatter[d]} :
               Said(ks, value, d) /\ ApplyDevice(f, d, p) = Record(f, ks, value)
  BY <1>3 DEF Said
<1>4. /\ {"rid", "user", "pass"} \in SUBSET Field /\ {"rid"} \in SUBSET Field
      /\ {"firmware"} \in SUBSET Field /\ {"sensor", "name", "seed"} \in SUBSET Field
      /\ {} \in SUBSET Field
  BY DEF Field, Optional
<1>5. CASE ApplyDevice(f, d, p) = Record(f, {"firmware"}, Chatter[d])
  BY <1>4, <1>5 DEF Said
<1> QED
  BY <1>1, <1>2, <1>3, <1>4, <1>5

LEMMA CloudRecords ==
  ASSUME NEW f \in Facts, NEW p
  PROVE  \E keys \in SUBSET Field : ApplyCloud(f, p) = Record(f, keys, FromCloud)
<1>1. f = Record(f, {}, FromCloud)
  BY DEF Record, Facts
<1>2. ApplyCloud(f, p) \in {Record(f, {"firmware"}, FromCloud), Record(f, {"sensor", "name", "seed"}, FromCloud),
                           Record(f, {"seed"}, FromCloud), Record(f, {"skip"}, FromCloud),
                           Record(f, {"sensor", "skip", "repeat"}, FromCloud), f}
  BY DEF ApplyCloud
<1> QED
  BY <1>1, <1>2 DEF Field, Optional

(* Complete facts make a configuration and a state. *)
LEMMA Renders ==
  ASSUME NEW f \in Facts, IsComplete(f)
  PROVE  /\ RenderConfig(f) \in Config /\ InitialState(RenderConfig(f)) \in StateFile
         /\ IsComplete(RenderConfig(f))
         /\ \A k \in Field :
              \/ RenderConfig(f)[k] = f[k]
              \/ k \in Optional /\ f[k] = None /\ RenderConfig(f)[k] = Default
<1>1. \A k \in Field \ Optional : f[k] \in Value /\ RenderConfig(f)[k] = f[k]
  BY DEF Facts, IsComplete, RenderConfig
<1>2. \A k \in Field :
        /\ RenderConfig(f)[k] \in Value \cup {Default}
        /\ \/ RenderConfig(f)[k] = f[k]
           \/ k \in Optional /\ f[k] = None /\ RenderConfig(f)[k] = Default
  BY <1>1 DEF Facts, RenderConfig
<1>3. RenderConfig(f) = [k \in Field |-> RenderConfig(f)[k]]
  BY DEF RenderConfig
<1>4. RenderConfig(f) \in [Field -> Value \cup {Default}]
  BY <1>2, <1>3
<1>5. RenderConfig(f) \in Config
  BY <1>1, <1>4, Distinct DEF Config
<1>6. IsComplete(RenderConfig(f))
  BY <1>1, Distinct DEF IsComplete
<1>7. InitialState(RenderConfig(f)) \in StateFile
  BY <1>2 DEF InitialState, StateFile, Field, Optional
<1> QED
  BY <1>2, <1>5, <1>6, <1>7

(* maybe_finalize leaves the files alone, writes both, or fails. *)
LEMMA Finalizes ==
  ASSUME NEW f, MaybeFinalize(f)
  PROVE  \/ UNCHANGED outputs
         \/ /\ IsComplete(f) /\ ~written /\ written' = TRUE /\ faults' = faults
            /\ config' = RenderConfig(f) /\ state' = InitialState(RenderConfig(f))
         \/ /\ IsComplete(f) /\ ~written /\ written' = FALSE
            /\ faults < MaxFaults /\ faults' = faults + 1
            /\ config' \in {config, Torn, RenderConfig(f)} /\ state' = state
  BY DEF MaybeFinalize, WriteOutputs, WriteFails

(* A step of either mode leaves what is known and the files alone, records *)
(* something and may then finalize, forgets, or is a new run.              *)
Tells(value, keys) == /\ facts' = Record(facts, keys, value)
                      /\ MaybeFinalize(facts') \/ UNCHANGED outputs
Counts == \/ faults' = faults
          \/ faults < MaxFaults /\ faults' = faults + 1
Keeps == UNCHANGED <<facts, written, config, state>> /\ Counts
Forgets == facts' = NoFacts /\ UNCHANGED <<config, state>> /\ Counts

(* What the modes hold only while they run; what one device has told. *)
Own(k, d) == IF k = "firmware" THEN {d, Chatter[d]} ELSE {d}
OwnFacts(f, d) == \A k \in Field : f[k] \in {None} \cup Own(k, d)
HoldsInMode ==
  /\ heldDevice # None => mode = "learn" /\ conn # None
  /\ inChunk => mode = "observe" /\ conn # None
  /\ mode = "observe" /\ conn # None => OwnFacts(facts, conn)

LEMMA FactsTypes == TypeOK => /\ facts \in Facts /\ OnboardTypeOK
                             /\ NoFacts \in Facts
                             /\ conn \in Devices \cup {None}
  BY ObserveShares DEF TypeOK, O!TypeOK, OnboardTypeOK, Facts, NoFacts

LEMMA LearnTells ==
  ASSUME TypeOK, HoldsInMode, RunLearn
  PROVE  \/ Keeps
         \/ \E value \in Value, keys \in SUBSET Field : Tells(value, keys)
         \/ Forgets /\ written' = FALSE
<1>1. facts \in Facts /\ conn \in Devices \cup {None}
  BY FactsTypes
<1>2. ASSUME L!TeeDevice
      PROVE  \E value \in Value, keys \in SUBSET Field : Tells(value, keys)
  <2>1. conn \in Value /\ Chatter[conn] \in Value
    BY <1>1, <1>2, Distinct DEF L!TeeDevice, HoldsInMode
  <2>2. PICK keys \in SUBSET Field, value \in {conn, Chatter[conn]} :
          ApplyDevice(facts, conn, heldDevice) = Record(facts, keys, value)
    BY <1>1, DeviceRecords
  <2>3. facts' = Record(facts, keys, value) /\ MaybeFinalize(facts')
    BY <1>2, <2>2, LearnShares DEF L!TeeDevice
  <2> QED
    BY <2>1, <2>3 DEF Tells
<1>3. ASSUME L!TeeCloud
      PROVE  \E value \in Value, keys \in SUBSET Field : Tells(value, keys)
  <2>1. PICK keys \in SUBSET Field : ApplyCloud(facts, Head(heldCloud)) = Record(facts, keys, FromCloud)
    BY <1>1, CloudRecords
  <2>2. facts' = Record(facts, keys, FromCloud) /\ (MaybeFinalize(facts') \/ UNCHANGED outputs)
    BY <1>3, <2>1, LearnShares DEF L!TeeCloud, L!outputs, outputs
  <2> QED
    BY <2>2, Distinct DEF Tells
<1>4. ASSUME L!Restart PROVE Forgets /\ written' = FALSE
  BY <1>4, LearnShares DEF L!Restart, L!Fault, Forgets, Counts
<1>5. ASSUME L!TearDown PROVE Keeps
  BY <1>5 DEF L!TearDown, L!Fault, Keeps, Counts
<1>6. ASSUME \/ \E d \in Devices : L!Accept(d)
             \/ L!ForwardDevice \/ L!ForwardCloud \/ L!Ping \/ L!Leave
      PROVE  Keeps
  BY <1>6, LearnShares DEF L!Accept, Opening, L!ForwardDevice, L!ForwardCloud, L!Ping, L!Leave, L!outputs, Keeps, Counts
<1> QED
  BY <1>2, <1>3, <1>4, <1>5, <1>6 DEF RunLearn, L!Next, L!Proxy

LEMMA ObserveTells ==
  ASSUME TypeOK, RunObserve
  PROVE  \/ Keeps
         \/ /\ conn \in Devices
            /\ \E keys \in SUBSET Field, value \in {conn, Chatter[conn]} :
                 Said(keys, value, conn) /\ Tells(value, keys)
         \/ Forgets /\ written' \in {FALSE, written}
<1>1. facts \in Facts /\ conn \in Devices \cup {None}
  BY FactsTypes
<1>2. ASSUME NEW packet \in O!Packets, O!Handle(packet)
      PROVE  /\ conn \in Devices
             /\ \E keys \in SUBSET Field, value \in {conn, Chatter[conn]} :
                  Said(keys, value, conn) /\ Tells(value, keys)
  <2>1. PICK keys \in SUBSET Field, value \in {conn, Chatter[conn]} :
          Said(keys, value, conn) /\ ApplyDevice(facts, conn, packet) = Record(facts, keys, value)
    BY <1>1, DeviceRecords
  <2>2. facts' = Record(facts, keys, value) /\ (MaybeFinalize(facts') \/ UNCHANGED outputs)
    BY <1>2, <2>1, ObserveShares DEF O!Handle, O!outputs, outputs
  <2>3. conn \in Devices
    BY <1>1, <1>2 DEF O!Handle
  <2> QED
    BY <2>1, <2>2, <2>3 DEF Tells
<1>3. ASSUME \E d \in Devices : O!Accept(d) PROVE Forgets /\ written' = written
  BY <1>3, ObserveShares DEF O!Accept, Opening, Forgets, Counts
<1>4. ASSUME O!Restart PROVE Forgets /\ written' = FALSE
  BY <1>4, ObserveShares DEF O!Restart, O!Fault, Forgets, Counts
<1>5. ASSUME O!HandleDisconnect \/ O!Report \/ O!GiveUp \/ O!TearDown \/ O!Vanish PROVE Keeps
  BY <1>5 DEF O!HandleDisconnect, O!Report, O!GiveUp, O!TearDown, O!Vanish, O!Ended, O!outputs, O!Fault, Keeps, Counts
<1> QED
  BY <1>2, <1>3, <1>4, <1>5 DEF RunObserve, O!Next

-----------------------------------------------------------------------------
(* TypeOK, with what Learn and Observe share said once. *)
Typed ==
  /\ mode \in Modes
  /\ OnboardTypeOK
  /\ conn \in Devices \cup {None} /\ script \in Seq(Packets)
  /\ heldDevice \in Packets \cup {None}
  /\ retained \in Seq(CloudPackets) /\ heldCloud \in Seq(CloudPackets)
  /\ gone \in BOOLEAN /\ subscribed \in BOOLEAN /\ seeded \in BOOLEAN
  /\ inChunk \in BOOLEAN /\ (inChunk => script # <<>>)
  /\ told \in Value \cup {None, Default}
  /\ serving \in [config : Loaded, last : StateFile] \cup {None}

LEMMA TypeParts == (TypeOK <=> Typed) /\ (TypeOK' <=> Typed')
  BY DEF TypeOK, Typed, L!TypeOK, O!TypeOK, L!OnboardTypeOK, O!OnboardTypeOK, OnboardTypeOK,
         L!Packets, O!Packets, Packets, L!CloudPackets, CloudPackets, L!Field, O!Field, Field,
         L!Optional, O!Optional, Optional, L!Value, O!Value, Value, L!Config, O!Config, Config, L!StateFile, O!StateFile, StateFile

LEMMA EffectTypes ==
  ASSUME OnboardTypeOK,
         \/ Keeps
         \/ \E value \in Value, keys \in SUBSET Field : Tells(value, keys)
         \/ Forgets /\ written' \in {FALSE, written}
  PROVE  OnboardTypeOK'
<1>1. facts \in Facts /\ NoFacts \in Facts
  BY DEF OnboardTypeOK, Facts, NoFacts
<1>2. ASSUME Counts PROVE faults' \in 0..MaxFaults
  BY <1>2, OnboardAssumption DEF Counts, OnboardTypeOK
<1>3. CASE Keeps \/ (Forgets /\ written' \in {FALSE, written})
  BY <1>1, <1>2, <1>3 DEF Keeps, Forgets, OnboardTypeOK, Facts
<1>4. ASSUME NEW value \in Value, NEW keys \in SUBSET Field, Tells(value, keys)
      PROVE  OnboardTypeOK'
  <2>1. facts' \in Facts /\ (MaybeFinalize(facts') \/ UNCHANGED outputs)
    BY <1>1, <1>4, RecordsFacts DEF Tells
  <2>2. CASE UNCHANGED outputs
    BY <2>1, <2>2 DEF outputs, OnboardTypeOK, Facts
  <2>3. CASE IsComplete(facts') /\ MaybeFinalize(facts')
    <3>1. RenderConfig(facts') \in Config /\ InitialState(RenderConfig(facts')) \in StateFile
      BY <2>1, <2>3, Renders
    <3>2. ASSUME faults < MaxFaults, faults' = faults + 1 PROVE faults' \in 0..MaxFaults
      BY <3>2, <1>2 DEF Counts
    <3>3. \/ UNCHANGED outputs
          \/ /\ written' = TRUE /\ faults' = faults
             /\ config' = RenderConfig(facts') /\ state' = InitialState(RenderConfig(facts'))
          \/ /\ written' = FALSE
             /\ faults < MaxFaults /\ faults' = faults + 1
             /\ config' \in {config, Torn, RenderConfig(facts')} /\ state' = state
      BY <2>3, Finalizes
    <3> QED
      BY <2>1, <2>2, <3>1, <3>2, <3>3 DEF OnboardTypeOK, Facts
  <2> QED
    BY <2>1, <2>2, <2>3, Finalizes
<1> QED
  BY <1>3, <1>4

(* The steps of learn. *)
LEMMA LearnKeepsTypes ==
  ASSUME Typed, HoldsInMode, RunLearn
  PROVE  Typed' /\ HoldsInMode'
<1>1. /\ OnboardTypeOK' /\ UNCHANGED <<mode, serving, gone, inChunk, subscribed, seeded, told>>
      /\ mode = "learn" /\ inChunk = FALSE
  <2>1. OnboardTypeOK'
    BY LearnTells, EffectTypes, TypeParts DEF Typed
  <2> QED
    BY <2>1 DEF RunLearn, observeLink, HoldsInMode, Typed
<1> DEFINE LinkTypes == /\ conn' \in Devices \cup {None} /\ script' \in Seq(Packets)
                        /\ heldDevice' \in Packets \cup {None}
                        /\ retained' \in Seq(CloudPackets) /\ heldCloud' \in Seq(CloudPackets)
                        /\ heldDevice' # None => conn' # None
<1>2. ASSUME \E d \in Devices : L!Accept(d) PROVE LinkTypes
  <2>1. script' \in Seq(Packets)
    BY <1>2, LearnShares, OnboardAssumption DEF L!Accept, Opening
  <2> QED
    BY <1>2, <2>1, Distinct DEF L!Accept, Typed, HoldsInMode
<1>3. ASSUME L!ForwardDevice PROVE LinkTypes
  <2>1. /\ script' \in {Tail(script), <<"close">>}
        /\ heldDevice' = Head(script) /\ script # <<>> /\ conn # None
        /\ UNCHANGED <<conn, heldCloud>>
        /\ retained' = retained \/ \E r \in Replies : retained' = retained \o r
    BY <1>3 DEF L!ForwardDevice
  <2>2. Tail(script) \in Seq(Packets) /\ <<"close">> \in Seq(Packets) /\ Head(script) \in Packets
    BY <2>1 DEF Typed, Packets
  <2>3. \A r \in Replies : r \in Seq(CloudPackets)
    BY OnboardAssumption
  <2>4. retained' \in Seq(CloudPackets)
    BY <2>1, <2>3, ConcatProperties DEF Typed
  <2> QED
    BY <2>1, <2>2, <2>4 DEF Typed
<1>4. ASSUME L!TeeDevice PROVE LinkTypes
  BY <1>4 DEF L!TeeDevice, Typed
<1>5. ASSUME L!ForwardCloud PROVE LinkTypes
  <2>1. PICK k \in 1..Len(retained) : /\ heldCloud' = SubSeq(retained, 1, k)
                                     /\ retained' = SubSeq(retained, k + 1, Len(retained))
    BY <1>5 DEF L!ForwardCloud
  <2>2. heldCloud' \in Seq(CloudPackets)
    BY <2>1 DEF Typed
  <2>3. retained' \in Seq(CloudPackets)
    BY <2>1 DEF Typed
  <2>4. UNCHANGED <<conn, script, heldDevice>>
    BY <1>5 DEF L!ForwardCloud
  <2> QED
    BY <2>2, <2>3, <2>4 DEF Typed, HoldsInMode
<1>6. ASSUME L!TeeCloud PROVE LinkTypes
  BY <1>6 DEF L!TeeCloud, Typed, HoldsInMode
<1>7. ASSUME L!Ping PROVE LinkTypes
  <2>1. <<"ping">> \in Seq(Packets)
    BY DEF Packets
  <2> QED
    BY <1>7, <2>1 DEF L!Ping, Typed
<1>8. ASSUME L!Leave \/ L!TearDown \/ L!Restart PROVE LinkTypes
  BY <1>8, EmptySeq DEF L!Leave, L!TearDown, L!Restart, L!NoLink
<1>9. LinkTypes
  <2> HIDE DEF LinkTypes
  <2> QED
    BY <1>2, <1>3, <1>4, <1>5, <1>6, <1>7, <1>8 DEF RunLearn, L!Next, L!Proxy
<1> QED
  BY <1>1, <1>9 DEF Typed, HoldsInMode

(* The steps of observe. *)
LEMMA ObserveKeepsTypes ==
  ASSUME Typed, HoldsInMode, RunObserve
  PROVE  Typed' /\ HoldsInMode'
<1>1. /\ OnboardTypeOK'
      /\ mode = "observe" /\ heldDevice = None
      /\ UNCHANGED <<mode, serving, heldDevice, retained, heldCloud>>
  <2>1. OnboardTypeOK'
    BY ObserveTells, EffectTypes, TypeParts, Distinct DEF Typed
  <2> QED
    BY <2>1 DEF RunObserve, learnLink, HoldsInMode, Typed
<1>2. facts \in Facts
  BY DEF Typed, OnboardTypeOK, Facts
<1> DEFINE LinkTypes == /\ conn' \in Devices \cup {None} /\ script' \in Seq(Packets)
                        /\ gone' \in BOOLEAN /\ subscribed' \in BOOLEAN /\ seeded' \in BOOLEAN
                        /\ inChunk' \in BOOLEAN
                        /\ inChunk' => script' # <<>> /\ conn' # None
                        /\ told' \in Value \cup {None, Default}
                        /\ conn' # None => OwnFacts(facts', conn')
<1>3. ASSUME \E d \in Devices : O!Accept(d) PROVE LinkTypes
  <2>1. PICK d \in Devices : O!Accept(d)
    BY <1>3
  <2>2. facts' = NoFacts /\ conn = None /\ conn' = d /\ UNCHANGED <<gone, inChunk>>
        /\ subscribed' = FALSE /\ seeded' = FALSE /\ told' = None
    BY <2>1, ObserveShares DEF O!Accept
  <2>3. script' \in Seq(Packets)
    BY <2>1, ObserveShares, OnboardAssumption DEF O!Accept, Opening
  <2>4. OwnFacts(facts', conn')
    BY <2>2 DEF NoFacts, OwnFacts
  <2> QED
    BY <2>2, <2>3, <2>4 DEF Typed, HoldsInMode
<1>4. ASSUME NEW packet \in O!Packets, O!Handle(packet) PROVE LinkTypes
  <2>1. /\ conn' = conn /\ conn # None /\ gone' = gone
        /\ script' = Tail(script) /\ script # <<>>
        /\ subscribed' = (subscribed \/ packet = "subscribe")
        /\ facts' = ApplyDevice(facts, conn, packet)
        /\ \/ inChunk' = FALSE /\ O!Seed(facts', subscribed')
           \/ inChunk' = TRUE /\ script' # <<>> /\ UNCHANGED <<seeded, told>>
    BY <1>4, ObserveShares DEF O!Handle
  <2>2. conn \in Devices
    BY <2>1 DEF Typed
  <2>3. OwnFacts(facts', conn)
    <3>1. OwnFacts(facts, conn)
      BY <1>1, <2>1 DEF HoldsInMode
    <3>2. PICK keys \in SUBSET Field, value \in {conn, Chatter[conn]} :
            Said(keys, value, conn) /\ facts' = Record(facts, keys, value)
      BY <1>2, <2>1, DeviceRecords
    <3> QED
      BY <3>1, <3>2 DEF Record, Said, OwnFacts, Own
  <2>4. script' \in Seq(Packets)
    BY <2>1 DEF Typed
  <2>5. seeded' \in BOOLEAN /\ told' \in Value \cup {None, Default}
    <3>1. facts'["firmware"] \in {None, conn, Chatter[conn]}
      BY <2>3 DEF OwnFacts, Own, Field
    <3> QED
      BY <2>1, <2>2, <3>1, Distinct DEF O!Seed, Typed
  <2> QED
    BY <2>1, <2>2, <2>3, <2>4, <2>5 DEF Typed
<1>5. ASSUME O!Report PROVE LinkTypes
  <2>1. <<"read">> \in Seq(Packets) /\ <<"ping", "read">> \in Seq(Packets)
    BY DEF Packets
  <2>2. /\ script' \in {<<"read">>, <<"ping", "read">>} /\ script' # <<>>
        /\ UNCHANGED <<facts, conn, gone, inChunk, subscribed, seeded, told>>
    BY <1>5 DEF O!Report
  <2> QED
    BY <1>1, <2>1, <2>2 DEF Typed, HoldsInMode
<1>6. ASSUME O!HandleDisconnect \/ O!GiveUp \/ O!TearDown \/ O!Restart PROVE LinkTypes
  <2>1. /\ conn' = None /\ gone' = FALSE /\ script' = <<>> /\ inChunk' = FALSE
        /\ \/ UNCHANGED <<subscribed, seeded, told>>
           \/ subscribed' = FALSE /\ seeded' = FALSE /\ told' = None
    BY <1>6 DEF O!HandleDisconnect, O!GiveUp, O!TearDown, O!Restart, O!Ended
  <2> QED
    BY <2>1, EmptySeq DEF Typed
<1>7. ASSUME O!Vanish PROVE LinkTypes
  BY <1>1, <1>7 DEF O!Vanish, Typed, HoldsInMode
<1>8. LinkTypes
  <2> HIDE DEF LinkTypes
  <2> QED
    BY <1>3, <1>4, <1>5, <1>6, <1>7 DEF RunObserve, O!Next
<1> QED
  BY <1>1, <1>8 DEF Typed, HoldsInMode

(* What Config::load can make of a file, and the state that goes with it.  *)
LEMMA LoadsTypes ==
  ASSUME NEW c, NEW l \in Loads(c), l # None
  PROVE  l \in Loaded
<1>1. c \in Config
  BY DEF Loads
<1>2. CASE l = c
  BY <1>1, <1>2 DEF Config, Loaded
<1>3. CASE l = [k \in Field |-> IF <<k, c[k]>> \in Escapes THEN Misread ELSE c[k]]
  BY <1>1, <1>3 DEF Config, Loaded
<1> QED
  BY <1>1, <1>2, <1>3 DEF Loads

LEMMA FirstState ==
  ASSUME NEW c \in Loaded
  PROVE  InitialState(c) \in StateFile
  BY DEF Loaded, InitialState, StateFile, Field, Optional

(* A new run, in any mode. *)
LEMMA RunsKeepTypes ==
  ASSUME Typed, HoldsInMode, StartServe \/ \E m \in {"learn", "observe"} : Onboard(m)
  PROVE  Typed' /\ HoldsInMode'
<1>1. /\ conn' = None /\ script' = <<>> /\ heldDevice' = None /\ retained' = <<>> /\ heldCloud' = <<>>
      /\ gone' = FALSE /\ inChunk' = FALSE /\ subscribed' = FALSE /\ seeded' = FALSE /\ told' = None
  BY DEF StartServe, Onboard, NothingHeld, L!NoLink
<1>2. mode' \in Modes
  BY DEF StartServe, Onboard, Modes
<1>3. OnboardTypeOK' /\ serving' \in [config : Loaded, last : StateFile] \cup {None}
  <2>1. faults' \in 0..MaxFaults
    BY OnboardAssumption DEF StartServe, Onboard, Typed, OnboardTypeOK
  <2>2. ASSUME NEW m \in {"learn", "observe"}, Onboard(m)
        PROVE  OnboardTypeOK' /\ serving' \in [config : Loaded, last : StateFile] \cup {None}
    BY <2>1, <2>2 DEF Onboard, Typed, OnboardTypeOK, NoFacts
  <2>3. ASSUME StartServe
        PROVE  OnboardTypeOK' /\ serving' \in [config : Loaded, last : StateFile] \cup {None}
    <3>1. UNCHANGED <<facts, written, config>>
      BY <2>3 DEF StartServe
    <3>2. CASE serving' = None /\ state' = state
      BY <2>1, <3>1, <3>2 DEF Typed, OnboardTypeOK
    <3>3. ASSUME NEW c \in Loads(config), c # None,
                 serving' = [config |-> c, last |-> InitialRuntime(c)],
                 state' \in {state, InitialRuntime(c)}
          PROVE  OnboardTypeOK' /\ serving' \in [config : Loaded, last : StateFile] \cup {None}
      <4>1. c \in Loaded
        BY <3>3, LoadsTypes
      <4>2. InitialRuntime(c) \in StateFile
        BY <4>1, FirstState DEF InitialRuntime, Typed, OnboardTypeOK
      <4> QED
        BY <2>1, <3>1, <3>3, <4>1, <4>2 DEF Typed, OnboardTypeOK
    <3> QED
      BY <2>3, <3>2, <3>3 DEF StartServe
  <2> QED
    BY <2>2, <2>3
<1> QED
  BY <1>1, <1>2, <1>3, EmptySeq DEF Typed, HoldsInMode

LEMMA TypeInit == Init => Typed /\ HoldsInMode
<1> SUFFICES ASSUME Init PROVE Typed /\ HoldsInMode
  OBVIOUS
<1>1. OnboardTypeOK
  <2>1. OnboardInit
    BY LearnShares DEF Init, L!Init
  <2>2. 0 \in 0..MaxFaults
    BY OnboardAssumption
  <2> QED
    BY <2>1, <2>2 DEF OnboardInit, OnboardTypeOK, NoFacts
<1> QED
  BY <1>1, EmptySeq DEF Init, L!Init, O!Init, Modes, Typed, HoldsInMode

LEMMA TypeStep == Typed /\ HoldsInMode /\ [Next]_vars => Typed' /\ HoldsInMode'
<1> SUFFICES ASSUME Typed, HoldsInMode, [Next]_vars PROVE Typed' /\ HoldsInMode'
  OBVIOUS
<1>1. CASE UNCHANGED vars
  BY <1>1 DEF vars, outputs, learnLink, observeLink, Typed, HoldsInMode, OnboardTypeOK
<1>2. CASE Next
  BY <1>2, LearnKeepsTypes, ObserveKeepsTypes, RunsKeepTypes DEF Next
<1> QED
  BY <1>1, <1>2

(* main.rs:18-32, onboard.rs:388-606: whatever mode is run after whatever  *)
(* other, facts, files and connections keep their types, and what one mode *)
(* holds is gone when another runs.                                        *)
LEMMA TypeInv == Spec => [](Typed /\ HoldsInMode)
  BY TypeInit, TypeStep, PTL DEF Spec

THEOREM TypeCorrect == Spec => []TypeOK
  BY TypeInv, TypeParts, PTL

-----------------------------------------------------------------------------
(* What a step does to the facts and to the files. *)
Runs == UNCHANGED <<mode, serving>> /\ mode \in {"learn", "observe"}

LEMMA StepEffects ==
  ASSUME Typed, HoldsInMode, Next
  PROVE  \/ Runs /\ Keeps
         \/ /\ Runs
            /\ \E value \in Value, keys \in SUBSET Field : Tells(value, keys)
         \/ Runs /\ Forgets /\ (written' = FALSE \/ (mode = "observe" /\ written' = written))
         \/ \E m \in {"learn", "observe"} : Onboard(m)
         \/ StartServe
<1>1. ASSUME RunLearn
      PROVE  /\ Runs
             /\ \/ Keeps
                \/ \E value \in Value, keys \in SUBSET Field : Tells(value, keys)
                \/ Forgets /\ written' = FALSE
  BY <1>1, LearnTells, TypeParts DEF RunLearn, Runs
<1>2. ASSUME RunObserve
      PROVE  /\ Runs /\ mode = "observe"
             /\ \/ Keeps
                \/ \E value \in Value, keys \in SUBSET Field : Tells(value, keys)
                \/ Forgets /\ written' \in {FALSE, written}
  BY <1>2, ObserveTells, TypeParts, Distinct DEF RunObserve, Runs
<1> QED
  BY <1>1, <1>2 DEF Next

(* The two ways in which the files are touched in a run, and the one in    *)
(* which they become `written`. *)
LEMMA TellsOutputs ==
  ASSUME Typed, NEW value \in Value, NEW keys \in SUBSET Field, Tells(value, keys)
  PROVE  /\ facts' \in Facts
         /\ \/ UNCHANGED <<written, config, state>>
            \/ /\ ~written /\ written' = TRUE /\ IsComplete(facts')
               /\ config' = RenderConfig(facts') /\ state' = InitialState(RenderConfig(facts'))
            \/ ~written /\ written' = FALSE
<1>1. facts' \in Facts
  BY RecordsFacts DEF Tells, Typed, OnboardTypeOK, Facts
<1> QED
  BY <1>1, Finalizes DEF Tells, outputs

(* serve starts from the files of a run that wrote both and leaves them.   *)
LEMMA StartKeepsWritten ==
  ASSUME WrittenMeansBoth, StartServe
  PROVE  /\ UNCHANGED <<written, config>>
         /\ written => state' = state
<1>1. UNCHANGED <<written, config>> /\ \/ state' = state
                                       \/ \E c \in Loads(config) : state' = InitialRuntime(c)
  BY DEF StartServe
<1>2. ASSUME written PROVE \A c : InitialRuntime(c) = state
  <2>1. config \in Loaded
    BY <1>2 DEF WrittenMeansBoth, Config, Loaded
  <2>2. state \in StateFile
    BY <1>2, <2>1, FirstState DEF WrittenMeansBoth
  <2> QED
    BY <2>2, NothingAssumption DEF InitialRuntime
<1> QED
  BY <1>1, <1>2

LEMMA WrittenStep ==
  ASSUME Typed, HoldsInMode, WrittenMeansBoth, [Next]_vars
  PROVE  WrittenMeansBoth'
<1>1. CASE UNCHANGED vars
  BY <1>1 DEF vars, outputs, WrittenMeansBoth, InitialState, IsComplete
<1>2. CASE UNCHANGED <<written, config, state>>
  BY <1>2 DEF WrittenMeansBoth, InitialState, IsComplete
<1>3. CASE written' = FALSE
  BY <1>3 DEF WrittenMeansBoth
<1>4. CASE \E value \in Value, keys \in SUBSET Field : Tells(value, keys)
  <2>1. PICK value \in Value, keys \in SUBSET Field : Tells(value, keys)
    BY <1>4
  <2>2. CASE IsComplete(facts') /\ config' = RenderConfig(facts') /\ state' = InitialState(RenderConfig(facts'))
    <3>1. /\ config' \in Config /\ state' = InitialState(config') /\ IsComplete(config')
      BY <2>1, <2>2, TellsOutputs, Renders
    <3> QED
      BY <3>1 DEF WrittenMeansBoth, InitialState, IsComplete
  <2> QED
    BY <2>1, <2>2, <1>2, <1>3, TellsOutputs
<1>5. CASE StartServe
  <2>1. UNCHANGED <<written, config>> /\ (written => state' = state)
    BY <1>5, StartKeepsWritten
  <2> QED
    BY <1>2, <2>1 DEF WrittenMeansBoth
<1>6. CASE \E m \in {"learn", "observe"} : Onboard(m)
  BY <1>3, <1>6 DEF Onboard
<1>7. CASE Keeps \/ (Forgets /\ (written' = FALSE \/ written' = written))
  BY <1>2, <1>3, <1>7 DEF Keeps, Forgets
<1> QED
  BY <1>1, <1>4, <1>5, <1>6, <1>7, StepEffects

LEMMA WrittenInv == Spec => [](Typed /\ HoldsInMode /\ WrittenMeansBoth)
<1>1. Init => WrittenMeansBoth
  BY LearnShares DEF Init, L!Init, OnboardInit, WrittenMeansBoth
<1> QED
  BY <1>1, TypeInit, TypeStep, WrittenStep, PTL DEF Spec

(* onboard.rs:377-383: whichever write fails and whatever is run after     *)
(* what, once an onboarding run has said that it is complete the two files *)
(* are whole and were made from the same complete facts.                   *)
THEOREM WrittenAlwaysMeansBoth == Spec => []WrittenMeansBoth
  BY WrittenInv, PTL

-----------------------------------------------------------------------------
LEMMA OnceStep ==
  ASSUME Typed, HoldsInMode, WrittenMeansBoth, [Next]_vars, written, written'
  PROVE  UNCHANGED <<config, state>>
<1>1. CASE UNCHANGED vars
  BY <1>1 DEF vars, outputs
<1>2. CASE \E value \in Value, keys \in SUBSET Field : Tells(value, keys)
  BY <1>2, TellsOutputs
<1>3. CASE StartServe
  BY <1>3, StartKeepsWritten
<1>4. CASE Keeps \/ Forgets \/ \E m \in {"learn", "observe"} : Onboard(m)
  BY <1>4 DEF Keeps, Forgets, Onboard
<1> QED
  BY <1>1, <1>2, <1>3, <1>4, StepEffects

(* onboard.rs:366-368: neither file is touched again in a run that has     *)
(* written them, nor by the start of serve after it.                       *)
THEOREM WrittenOnlyOnce == Spec => WrittenOnce
<1>1. Typed /\ HoldsInMode /\ WrittenMeansBoth /\ [Next]_vars
        => [written /\ written' => UNCHANGED <<config, state>>]_<<written, config, state>>
  BY OnceStep
<1> QED
  BY <1>1, WrittenInv, PTL DEF Spec, WrittenOnce

-----------------------------------------------------------------------------
Agrees(c, f) == \A k \in Field : c[k] = f[k] \/ (k \in Optional /\ c[k] = Default)

LEMMA AgreesUnfolds ==
  /\ ConfigAgrees <=> (mode = "learn" => (written => Agrees(config, facts)))
  /\ ConfigAgrees' <=> (mode' = "learn" => (written' => Agrees(config', facts')))
  BY DEF ConfigAgrees, L!ConfigAgrees, L!Field, Field, L!Optional, Optional, Agrees

LEMMA AgreesStep ==
  ASSUME Typed, HoldsInMode, WrittenMeansBoth, ConfigAgrees, [Next]_vars
  PROVE  ConfigAgrees'
<1> SUFFICES ASSUME mode' = "learn", written' PROVE Agrees(config', facts')
  BY AgreesUnfolds
<1>1. CASE UNCHANGED vars \/ (Runs /\ Keeps)
  BY <1>1, AgreesUnfolds DEF vars, outputs, Runs, Keeps
<1>2. ASSUME Runs, NEW value \in Value, NEW keys \in SUBSET Field, Tells(value, keys)
      PROVE  Agrees(config', facts')
  <2>1. facts \in Facts /\ facts' = Record(facts, keys, value)
    BY <1>2 DEF Tells, Typed, OnboardTypeOK, Facts
  <2>2. CASE UNCHANGED <<written, config, state>>
    <3>1. Agrees(config, facts) /\ config \in Config /\ IsComplete(config)
      BY <1>2, <2>2, AgreesUnfolds DEF Runs, WrittenMeansBoth
    <3>2. ASSUME NEW k \in Field PROVE config[k] = facts'[k] \/ (k \in Optional /\ config[k] = Default)
      <4>1. config[k] # None
        BY <3>1, Distinct DEF Config
      <4>2. facts[k] # None => facts'[k] = facts[k]
        BY <2>1 DEF Record
      <4> QED
        BY <3>1, <4>1, <4>2 DEF Agrees
    <3> QED
      BY <2>2, <3>2 DEF Agrees
  <2>3. CASE IsComplete(facts') /\ config' = RenderConfig(facts')
    BY <1>2, <2>3, TellsOutputs, Renders DEF Agrees
  <2> QED
    BY <1>2, <2>2, <2>3, TellsOutputs
<1>3. CASE Runs /\ Forgets /\ (written' = FALSE \/ (mode = "observe" /\ written' = written))
  BY <1>3 DEF Runs
<1>4. CASE StartServe \/ \E m \in {"learn", "observe"} : Onboard(m)
  BY <1>4 DEF StartServe, Onboard
<1> QED
  BY <1>1, <1>2, <1>3, <1>4, StepEffects

(* onboard.rs:388-390: what learn has written stays true of all that any   *)
(* device or the cloud tells it afterwards.                                *)
THEOREM ConfigAlwaysAgrees == Spec => []ConfigAgrees
<1>1. Init => ConfigAgrees
  BY AgreesUnfolds, LearnShares DEF Init, L!Init, OnboardInit
<1> QED
  BY <1>1, WrittenInv, AgreesStep, PTL DEF Spec

-----------------------------------------------------------------------------
Describes(c, d) == \A k \in Field : c[k] \in Own(k, d) \/ (k \in Optional /\ c[k] = Default)
OneDeviceHere == mode = "observe" /\ written => \E d \in Devices : Describes(config, d)

LEMMA OneUnfolds ==
  /\ O!OneDevice <=> (config \in Config => \E d \in Devices : Describes(config, d))
  BY DEF O!OneDevice, O!Config, Config, O!Field, Field, O!Optional, Optional, O!Value, Value,
         O!Own, Own, Describes

LEMMA OneStep ==
  ASSUME Typed, HoldsInMode, OneDeviceHere, [Next]_vars
  PROVE  OneDeviceHere'
<1> SUFFICES ASSUME mode' = "observe", written' PROVE \E d \in Devices : Describes(config', d)
  BY DEF OneDeviceHere
<1>1. CASE mode = "observe" /\ UNCHANGED <<written, config>>
  BY <1>1 DEF OneDeviceHere, Describes
<1>2. CASE UNCHANGED vars
  BY <1>1, <1>2 DEF vars, outputs
<1>3. CASE RunObserve
  <2>1. mode = "observe" /\ Typed' /\ HoldsInMode'
    BY <1>3, ObserveKeepsTypes DEF RunObserve
  <2>2. CASE Keeps \/ (Forgets /\ written' \in {FALSE, written})
    BY <1>1, <2>1, <2>2 DEF Keeps, Forgets
  <2>3. ASSUME conn \in Devices, NEW keys \in SUBSET Field, NEW value \in {conn, Chatter[conn]},
               Said(keys, value, conn), Tells(value, keys)
        PROVE  \E d \in Devices : Describes(config', d)
    <3>1. CASE UNCHANGED <<written, config, state>>
      BY <1>1, <2>1, <3>1
    <3>2. CASE ~written /\ IsComplete(facts') /\ config' = RenderConfig(facts')
      <4>1. OwnFacts(facts, conn)
        BY <2>1, <2>3, Distinct DEF HoldsInMode
      <4>2. OwnFacts(facts', conn)
        BY <2>3, <4>1 DEF Tells, Record, Said, OwnFacts, Own
      <4>3. facts' \in Facts
        BY <2>3, Distinct, TellsOutputs
      <4>4. ASSUME NEW k \in Field
            PROVE  config'[k] \in Own(k, conn) \/ (k \in Optional /\ config'[k] = Default)
        <5>1. \/ config'[k] = facts'[k]
              \/ k \in Optional /\ config'[k] = Default
          BY <3>2, <4>3, Renders
        <5>2. config'[k] # None
          BY <3>2, <4>3, Renders, Distinct DEF Config
        <5> QED
          BY <4>2, <5>1, <5>2 DEF OwnFacts
      <4> QED
        BY <2>3, <4>4 DEF Describes
    <3> QED
      BY <2>3, <3>1, <3>2, TellsOutputs, Distinct
  <2> QED
    BY <1>3, <2>2, <2>3, ObserveTells, TypeParts
<1>4. CASE RunLearn \/ StartServe \/ \E m \in {"learn", "observe"} : Onboard(m)
  BY <1>4 DEF RunLearn, StartServe, Onboard
<1> QED
  BY <1>2, <1>3, <1>4 DEF Next

(* onboard.rs:547: what a run of observe has written describes one device, *)
(* whichever devices connected before, between and after.                  *)
THEOREM AlwaysOneDevice == Spec => []OneDevice
<1>1. Init => OneDeviceHere
  BY LearnShares DEF Init, L!Init, OnboardInit, OneDeviceHere
<1>2. OneDeviceHere => OneDevice
  BY OneUnfolds DEF OneDeviceHere, OneDevice
<1> QED
  BY <1>1, <1>2, TypeInv, OneStep, PTL DEF Spec

-----------------------------------------------------------------------------
ToldHere ==
  mode = "observe" =>
    (conn # None /\ seeded => subscribed /\ told = facts["firmware"] /\ told \in Own("firmware", conn))

LEMMA ToldStep ==
  ASSUME Typed, HoldsInMode, ToldHere, [Next]_vars
  PROVE  ToldHere'
<1>1. CASE UNCHANGED vars
  BY <1>1 DEF vars, observeLink, ToldHere
<1>2. CASE RunObserve
  <2>1. mode = "observe" /\ mode' = mode /\ HoldsInMode'
    BY <1>2, ObserveKeepsTypes DEF RunObserve
  <2>2. ASSUME NEW packet \in O!Packets, O!Handle(packet) PROVE ToldHere'
    <3>1. conn' = conn /\ (subscribed => subscribed')
      BY <2>2 DEF O!Handle, Typed
    <3>2. CASE UNCHANGED <<seeded, told>>
      <4>1. ASSUME conn # None, seeded PROVE facts'["firmware"] = facts["firmware"]
        <5>1. facts["firmware"] # None
          BY <2>1, <4>1, Distinct DEF ToldHere, Own, Typed
        <5>2. PICK keys \in SUBSET Field, value \in {conn, Chatter[conn]} :
                facts' = Record(facts, keys, value)
          BY <2>2, ObserveShares, DeviceRecords DEF O!Handle, Typed, OnboardTypeOK, Facts
        <5> QED
          BY <5>1, <5>2 DEF Record, Field
      <4> QED
        BY <2>1, <3>1, <3>2, <4>1 DEF ToldHere
    <3>3. CASE subscribed' /\ facts'["firmware"] # None /\ told' = facts'["firmware"]
      <4>1. conn # None => facts'["firmware"] \in {None} \cup Own("firmware", conn)
        BY <2>1, <3>1 DEF HoldsInMode, OwnFacts, Field
      <4> QED
        BY <3>1, <3>3, <4>1 DEF ToldHere
    <3> QED
      BY <2>2, <3>2, <3>3 DEF O!Handle, O!Seed
  <2>3. CASE \E d \in Devices : O!Accept(d)
    BY <2>3 DEF O!Accept, ToldHere
  <2>4. CASE O!HandleDisconnect \/ O!GiveUp \/ O!TearDown \/ O!Restart
    BY <2>4 DEF O!HandleDisconnect, O!GiveUp, O!TearDown, O!Restart, O!Ended, ToldHere
  <2>5. CASE O!Report \/ O!Vanish
    BY <2>1, <2>5 DEF O!Report, O!Vanish, ToldHere
  <2> QED
    BY <1>2, <2>2, <2>3, <2>4, <2>5 DEF RunObserve, O!Next
<1>3. CASE RunLearn
  BY <1>3 DEF RunLearn, ToldHere
<1>4. CASE StartServe \/ \E m \in {"learn", "observe"} : Onboard(m)
  BY <1>4 DEF StartServe, Onboard, NothingHeld, L!NoLink, ToldHere
<1> QED
  BY <1>1, <1>2, <1>3, <1>4 DEF Next

(* onboard.rs:591-594: the version a device is told is the one its own log *)
(* named first, and it is told one only when it listens, whichever devices *)
(* connected before.                                                       *)
THEOREM AlwaysToldItsOwn == Spec => []ToldItsOwn
<1>1. Init => ToldHere
  BY DEF Init, L!Init, ToldHere
<1>2. ToldHere <=> ToldItsOwn
  BY DEF ToldHere, ToldItsOwn, O!ToldItsOwn, O!Own, Own
<1> QED
  BY <1>1, <1>2, TypeInv, ToldStep, PTL DEF Spec

-----------------------------------------------------------------------------
Starts == serving # None /\ serving.config = config /\ IsComplete(config)
          /\ serving.last = InitialState(config)
MustServe == mode = "serve" /\ written /\ (config \in Config => Plain(config))

LEMMA ServesUnfolds ==
  /\ ServesWhatWasLearned <=> (MustServe => Starts)
  /\ ServesWhatWasLearned' <=> (MustServe' => Starts')
  BY DEF ServesWhatWasLearned, MustServe, Starts

LEMMA ServesStep ==
  ASSUME Typed, HoldsInMode, WrittenMeansBoth, ServesWhatWasLearned, [Next]_vars
  PROVE  ServesWhatWasLearned'
<1>1. CASE UNCHANGED vars
  BY <1>1, ServesUnfolds DEF vars, outputs, MustServe, Starts, Plain, IsComplete, InitialState
<1>2. CASE StartServe
  <2> SUFFICES ASSUME MustServe' PROVE Starts'
    BY ServesUnfolds
  <2>1. UNCHANGED <<written, config>>
    BY <1>2 DEF StartServe
  <2>2. /\ config \in Config /\ state = InitialState(config) /\ IsComplete(config)
        /\ Plain(config)
    BY <2>1 DEF MustServe, WrittenMeansBoth, Plain
  <2>3. config \in Loaded /\ state \in StateFile /\ Loads(config) = {config}
    <3>1. config \in Loaded
      BY <2>2 DEF Config, Loaded
    <3> QED
      BY <2>2, <3>1, FirstState DEF Loads
  <2>4. serving' = [config |-> config, last |-> state]
    BY <1>2, <2>3, NothingAssumption DEF StartServe, InitialRuntime
  <2>5. serving' # None
    BY <2>3, <2>4, NothingAssumption
  <2> QED
    BY <2>1, <2>2, <2>4, <2>5 DEF Starts, IsComplete, InitialState
<1>3. CASE mode' # "serve"
  BY <1>3 DEF ServesWhatWasLearned
<1>4. ASSUME Runs \/ \E m \in {"learn", "observe"} : Onboard(m) PROVE mode' # "serve"
  BY <1>4 DEF Runs, Onboard
<1> QED
  BY <1>1, <1>2, <1>3, <1>4, StepEffects

(* onboard.rs:361, server.rs:130-164: the serve that is run after an       *)
(* onboarding run said that it is complete starts, and does so with that   *)
(* run's configuration and state, whatever earlier runs left or failed to  *)
(* write, unless a value in it would have needed an escape.                *)
THEOREM AlwaysServesWhatWasLearned == Spec => []ServesWhatWasLearned
<1>1. Init => ServesWhatWasLearned
  BY DEF Init, ServesWhatWasLearned
<1> QED
  BY <1>1, WrittenInv, ServesStep, PTL DEF Spec
=============================================================================
