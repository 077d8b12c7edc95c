--------------------------- MODULE UdpSession_proof ---------------------------
(***************************************************************************)
(* Theorems about RTP sessions, for any widths of the counters, headers,   *)
(* packet sizes and descriptors, and any number of calls and packets.      *)
(***************************************************************************)
EXTENDS UdpSession, TLAPS

USE ModuliAssumption, HeadersAssumption, ReadSizesAssumption, DescriptorsAssumption

\* No session has been started.
LEMMA InitIInv == Init => IInv
<1> SUFFICES ASSUME Init PROVE IInv
  OBVIOUS
<1>1. TypeOK
  <2>1. SendingUDP \in BOOLEAN /\ cut \in BOOLEAN /\ muddled \in BOOLEAN /\ robbed \in BOOLEAN
    BY Zenon DEF Init
  <2>2. header \in Counters /\ begun \in [seq : 0 .. SEQ_MOD - 1, ts : 0 .. TS_MOD - 1]
    BY DEF Init, Counters
  <2>3. descriptors \in [Descriptors -> Owners]
    BY DEF Init, Owners
  <2> QED
    BY <2>1, <2>2, <2>3 DEF Init, TypeOK, None, CODEC_PCMU, CODEC_NONE
<1>2. Held /\ InWork /\ Counted /\ Ready /\ Numbered /\ LastAstray
  BY DEF Init, Held, InWork, Counted, Ready, Numbered, LastAstray, Working, InCall, NoSocket,
         None, CODEC_PCMU, CODEC_NONE
<1> QED
  BY <1>1, <1>2 DEF IInv

\* The counters wrap within their widths.
LEMMA Wraps ==
  ASSUME NEW m \in Nat \ {0}, NEW a \in 0 .. m - 1, NEW n \in Nat
  PROVE  (a + n) % m \in 0 .. m - 1
OBVIOUS

\* Counts and lengths are natural numbers.
LEMMA Counts == ASSUME NEW n \in Nat PROVE n + 1 \in Nat /\ n \div AUDIO_DECIM \in Nat
BY DEF AUDIO_DECIM

\* A packet is in work or not.
LEMMA WorkingOrNot == Working \in BOOLEAN
BY DEF Working

\* What only StopRTL and a packet gone astray change.
ShutdownOK ==
  /\ rtl \in {"running", "stopping", "closing", "closed"} /\ stale \in Descriptors
  /\ robbed \in BOOLEAN /\ astray \in Nat

\* No other step disturbs their types.
LEMMA ShutdownType == TypeOK /\ UNCHANGED shutdown => ShutdownOK'
<1> SUFFICES ASSUME TypeOK, UNCHANGED shutdown PROVE ShutdownOK'
  OBVIOUS
<1>1. robbed' \in BOOLEAN
  BY Zenon DEF TypeOK, shutdown
<1>2. UNCHANGED <<rtl, stale, astray>>
  BY DEF shutdown
<1> QED
  BY <1>1, <1>2 DEF TypeOK, ShutdownOK

\* Types.
LEMMA StartType == TypeOK /\ StartUDP => TypeOK'
<1> SUFFICES ASSUME TypeOK, StartUDP PROVE TypeOK'
  OBVIOUS
<1> USE DEF TypeOK, CallerStep, session, calls, CODEC_PCMU, CODEC_NONE
<1>1. ASSUME NEW c \in {CODEC_NONE, CODEC_PCMU}, NEW h \in Headers, InitCodec(c, h)
      PROVE  TypeOK'
  <2>1. ShutdownOK'
    BY <1>1, ShutdownType DEF InitCodec
  <2> QED
    BY <1>1, <2>1 DEF InitCodec, ShutdownOK
<1>2. CASE InitBuffer
  <2>1. muddled' \in BOOLEAN
    BY <1>2, WorkingOrNot, Zenon DEF InitBuffer
  <2>2. header' \in Counters
    BY <1>2 DEF InitBuffer, Counters
  <2>3. ShutdownOK'
    BY <1>2, ShutdownType DEF InitBuffer
  <2> QED
    BY <1>2, <2>1, <2>2, <2>3 DEF InitBuffer, ShutdownOK
<1>3. CASE InitBufferFails
  <2>1. ShutdownOK'
    BY <1>3, ShutdownType DEF InitBufferFails
  <2> QED
    BY <1>3, <2>1 DEF InitBufferFails, ShutdownOK
<1>4. CASE OpenSocket
  <2>1. PICK d \in Descriptors :
          datagram' = d /\ descriptors' = [descriptors EXCEPT ![d] = "rtp"]
    BY <1>4 DEF OpenSocket, Lowest, Free
  <2>2. descriptors' \in [Descriptors -> Owners]
    BY <2>1 DEF Owners
  <2>3. ShutdownOK'
    BY <1>4, ShutdownType DEF OpenSocket
  <2> QED
    BY <1>4, <2>1, <2>2, <2>3 DEF OpenSocket, ShutdownOK
<1>5. CASE OpenSocketFails
  <2>1. ShutdownOK'
    BY <1>5, ShutdownType DEF OpenSocketFails
  <2> QED
    BY <1>5, <2>1 DEF OpenSocketFails, ShutdownOK
<1>6. CASE Enable
  <2>1. SendingUDP' \in BOOLEAN
    BY <1>6, Zenon DEF Enable
  <2>2. ShutdownOK'
    BY <1>6, ShutdownType DEF Enable
  <2> QED
    BY <1>6, <2>1, <2>2 DEF Enable, ShutdownOK
<1> QED
  BY <1>1, <1>2, <1>3, <1>4, <1>5, <1>6 DEF StartUDP

LEMMA StopType == TypeOK /\ StopUDP => TypeOK'
<1> SUFFICES ASSUME TypeOK, StopUDP PROVE TypeOK'
  OBVIOUS
<1> USE DEF TypeOK, CallerStep, session, calls
<1>1. CASE ClearSending
  <2>1. SendingUDP' \in BOOLEAN /\ cut' \in BOOLEAN /\ muddled' \in BOOLEAN
    BY <1>1, WorkingOrNot, Zenon DEF ClearSending
  <2>2. caller' = "closing session" /\ strays' \in Nat
    BY <1>1, Counts, Zenon DEF ClearSending
  <2>3. UNCHANGED <<session, descriptors, timer, length, call, begun, packets, sent>>
    BY <1>1 DEF ClearSending
  <2>4. ShutdownOK'
    BY <1>1, ShutdownType DEF ClearSending
  <2> QED
    BY <2>1, <2>2, <2>3, <2>4 DEF ShutdownOK
<1>2. CASE CloseNothing
  <2>1. ShutdownOK'
    BY <1>2, ShutdownType DEF CloseNothing
  <2> QED
    BY <1>2, <2>1 DEF CloseNothing, ShutdownOK
<1>3. CASE FreeBuffer
  <2>1. ShutdownOK'
    BY <1>3, ShutdownType DEF FreeBuffer
  <2> QED
    BY <1>3, <2>1 DEF FreeBuffer, ShutdownOK
<1>4. CASE CloseSocket
  <2>1. descriptors' \in [Descriptors -> Owners]
    BY <1>4 DEF CloseSocket, Owners
  <2>2. ShutdownOK'
    BY <1>4, ShutdownType DEF CloseSocket
  <2> QED
    BY <1>4, <2>1, <2>2 DEF CloseSocket, ShutdownOK
<1> QED
  BY <1>1, <1>2, <1>3, <1>4 DEF StopUDP

LEMMA TimerType == TypeOK /\ SendUDPPacket => TypeOK'
<1> SUFFICES ASSUME TypeOK, SendUDPPacket PROVE TypeOK'
  OBVIOUS
<1> USE DEF TypeOK, TimerStep, session, calls
<1>1. ASSUME NEW n \in ReadSizes, TestSending(n) PROVE TypeOK'
  <2>1. SendingUDP' \in BOOLEAN /\ cut' \in BOOLEAN /\ muddled' \in BOOLEAN
    BY <1>1, Zenon DEF TestSending
  <2>2. timer' = "encoding" /\ length' \in Nat
    BY <1>1 DEF TestSending
  <2>3. UNCHANGED <<caller, session, descriptors, calls, packets, sent>>
    BY <1>1 DEF TestSending
  <2>4. ShutdownOK'
    BY <1>1, ShutdownType DEF TestSending
  <2> QED
    BY <2>1, <2>2, <2>3, <2>4 DEF ShutdownOK
<1>2. CASE PCMEncode
  <2>1. length' \in Nat
    BY <1>2, Counts, Zenon DEF PCMEncode
  <2>2. ShutdownOK'
    BY <1>2, ShutdownType DEF PCMEncode
  <2> QED
    BY <1>2, <2>1, <2>2, ZenonT(40) DEF PCMEncode, ShutdownOK
<1>3. CASE NothingToSend
  <2>1. cut' \in BOOLEAN
    BY <1>3, Zenon DEF NothingToSend
  <2>2. ShutdownOK'
    BY <1>3, ShutdownType DEF NothingToSend
  <2> QED
    BY <1>3, <2>1, <2>2, ZenonT(40) DEF NothingToSend, LoopTop, ShutdownOK
<1>4. CASE Send
  <2>1. sent' \in [call : Nat, header : Counters, length : Nat]
    <3>1. (IF cut THEN 0 ELSE call) \in Nat
      OBVIOUS
    <3> QED
      BY <1>4, <3>1 DEF Send
  <2>2. SendingUDP' \in BOOLEAN /\ cut' \in BOOLEAN /\ muddled' \in BOOLEAN /\ robbed' \in BOOLEAN
    BY <1>4, Zenon DEF Send
  <2>3. timer' = "counting" /\ packets' \in Nat /\ astray' \in Nat
    BY <1>4, Counts, Zenon DEF Send
  <2>4. UNCHANGED <<caller, session, descriptors, length, calls, rtl, stale>>
    BY <1>4 DEF Send
  <2> QED
    BY <2>1, <2>2, <2>3, <2>4
<1>5. CASE CountPacket
  <2>1. cut' \in BOOLEAN
    BY <1>5, Zenon DEF CountPacket
  <2>2. sequence' \in 0 .. SEQ_MOD - 1 /\ timestamp' \in 0 .. TS_MOD - 1
    <3>1. SEQ_MOD \in Nat \ {0} /\ TS_MOD \in Nat \ {0} /\ 1 \in Nat
      OBVIOUS
    <3> QED
      BY <1>5, <3>1, Wraps, Zenon DEF CountPacket
  <2>3. header' \in Counters
    BY <1>5, <2>2 DEF CountPacket, Counters
  <2>4. ShutdownOK'
    BY <1>5, ShutdownType DEF CountPacket
  <2>5. timer' \in {"idle", "ended"}
    BY <1>5 DEF CountPacket, LoopTop
  <2> QED
    BY <1>5, <2>1, <2>2, <2>3, <2>4, <2>5, ZenonT(40) DEF CountPacket, ShutdownOK
<1> QED
  BY <1>1, <1>2, <1>3, <1>4, <1>5 DEF SendUDPPacket

LEMMA OtherType == TypeOK /\ OtherDescriptors => TypeOK'
<1> SUFFICES ASSUME TypeOK, OtherDescriptors PROVE TypeOK'
  OBVIOUS
<1>1. PICK d \in Descriptors :
        \/ descriptors' = [descriptors EXCEPT ![d] = "other"]
        \/ descriptors' = [descriptors EXCEPT ![d] = "free"]
  BY DEF OtherDescriptors, Lowest, Free
<1>2. descriptors' \in [Descriptors -> Owners]
  BY <1>1 DEF TypeOK, Owners
<1>3. SendingUDP' \in BOOLEAN /\ cut' \in BOOLEAN /\ muddled' \in BOOLEAN
  BY Zenon DEF TypeOK, OtherDescriptors
<1>4. UNCHANGED <<caller, session, timer, length, calls, packets, sent>>
  BY DEF OtherDescriptors
<1>5. ShutdownOK'
  BY ShutdownType DEF OtherDescriptors
<1> QED
  BY <1>2, <1>3, <1>4, <1>5 DEF TypeOK, ShutdownOK, session, calls

\* The end of the timer thread, and StopRTL.
LEMMA TimerEndsType == TypeOK /\ TimerEnds => TypeOK'
<1> SUFFICES ASSUME TypeOK, TimerEnds PROVE TypeOK'
  OBVIOUS
<1>1. SendingUDP' \in BOOLEAN /\ cut' \in BOOLEAN /\ muddled' \in BOOLEAN
  BY Zenon DEF TypeOK, TimerEnds
<1>2. timer' = "ended" /\ UNCHANGED <<caller, session, descriptors, length, calls, packets, sent>>
  BY DEF TimerEnds, TimerStep
<1>3. ShutdownOK'
  BY ShutdownType DEF TimerEnds
<1> QED
  BY <1>1, <1>2, <1>3 DEF TypeOK, ShutdownOK, session, calls

LEMMA StopRTLType == TypeOK /\ StopRTL => TypeOK'
<1> SUFFICES ASSUME TypeOK, StopRTL PROVE TypeOK'
  OBVIOUS
<1>1. \/ UNCHANGED descriptors
      \/ descriptors' = [descriptors EXCEPT ![stale] = "free"]
  BY DEF StopRTL, CloseStale
<1>2. descriptors' \in [Descriptors -> Owners]
  BY <1>1 DEF TypeOK, Owners
<1>3. SendingUDP' \in BOOLEAN /\ cut' \in BOOLEAN /\ muddled' \in BOOLEAN
  BY Zenon DEF TypeOK, StopRTL, StopStep
<1>4. robbed' \in BOOLEAN
  BY Zenon DEF TypeOK, StopRTL, CloseStale
<1>5. /\ rtl' \in {"running", "stopping", "closing", "closed"}
      /\ UNCHANGED <<stale, astray, caller, session, timer, length, calls, packets, sent>>
  BY DEF StopRTL, StopStep
<1> QED
  BY <1>2, <1>3, <1>4, <1>5 DEF TypeOK, session, calls

\* A call keeps its session: every step but the one that gives it up.
LEMMA StartHeld == TypeOK /\ Held /\ InWork /\ StartUDP => Held'
<1> SUFFICES ASSUME TypeOK, Held, InWork, StartUDP PROVE Held'
  OBVIOUS
<1> USE DEF Held, HasSession, OnCallsSocket, NoSocket, InWork, CallerStep, session, calls, shutdown, CODEC_PCMU, CODEC_NONE
<1>1. ASSUME NEW c \in {CODEC_NONE, CODEC_PCMU}, NEW h \in Headers, InitCodec(c, h)
      PROVE  Held'
  BY <1>1 DEF InitCodec
<1>2. CASE InitBuffer
  BY <1>2 DEF InitBuffer
<1>3. CASE InitBufferFails
  BY <1>3 DEF InitBufferFails
<1>4. CASE OpenSocket
  <2>1. PICK d \in Descriptors :
          datagram' = d /\ descriptors' = [descriptors EXCEPT ![d] = "rtp"]
    BY <1>4 DEF OpenSocket, Lowest, Free
  <2>2. descriptors'[d] = "rtp" /\ \A e \in Descriptors : descriptors'[e] = "rtp" => e = d
    BY <1>4, <2>1 DEF OpenSocket, TypeOK
  <2> QED
    BY <1>4, <2>1, <2>2 DEF OpenSocket
<1>5. CASE OpenSocketFails
  BY <1>5 DEF OpenSocketFails
<1>6. CASE Enable
  BY <1>6 DEF Enable
<1> QED
  BY <1>1, <1>2, <1>3, <1>4, <1>5, <1>6 DEF StartUDP

LEMMA StopHeld == TypeOK /\ Held /\ InWork /\ StopUDP => Held'
<1> SUFFICES ASSUME TypeOK, Held, InWork, StopUDP PROVE Held'
  OBVIOUS
<1> USE DEF Held, HasSession, OnCallsSocket, NoSocket, InWork, CallerStep, session, calls, shutdown, CODEC_PCMU, CODEC_NONE
<1>1. CASE ClearSending
  BY <1>1 DEF ClearSending
<1>2. CASE CloseNothing
  BY <1>2 DEF CloseNothing
<1>3. CASE FreeBuffer
  BY <1>3 DEF FreeBuffer
<1>4. CASE CloseSocket
  BY <1>4 DEF CloseSocket
<1> QED
  BY <1>1, <1>2, <1>3, <1>4 DEF StopUDP

\* A stop may take the socket from its call, nobody else does.
LEMMA OtherHeld ==
  TypeOK /\ Held /\ (SendUDPPacket \/ TimerEnds \/ OtherDescriptors \/ StopRTL) => Held'
<1> SUFFICES ASSUME TypeOK, Held, SendUDPPacket \/ TimerEnds \/ OtherDescriptors \/ StopRTL
             PROVE  Held'
  OBVIOUS
<1>1. UNCHANGED <<caller, codec, UDPbufferPtr, datagram, SendingUDP>>
  BY DEF SendUDPPacket, TestSending, PCMEncode, NothingToSend, Send, CountPacket, TimerEnds,
         OtherDescriptors, StopRTL, StopStep, session
<1>2. \A d \in Descriptors : descriptors'[d] = "rtp" => descriptors[d] = "rtp"
  <2>1. CASE SendUDPPacket \/ TimerEnds
    BY <2>1 DEF SendUDPPacket, TestSending, PCMEncode, NothingToSend, Send, CountPacket, TimerEnds
  <2>2. CASE OtherDescriptors
    BY <2>2 DEF OtherDescriptors, Lowest, Free, TypeOK
  <2>3. CASE StopRTL
    BY <2>3 DEF StopRTL, CloseStale, TypeOK
  <2> QED
    BY <2>1, <2>2, <2>3
<1>3. robbed \/ OnCallsSocket => robbed' \/ OnCallsSocket'
  <2>1. CASE SendUDPPacket \/ TimerEnds
    BY <1>1, <2>1 DEF SendUDPPacket, TestSending, PCMEncode, NothingToSend, Send, CountPacket,
                      TimerEnds, shutdown, OnCallsSocket
  <2>2. CASE OtherDescriptors
    BY <1>1, <2>2 DEF OtherDescriptors, Lowest, Free, TypeOK, shutdown, OnCallsSocket
  <2>3. CASE StopRTL
    BY <1>1, <2>3 DEF StopRTL, CloseStale, TypeOK, OnCallsSocket
  <2> QED
    BY <2>1, <2>2, <2>3
<1> QED
  BY <1>1, <1>2, <1>3 DEF Held, HasSession, NoSocket

\* A packet is begun in a call, and is cut if it outlives it.
LEMMA StepInWork == TypeOK /\ InWork /\ Next => InWork'
<1> SUFFICES ASSUME TypeOK, InWork, Next PROVE InWork'
  OBVIOUS
<1> USE DEF InWork, Working, LoopTop, CallerStep, TimerStep, session, calls, shutdown
<1>1. CASE StartUDP
  <2>1. UNCHANGED <<timer, cut>>
    BY <1>1 DEF StartUDP, InitCodec, InitBuffer, InitBufferFails, OpenSocket,
                OpenSocketFails, Enable
  <2>2. ~SendingUDP
    BY <1>1 DEF StartUDP, InitCodec, InitBuffer, InitBufferFails, OpenSocket,
                OpenSocketFails, Enable
  <2>3. caller' = "in call" \/ UNCHANGED SendingUDP
    BY <1>1 DEF StartUDP, InitCodec, InitBuffer, InitBufferFails, OpenSocket,
                OpenSocketFails, Enable
  <2> QED
    <3>1. SendingUDP' => caller' = "in call"
      BY <2>2, <2>3, Zenon
    <3>2. ~Working \/ cut
      BY <2>2, Zenon
    <3>3. timer' = timer /\ cut' = cut
      BY <2>1, Zenon
    <3>4. (Working' /\ ~cut' => SendingUDP') /\ (cut' => Working')
      BY <3>2, <3>3, Zenon
    <3> QED
      BY <3>1, <3>4, Zenon
<1>2. CASE StopUDP
  <2>1. CASE ClearSending
    BY <2>1, Zenon DEF ClearSending
  <2>2. CASE CloseNothing \/ FreeBuffer \/ CloseSocket
    <3>1. caller # "in call"
      BY <2>2 DEF CloseNothing, FreeBuffer, CloseSocket
    <3>2. UNCHANGED <<SendingUDP, timer, cut>>
      BY <2>2 DEF CloseNothing, FreeBuffer, CloseSocket
    <3> QED
      BY <3>1, <3>2
  <2> QED
    BY <1>2, <2>1, <2>2 DEF StopUDP
<1>3. CASE SendUDPPacket
  <2>1. ASSUME NEW n \in ReadSizes, TestSending(n) PROVE InWork'
    BY <2>1, Zenon DEF TestSending
  <2>2. CASE PCMEncode
    BY <2>2 DEF PCMEncode
  <2>3. CASE NothingToSend
    BY <2>3, Zenon DEF NothingToSend
  <2>4. CASE Send
    BY <2>4 DEF Send
  <2>5. CASE CountPacket
    BY <2>5, Zenon DEF CountPacket
  <2> QED
    BY <1>3, <2>1, <2>2, <2>3, <2>4, <2>5 DEF SendUDPPacket
<1>4. CASE TimerEnds \/ OtherDescriptors \/ StopRTL
  <2>1. UNCHANGED <<caller, SendingUDP, cut>>
    BY <1>4 DEF TimerEnds, OtherDescriptors, StopRTL, StopStep
  <2>2. Working' <=> Working
    BY <1>4 DEF TimerEnds, OtherDescriptors, StopRTL, StopStep
  <2> QED
    BY <2>1, <2>2, Zenon
<1> QED
  BY <1>1, <1>2, <1>3, <1>4 DEF Next

LEMMA Reflexive == ASSUME NEW n \in Nat PROVE 0 <= n /\ n <= n
OBVIOUS

\* Calls are numbered, also in the record of the packet sent last.
LEMMA CallNumbers == TypeOK => call \in Nat /\ sent.call \in Nat
<1> SUFFICES ASSUME TypeOK PROVE call \in Nat /\ sent.call \in Nat
  OBVIOUS
<1>1. call \in Nat
  BY DEF TypeOK
<1>2. sent = None \/ sent \in [call : Nat, header : Counters, length : Nat]
  BY DEF TypeOK
<1>3. CASE sent = None
  BY <1>1, <1>3 DEF None
<1>4. CASE sent # None
  BY <1>1, <1>2, <1>4
<1> QED
  BY <1>3, <1>4

\* The counters follow the header, and only calls and packets count.
LEMMA StepCounted == TypeOK /\ InWork /\ Counted /\ Next => Counted'
<1> SUFFICES ASSUME TypeOK, InWork, Counted, Next PROVE Counted'
  OBVIOUS
<1>0. call \in Nat /\ sent.call \in Nat
  BY CallNumbers
<1> USE DEF Counted, InCall, CallerStep, TimerStep, session, calls, shutdown
<1>1. CASE StartUDP
  <2>1. ASSUME NEW c \in {CODEC_NONE, CODEC_PCMU}, NEW h \in Headers, InitCodec(c, h)
        PROVE  Counted'
    BY <1>0, <2>1 DEF InitCodec
  <2>2. CASE InitBuffer
    BY <1>0, <2>2 DEF InitBuffer
  <2>3. CASE InitBufferFails \/ OpenSocket \/ OpenSocketFails \/ Enable
    BY <1>0, <2>3 DEF InitBufferFails, OpenSocket, OpenSocketFails, Enable
  <2> QED
    BY <1>1, <2>1, <2>2, <2>3 DEF StartUDP
<1>2. CASE StopUDP
  <2>1. UNCHANGED <<header, sequence, timestamp, call, sent>>
    BY <1>2 DEF StopUDP, ClearSending, CloseNothing, FreeBuffer, CloseSocket
  <2>2. caller' \notin InCall
    BY <1>2 DEF StopUDP, ClearSending, CloseNothing, FreeBuffer, CloseSocket
  <2> QED
    BY <2>1, <2>2
<1>3. CASE SendUDPPacket
  <2>1. CASE Send
    <3>1. sent'.call = IF cut THEN 0 ELSE call
      BY <2>1 DEF Send
    <3>2. ~cut => caller # "allocating"
      BY <2>1 DEF Send, InWork, Working
    <3>3. 0 <= call /\ call <= call
      BY <1>0, Reflexive, Zenon
    <3>4. caller = "allocating" => 0 < call
      BY Zenon
    <3>5. ASSUME cut PROVE sent'.call <= call /\ (caller = "allocating" => sent'.call < call)
      BY <3>1, <3>3, <3>4, <3>5, Zenon
    <3>6. ASSUME ~cut PROVE sent'.call <= call /\ (caller = "allocating" => sent'.call < call)
      BY <3>1, <3>2, <3>3, <3>6, Zenon
    <3>7. sent'.call <= call /\ (caller = "allocating" => sent'.call < call)
      BY <3>5, <3>6, Zenon
    <3>8. UNCHANGED <<caller, header, sequence, timestamp, call>>
      BY <2>1 DEF Send
    <3> QED
      BY <3>7, <3>8
  <2>2. CASE CountPacket
    BY <2>2 DEF CountPacket
  <2>3. ASSUME NEW n \in ReadSizes, TestSending(n) PROVE Counted'
    BY <2>3 DEF TestSending
  <2>4. CASE PCMEncode \/ NothingToSend
    BY <2>4 DEF PCMEncode, NothingToSend
  <2> QED
    BY <1>3, <2>1, <2>2, <2>3, <2>4 DEF SendUDPPacket
<1>4. CASE TimerEnds \/ OtherDescriptors \/ StopRTL
  BY <1>4 DEF TimerEnds, OtherDescriptors, StopRTL, StopStep
<1> QED
  BY <1>1, <1>2, <1>3, <1>4 DEF Next

\* A session that begins while no packet is in work begins with its call's header.
LEMMA StepReady == TypeOK /\ InWork /\ Counted /\ Ready /\ Next => Ready'
<1> SUFFICES ASSUME TypeOK, InWork, Counted, Ready, Next PROVE Ready'
  OBVIOUS
<1>0. call \in Nat /\ sent.call \in Nat
  BY CallNumbers
<1> USE DEF Ready, Working, LoopTop, Expected, CallerStep, TimerStep, session, calls, shutdown
<1>1. CASE StartUDP
  <2>1. ASSUME NEW c \in {CODEC_NONE, CODEC_PCMU}, NEW h \in Headers, InitCodec(c, h)
        PROVE  Ready'
    BY <2>1 DEF InitCodec
  <2>2. CASE InitBuffer
    <3>1. sent.call < call
      BY <2>2 DEF InitBuffer, Counted
    <3>2. sent.call # call
      BY <1>0, <3>1
    <3>3. UNCHANGED <<sent, call, begun, timer>> /\ muddled' = Working
      BY <2>2 DEF InitBuffer
    <3>4. header' = [mark |-> TRUE, seq |-> begun.seq, ts |-> begun.ts]
      BY <2>2 DEF InitBuffer
    <3> QED
      BY <3>1, <3>2, <3>3, <3>4
  <2>3. CASE InitBufferFails \/ OpenSocketFails \/ Enable
    BY <2>3 DEF InitBufferFails, OpenSocketFails, Enable
  <2>4. CASE OpenSocket
    <3>1. UNCHANGED <<codec, header, timer, sent, call, begun, muddled>> /\ caller = "opening"
      BY <2>4 DEF OpenSocket
    <3> QED
      BY <3>1, Zenon
  <2> QED
    BY <1>1, <2>1, <2>2, <2>3, <2>4 DEF StartUDP
<1>2. CASE StopUDP
  BY <1>2 DEF StopUDP, ClearSending, CloseNothing, FreeBuffer, CloseSocket
<1>3. CASE SendUDPPacket
  <2>1. UNCHANGED <<caller, codec, muddled>>
    BY <1>3 DEF SendUDPPacket, TestSending, PCMEncode, NothingToSend, Send, CountPacket
  <2>2. SendingUDP \/ Working
    BY <1>3 DEF SendUDPPacket, TestSending, PCMEncode, NothingToSend, Send, CountPacket
  <2>3. ~(caller \in {"opening", "enabling"} /\ codec # CODEC_NONE /\ ~muddled)
    BY <2>2 DEF InWork
  <2> QED
    BY <2>1, <2>3, Zenon
<1>4. CASE TimerEnds \/ OtherDescriptors \/ StopRTL
  BY <1>4 DEF TimerEnds, OtherDescriptors, StopRTL, StopStep
<1> QED
  BY <1>1, <1>2, <1>3, <1>4 DEF Next

\* The header stays the one expected, from the first packet of a call to its last.
LEMMA StepNumbered == IInv /\ Next => Numbered'
<1> SUFFICES ASSUME IInv, Next PROVE Numbered'
  OBVIOUS
<1> USE DEF Numbered, LoopTop, Expected, CallerStep, TimerStep, session, calls, shutdown
<1>1. CASE StartUDP
  <2>1. CASE Enable
    <3>1. UNCHANGED <<codec, header, timer, sent, call, begun, cut, muddled>>
      BY <2>1 DEF Enable
    <3>2. caller = "enabling"
      BY <2>1 DEF Enable
    <3>3. codec # CODEC_NONE /\ ~muddled =>
            timer # "counting" /\ ~cut /\ header = Expected
      BY <3>2 DEF IInv, InWork, Ready, Working
    <3> QED
      BY <3>1, <3>3, Zenon
  <2>2. CASE ~Enable
    <3>1. UNCHANGED SendingUDP /\ caller # "in call"
      BY <1>1, <2>2 DEF StartUDP, InitCodec, InitBuffer, InitBufferFails, OpenSocket,
                        OpenSocketFails
    <3>2. ~SendingUDP
      BY <3>1 DEF IInv, InWork
    <3> QED
      BY <3>1, <3>2, Zenon
  <2> QED
    BY <2>1, <2>2
<1>2. CASE StopUDP
  <2>1. CASE ClearSending
    BY <2>1 DEF ClearSending
  <2>2. CASE CloseNothing \/ FreeBuffer \/ CloseSocket
    <3>1. UNCHANGED SendingUDP /\ caller # "in call"
      BY <2>2 DEF CloseNothing, FreeBuffer, CloseSocket
    <3>2. ~SendingUDP
      BY <3>1 DEF IInv, InWork
    <3> QED
      BY <3>1, <3>2, Zenon
  <2> QED
    BY <1>2, <2>1, <2>2 DEF StopUDP
<1>3. CASE SendUDPPacket
  <2> SUFFICES ASSUME SendingUDP, codec # CODEC_NONE, ~muddled PROVE Numbered'
    <3>1. UNCHANGED <<SendingUDP, codec, muddled>>
      BY <1>3 DEF SendUDPPacket, TestSending, PCMEncode, NothingToSend, Send, CountPacket
    <3> QED
      BY <3>1, Zenon
  <2>0. /\ ~cut
        /\ timer = "counting" =>
             sent.call = call /\ sent.header = header /\ sent.length = length
        /\ timer # "counting" => header = Expected
    BY DEF IInv
  <2>1. ASSUME NEW n \in ReadSizes, TestSending(n) PROVE Numbered'
    <3>1. timer # "counting" /\ timer' # "counting"
      BY <2>1 DEF TestSending
    <3>2. UNCHANGED <<header, sent, call, begun, cut>>
      BY <2>1 DEF TestSending
    <3> QED
      BY <2>0, <3>1, <3>2, Zenon
  <2>2. CASE PCMEncode
    <3>1. timer # "counting" /\ timer' # "counting"
      BY <2>2 DEF PCMEncode
    <3>2. UNCHANGED <<header, sent, call, begun, cut>>
      BY <2>2 DEF PCMEncode
    <3> QED
      BY <2>0, <3>1, <3>2, Zenon
  <2>3. CASE NothingToSend
    BY <2>3 DEF NothingToSend
  <2>4. CASE Send
    <3>1. /\ timer' = "counting"
          /\ sent'.call = call /\ sent'.header = header /\ sent'.length = length
      BY <2>0, <2>4 DEF Send
    <3>2. UNCHANGED <<header, call, length, cut>>
      BY <2>4 DEF Send
    <3> QED
      BY <2>0, <3>1, <3>2, Zenon
  <2>5. CASE CountPacket
    <3>1. sent.call = call /\ sent.header = header /\ sent.length = length
      BY <2>0, <2>5 DEF CountPacket
    <3>2. header' = [mark |-> FALSE, seq |-> (sent.header.seq + 1) % SEQ_MOD,
                     ts |-> (sent.header.ts + sent.length) % TS_MOD]
      BY <2>5, <3>1 DEF CountPacket, IInv, Counted
    <3>3. UNCHANGED <<sent, call, begun>> /\ timer' # "counting" /\ cut' = FALSE
      BY <2>5 DEF CountPacket
    <3>4. header' = Expected'
      BY <3>1, <3>2, <3>3
    <3> QED
      BY <3>3, <3>4
  <2> QED
    BY <1>3, <2>1, <2>2, <2>3, <2>4, <2>5 DEF SendUDPPacket
<1>4. CASE TimerEnds \/ OtherDescriptors \/ StopRTL
  BY <1>4 DEF TimerEnds, OtherDescriptors, StopRTL, StopStep, IInv
<1> QED
  BY <1>1, <1>2, <1>3, <1>4 DEF Next

\* Once the socket is taken from a call, the timer thread sends one packet at most.
LEMMA StepAstray == IInv /\ Next => LastAstray'
<1> SUFFICES ASSUME IInv, Next PROVE LastAstray'
  OBVIOUS
<1> USE DEF IInv, LastAstray, CallerStep, TimerStep, session, calls, shutdown
<1>1. CASE StartUDP \/ StopUDP
  <2>1. UNCHANGED <<timer, rtl, robbed, astray>>
    BY <1>1 DEF StartUDP, InitCodec, InitBuffer, InitBufferFails, OpenSocket, OpenSocketFails,
                Enable, StopUDP, ClearSending, CloseNothing, FreeBuffer, CloseSocket
  <2> QED
    BY <2>1, Zenon
<1>2. CASE TimerEnds \/ OtherDescriptors
  BY <1>2 DEF TimerEnds, OtherDescriptors
<1>3. CASE SendUDPPacket
  <2>1. CASE Send
    <3>1. CASE cut \/ OnCallsSocket
      BY <2>1, <3>1 DEF Send
    <3>2. CASE ~(cut \/ OnCallsSocket)
      <4>1. robbed
        BY <2>1, <3>2 DEF Send, InWork, Working, Held, HasSession
      <4>2. astray' = 1
        BY <2>1, <3>2 DEF Send
      <4> QED
        BY <2>1, <4>1, <4>2 DEF Send
    <3> QED
      BY <3>1, <3>2
  <2>2. CASE ~Send
    BY <1>3, <2>2 DEF SendUDPPacket, TestSending, PCMEncode, NothingToSend, CountPacket, LoopTop
  <2> QED
    BY <2>1, <2>2
<1>4. CASE StopRTL
  <2>1. UNCHANGED <<timer, astray>>
    BY <1>4 DEF StopRTL, StopStep
  <2>2. robbed => robbed'
    BY <1>4, Zenon DEF StopRTL, CloseStale
  <2>3. robbed' => rtl' \in {"closing", "closed"}
    <3>1. CASE StopStep("running", "stopping") /\ UNCHANGED <<robbed, descriptors>>
      <4>1. ~robbed
        BY <3>1 DEF StopStep
      <4> QED
        BY <3>1, <4>1, Zenon
    <3>2. CASE StopStep("stopping", "closing") \/ StopStep("closing", "closed")
      BY <3>2 DEF StopStep
    <3> QED
      BY <1>4, <3>1, <3>2 DEF StopRTL
  <2> QED
    BY <2>1, <2>2, <2>3
<1> QED
  BY <1>1, <1>2, <1>3, <1>4 DEF Next

LEMMA StepIInv == IInv /\ [Next]_vars => IInv'
<1> SUFFICES ASSUME IInv, [Next]_vars PROVE IInv'
  OBVIOUS
<1>1. CASE Next
  <2>1. TypeOK'
    BY <1>1, StartType, StopType, TimerType, OtherType, TimerEndsType, StopRTLType DEF Next, IInv
  <2>2. Held'
    BY <1>1, StartHeld, StopHeld, OtherHeld DEF Next, IInv
  <2>3. InWork' /\ Counted' /\ Ready' /\ Numbered' /\ LastAstray'
    BY <1>1, StepInWork, StepCounted, StepReady, StepNumbered, StepAstray DEF IInv
  <2> QED
    BY <2>1, <2>2, <2>3 DEF IInv
<1>2. CASE UNCHANGED vars
  <2>1. TypeOK'
    <3>1. SendingUDP' \in BOOLEAN /\ cut' \in BOOLEAN /\ muddled' \in BOOLEAN
      BY <1>2, Zenon DEF vars, IInv, TypeOK
    <3>2. ShutdownOK'
      <4>1. UNCHANGED shutdown
        BY <1>2 DEF vars, shutdown
      <4> QED
        BY <4>1, ShutdownType DEF IInv
    <3>3. UNCHANGED <<caller, session, descriptors, timer, length, calls, packets, sent>>
      BY <1>2 DEF vars, session, calls
    <3> QED
      BY <3>1, <3>2, <3>3 DEF IInv, TypeOK, ShutdownOK, session, calls
  <2>2. Held'
    BY <1>2 DEF vars, IInv, Held, HasSession, OnCallsSocket, NoSocket
  <2>3. InWork' /\ Counted'
    BY <1>2, Zenon DEF vars, IInv, InWork, Working, Counted
  <2>4. Ready' /\ Numbered'
    BY <1>2, Zenon DEF vars, IInv, Ready, Working, Numbered, Expected
  <2>5. LastAstray'
    BY <1>2 DEF vars, IInv, LastAstray
  <2> QED
    BY <2>1, <2>2, <2>3, <2>4, <2>5 DEF IInv
<1> QED
  BY <1>1, <1>2

\* Buffer, socket, flag and counters agree with the places of both threads in every
\* state.
THEOREM Invariance == Spec => []IInv
<1> QED
  BY InitIInv, StepIInv, PTL DEF Spec

\* Every variable keeps its type.
THEOREM TypeCorrect == Spec => []TypeOK
<1>1. IInv => TypeOK
  BY DEF IInv
<1> QED
  BY <1>1, Invariance, PTL

\* No packet but the one in work when its call is stopped meets a freed buffer.
THEOREM BufferOutlivesPackets == Spec => []NoDanglingBuffer
<1>1. IInv => NoDanglingBuffer
  BY DEF IInv, InWork, Working, Held, HasSession, NoDanglingBuffer
<1> QED
  BY <1>1, Invariance, PTL

\* When no call is on, neither a buffer nor a socket of one is left.
THEOREM NothingIsLeft == Spec => []NothingLeft
<1>1. IInv => NothingLeft
  BY DEF IInv, Held, NoSocket, NothingLeft
<1> QED
  BY <1>1, Invariance, PTL

\* Only Send adds to the packets sent.
LEMMA OnlySend == IInv /\ [Next]_vars /\ packets' # packets => Send
BY DEF Next, StartUDP, InitCodec, InitBuffer, InitBufferFails, OpenSocket,
       OpenSocketFails, Enable, StopUDP, ClearSending, CloseNothing, FreeBuffer, CloseSocket,
       SendUDPPacket, TestSending, PCMEncode, NothingToSend, CountPacket, TimerEnds,
       OtherDescriptors, StopRTL, StopStep, calls, vars

\* A call's packets leave on the call's own socket; if a stop of the receiver closes
\* it under the call, all but one.
THEOREM OwnSocket == Spec => []OnOwnSocket
<1>1. IInv => OnOwnSocket
  BY DEF IInv, LastAstray, OnOwnSocket
<1> QED
  BY <1>1, Invariance, PTL

\* A call's packets are numbered without a gap from the header it began with, for
\* counters of any width.
THEOREM Stream == Spec => RTPStream
<1>1. IInv /\ [Next]_vars
        => [packets' # packets /\ ~cut /\ ~muddled => sent'.header = Expected]_vars
  <2> SUFFICES ASSUME IInv, [Next]_vars, packets' # packets, ~cut, ~muddled
               PROVE  sent'.header = Expected
    OBVIOUS
  <2>1. Send
    BY OnlySend
  <2>2. header = Expected
    BY <2>1 DEF Send, TimerStep, IInv, InWork, Working, Numbered
  <2> QED
    BY <2>1, <2>2 DEF Send
<1> QED
  BY <1>1, Invariance, PTL DEF Spec, RTPStream

===============================================================================
