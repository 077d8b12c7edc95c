------------------------------ MODULE UdpSession ------------------------------
(***************************************************************************)
(* The RTP session of a telephone call: StartUDP and StopUDP of            *)
(* Source/rtl.c with InitUDP, SendUDPPacket and CloseUDP of Common/udp.c   *)
(* and the socket of Common/udpsocket.c.                                   *)
(*                                                                         *)
(* Two threads share codec, buffer, counters, socket and the flag          *)
(* SendingUDP without a mutex: the Java thread that starts and stops       *)
(* sessions, and the timer thread, which sends one packet after every pipe *)
(* read that finds the flag set.  Each of their steps below is one access  *)
(* to what they share.  StopRTL takes part, as it ends the timer thread    *)
(* and closes a descriptor number that may be the socket's by then.        *)
(***************************************************************************)
EXTENDS Integers

CONSTANTS
    SEQ_MOD, TS_MOD,    \* 2^16 and 2^32: sequence is a short, timestamp an int
    Headers,            \* sequence number and timestamp a call may begin with
    ReadSizes,          \* how many samples a pipe read brings
    Descriptors,        \* the process's file descriptors
    MaxCalls, MaxPackets, MaxStrays   \* bounds: calls, packets, stops without a call

ASSUME ModuliAssumption ==
    SEQ_MOD \in Nat \ {0} /\ TS_MOD \in Nat \ {0}
ASSUME HeadersAssumption ==
    Headers \subseteq [seq : 0 .. SEQ_MOD - 1, ts : 0 .. TS_MOD - 1]
ASSUME ReadSizesAssumption == ReadSizes \subseteq Nat \ {0}
ASSUME DescriptorsAssumption == 0 \in Descriptors /\ Descriptors \subseteq Nat
ASSUME BoundsAssumption == MaxCalls \in Nat /\ MaxPackets \in Nat /\ MaxStrays \in Nat

VARIABLES
    caller,                 \* the Java thread, in StartUDP or StopUDP
    codec,
    UDPbufferPtr,           \* where it points to: nothing, a block, a freed block
    header,                 \* the RTP header in the block
    sequence, timestamp,
    datagram,               \* the socket's descriptor, 0 before the first session
    descriptors,            \* who has each descriptor of the process
    SendingUDP,
    timer,                  \* the timer thread, in SendUDPPacket
    length,                 \* samples read, then bytes of the packet's payload
    call, packets, strays,  \* history: calls, packets sent, stops without a call
    sent,                   \* history: the packet sent last; call 0 if it was cut
    begun,                  \* history: the header the call began with
    cut,                    \* history: a session was stopped under the packet in work
    muddled,                \* history: a session began under a packet in work
    rtl,                    \* StopRTL, of which the exit flag and the closes matter
    stale,                  \* the number initChildProcess has kept as CHILD_WRITE_FD
    robbed,                 \* history: StopRTL closed a call's socket
    astray                  \* history: uncut packets that did not leave on a call's socket

session == <<codec, UDPbufferPtr, header, sequence, timestamp, datagram>>
calls == <<call, strays, begun>>
shutdown == <<rtl, stale, robbed, astray>>
vars == <<caller, codec, UDPbufferPtr, header, sequence, timestamp, datagram, descriptors,
          SendingUDP, timer, length, call, packets, strays, sent, begun, cut, muddled,
          rtl, stale, robbed, astray>>

CODEC_NONE == "none"
CODEC_PCMU == "PCMU"
AUDIO_DECIM == 3
None == [call |-> 0]

\* A packet is in work.
Working == timer \in {"encoding", "sending", "counting"}

\* As the loader leaves the statics: codec 0 is CODEC_PCMU, datagram 0 is stdin.
Init ==
    /\ caller = "idle" /\ SendingUDP = FALSE
    /\ codec = CODEC_PCMU /\ UDPbufferPtr = "null" /\ datagram = 0
    /\ header = [mark |-> FALSE, seq |-> 0, ts |-> 0] /\ sequence = 0 /\ timestamp = 0
    /\ descriptors = [d \in Descriptors |-> IF d = 0 THEN "other" ELSE "free"]
    /\ timer = "idle" /\ length = 0
    /\ call = 0 /\ packets = 0 /\ strays = 0
    /\ sent = None /\ begun = [seq |-> 0, ts |-> 0]
    /\ cut = FALSE /\ muddled = FALSE
    /\ rtl = "running" /\ stale \in Descriptors /\ robbed = FALSE /\ astray = 0
-------------------------------------------------------------------------------
\* StartUDP.  If it fails the call goes on without a session, and ends in StopUDP
\* like any other.

CallerStep(from, to) == caller = from /\ caller' = to

InitCodec(c, h) ==
    /\ call < MaxCalls
    /\ CallerStep("idle", IF c = CODEC_NONE THEN "enabling" ELSE "allocating")
    /\ codec' = c
    /\ call' = call + 1 /\ begun' = h
    /\ UNCHANGED <<shutdown, UDPbufferPtr, header, sequence, timestamp, datagram, descriptors,
                   SendingUDP, timer, length, packets, strays, sent, cut, muddled>>

\* malloc, the header copied and marked, the counters taken from it.
InitBuffer ==
    /\ CallerStep("allocating", "opening")
    /\ UDPbufferPtr' = "block"
    /\ header' = [mark |-> TRUE, seq |-> begun.seq, ts |-> begun.ts]
    /\ sequence' = begun.seq /\ timestamp' = begun.ts
    /\ muddled' = Working
    /\ UNCHANGED <<shutdown, codec, datagram, descriptors, SendingUDP, timer, length, calls,
                   packets, sent, cut>>

InitBufferFails ==
    /\ CallerStep("allocating", "in call")
    /\ UDPbufferPtr' = "null"
    /\ UNCHANGED <<shutdown, codec, header, sequence, timestamp, datagram, descriptors, SendingUDP,
                   timer, length, calls, packets, sent, cut, muddled>>

Free == {d \in Descriptors : descriptors[d] = "free"}
Lowest == {d \in Free : \A e \in Free : d <= e}

\* OpenSocket: socket() takes the lowest free descriptor, then bind() may fail.
OpenSocket ==
    /\ \/ CallerStep("opening", "enabling")
       \/ CallerStep("opening", "in call")      \* bind failed, the socket stays
    /\ \E d \in Lowest : datagram' = d /\ descriptors' = [descriptors EXCEPT ![d] = "rtp"]
    /\ UNCHANGED <<shutdown, codec, UDPbufferPtr, header, sequence, timestamp, SendingUDP, timer,
                   length, calls, packets, sent, cut, muddled>>

OpenSocketFails ==
    /\ CallerStep("opening", "in call")
    /\ datagram' = -1
    /\ UNCHANGED <<shutdown, codec, UDPbufferPtr, header, sequence, timestamp, descriptors,
                   SendingUDP, timer, length, calls, packets, sent, cut, muddled>>

Enable ==
    /\ CallerStep("enabling", "in call")
    /\ SendingUDP' = TRUE
    /\ UNCHANGED <<shutdown, session, descriptors, timer, length, calls, packets, sent, cut, muddled>>

StartUDP ==
    \/ \E c \in {CODEC_NONE, CODEC_PCMU}, h \in Headers : InitCodec(c, h)
    \/ InitBuffer \/ InitBufferFails \/ OpenSocket \/ OpenSocketFails \/ Enable
-------------------------------------------------------------------------------
\* StopUDP.

\* Mutant of ClearSending: the flag stays set.
KeepSending ==
    /\ \/ CallerStep("in call", "closing session") /\ UNCHANGED strays
       \/ CallerStep("idle", "closing session") /\ strays < MaxStrays /\ strays' = strays + 1
    /\ cut' = Working
    /\ UNCHANGED <<shutdown, session, descriptors, SendingUDP, timer, length, call, begun, packets,
                   sent, muddled>>

\* The end of a call, or of one that was never answered.
ClearSending ==
    /\ \/ CallerStep("in call", "closing session") /\ UNCHANGED strays
       \/ CallerStep("idle", "closing session") /\ strays < MaxStrays /\ strays' = strays + 1
    /\ SendingUDP' = FALSE
    /\ cut' = Working
    /\ UNCHANGED <<shutdown, session, descriptors, timer, length, call, begun, packets, sent, muddled>>

CloseNothing ==
    /\ CallerStep("closing session", "idle") /\ codec = CODEC_NONE
    /\ UNCHANGED <<shutdown, session, descriptors, SendingUDP, timer, length, calls, packets, sent,
                   cut, muddled>>

\* free(UDPbufferPtr) unless it is NULL; the pointer is not cleared.  (A second free
\* is undefined: here the process goes on, otherwise nothing follows.)
FreeBuffer ==
    /\ CallerStep("closing session", "closing socket") /\ codec # CODEC_NONE
    /\ UDPbufferPtr' = IF UDPbufferPtr = "null" THEN "null" ELSE "freed"
    /\ UNCHANGED <<shutdown, codec, header, sequence, timestamp, datagram, descriptors, SendingUDP,
                   timer, length, calls, packets, sent, cut, muddled>>

\* Mutant of CloseSocket: the socket is left open.
LeaveSocket ==
    /\ CallerStep("closing socket", "idle")
    /\ UNCHANGED <<shutdown, session, descriptors, SendingUDP, timer, length, calls, packets, sent,
                   cut, muddled>>

CloseSocket ==
    /\ CallerStep("closing socket", "idle")
    /\ descriptors' = [d \in Descriptors |-> IF d = datagram THEN "free" ELSE descriptors[d]]
    /\ UNCHANGED <<shutdown, session, SendingUDP, timer, length, calls, packets, sent, cut, muddled>>

StopUDP == ClearSending \/ CloseNothing \/ FreeBuffer \/ CloseSocket
-------------------------------------------------------------------------------
\* The timer thread, for a pipe read of n samples.

TimerStep(from, to) == timer = from /\ timer' = to

\* The end of a packet is the end of the loop, whose head tests the exit flag.
LoopTop == IF rtl = "running" THEN "idle" ELSE "ended"

TestSending(n) ==
    /\ SendingUDP /\ packets < MaxPackets
    /\ TimerStep("idle", "encoding")
    /\ length' = n
    /\ UNCHANGED <<shutdown, caller, session, descriptors, SendingUDP, calls, packets, sent, cut, muddled>>

\* PCMEncode writes the payload into the buffer, or to stdout.
PCMEncode ==
    /\ TimerStep("encoding", "sending")
    /\ length' = IF codec = CODEC_NONE THEN 0 ELSE length \div AUDIO_DECIM
    /\ UNCHANGED <<shutdown, caller, session, descriptors, SendingUDP, calls, packets, sent, cut, muddled>>

NothingToSend ==
    /\ TimerStep("sending", LoopTop) /\ codec = CODEC_NONE
    /\ cut' = FALSE
    /\ UNCHANGED <<shutdown, caller, session, descriptors, SendingUDP, length, calls, packets, sent,
                   muddled>>

\* sendto on whatever the number stands for by now; its result is not looked at.
OnCallsSocket == datagram \in Descriptors /\ descriptors[datagram] = "rtp"
Send ==
    /\ TimerStep("sending", "counting") /\ codec # CODEC_NONE
    /\ packets' = packets + 1
    /\ sent' = [call |-> IF cut THEN 0 ELSE call, header |-> header, length |-> length]
    /\ astray' = IF cut \/ OnCallsSocket THEN astray ELSE astray + 1
    /\ UNCHANGED <<rtl, stale, robbed, caller, session, descriptors, SendingUDP, length, calls,
                   cut, muddled>>

\* Mutant of CountPacket: the mark bit stays set.
KeepMark ==
    /\ TimerStep("counting", LoopTop)
    /\ sequence' = (sequence + 1) % SEQ_MOD
    /\ timestamp' = (timestamp + length) % TS_MOD
    /\ header' = [header EXCEPT !.seq = sequence', !.ts = timestamp']
    /\ cut' = FALSE
    /\ UNCHANGED <<shutdown, caller, codec, UDPbufferPtr, datagram, descriptors, SendingUDP, length,
                   calls, packets, sent, muddled>>

\* Mutant of CountPacket: the sequence number does not wrap.
CountOn ==
    /\ TimerStep("counting", LoopTop)
    /\ sequence' = sequence + 1
    /\ timestamp' = (timestamp + length) % TS_MOD
    /\ header' = [mark |-> FALSE, seq |-> sequence', ts |-> timestamp']
    /\ cut' = FALSE
    /\ UNCHANGED <<shutdown, caller, codec, UDPbufferPtr, datagram, descriptors, SendingUDP, length,
                   calls, packets, sent, muddled>>

\* The counters move on and are written to the header, the mark bit is cleared.
CountPacket ==
    /\ TimerStep("counting", LoopTop)
    /\ sequence' = (sequence + 1) % SEQ_MOD
    /\ timestamp' = (timestamp + length) % TS_MOD
    /\ header' = [mark |-> FALSE, seq |-> sequence', ts |-> timestamp']
    /\ cut' = FALSE
    /\ UNCHANGED <<shutdown, caller, codec, UDPbufferPtr, datagram, descriptors, SendingUDP, length,
                   calls, packets, sent, muddled>>

\* The exit flag is seen: no packet follows.
TimerEnds ==
    /\ TimerStep("idle", "ended") /\ rtl # "running"
    /\ UNCHANGED <<shutdown, caller, session, descriptors, SendingUDP, length, calls, packets,
                   sent, cut, muddled>>

SendUDPPacket ==
    \/ \E n \in ReadSizes : TestSending(n)
    \/ PCMEncode \/ NothingToSend \/ Send \/ CountPacket

\* The rest of the process opens and closes descriptors of its own.
OtherDescriptors ==
    /\ \/ \E d \in Lowest : descriptors' = [descriptors EXCEPT ![d] = "other"]
       \/ \E d \in Descriptors :
            descriptors[d] = "other" /\ descriptors' = [descriptors EXCEPT ![d] = "free"]
    /\ UNCHANGED <<shutdown, caller, session, SendingUDP, timer, length, calls, packets, sent, cut, muddled>>

-------------------------------------------------------------------------------
\* StopRTL, at any time: the exit flag, then in CloseChildProcess the close of
\* CHILD_WRITE_FD, which initChildProcess has closed before, so that its number may
\* have been given out again, and that of PARENT_READ_FD.  The latter is the pipe's
\* own, one of the others' descriptors here, unless no pipe was made and both
\* numbers are 0.

StopStep(from, to) ==
    /\ rtl = from /\ rtl' = to
    /\ UNCHANGED <<stale, astray, caller, session, SendingUDP, timer, length, calls, packets,
                   sent, cut, muddled>>

CloseStale ==
    /\ robbed' = (robbed \/ descriptors[stale] = "rtp")
    /\ descriptors' = [descriptors EXCEPT ![stale] = "free"]

StopRTL ==
    \/ StopStep("running", "stopping") /\ UNCHANGED <<robbed, descriptors>>
    \/ StopStep("stopping", "closing") /\ CloseStale
    \/ StopStep("closing", "closed")
       /\ IF stale = 0 THEN CloseStale ELSE UNCHANGED <<robbed, descriptors>>

Next == StartUDP \/ StopUDP \/ SendUDPPacket \/ TimerEnds \/ OtherDescriptors \/ StopRTL

Spec == Init /\ [][Next]_vars
-------------------------------------------------------------------------------
Counters == [mark : BOOLEAN, seq : 0 .. SEQ_MOD - 1, ts : 0 .. TS_MOD - 1]
Owners == {"free", "rtp", "other"}

\* Every variable keeps its type; the counters stay within their widths.
TypeOK ==
    /\ caller \in {"idle", "allocating", "opening", "enabling", "in call",
                   "closing session", "closing socket"}
    /\ timer \in {"idle", "encoding", "sending", "counting", "ended"}
    /\ codec \in {CODEC_NONE, CODEC_PCMU} /\ UDPbufferPtr \in {"null", "block", "freed"}
    /\ header \in Counters
    /\ sequence \in 0 .. SEQ_MOD - 1 /\ timestamp \in 0 .. TS_MOD - 1
    /\ datagram \in Descriptors \cup {-1} /\ descriptors \in [Descriptors -> Owners]
    /\ SendingUDP \in BOOLEAN /\ length \in Nat
    /\ call \in Nat /\ packets \in Nat /\ strays \in Nat
    /\ begun \in [seq : 0 .. SEQ_MOD - 1, ts : 0 .. TS_MOD - 1]
    /\ \/ sent = None
       \/ sent \in [call : Nat, header : Counters, length : Nat]
    /\ cut \in BOOLEAN /\ muddled \in BOOLEAN
    /\ rtl \in {"running", "stopping", "closing", "closed"} /\ stale \in Descriptors
    /\ robbed \in BOOLEAN /\ astray \in Nat

\* StopUDP clears the flag (rtl.c:402) and frees the buffer at once: only the one
\* packet that is in work just then is built in a freed buffer.  Every packet
\* begun before or later, by whatever call, finds its buffer allocated.
NoDanglingBuffer ==
    Working /\ ~cut /\ codec # CODEC_NONE => UDPbufferPtr = "block"

\* The packets of a call leave on the call's own socket, however descriptors are
\* opened and closed around it, and through failed and unanswered calls before.  A
\* stop of the receiver in the middle of a call (linux_spawn.c:178) may close that
\* socket; then at most one packet, the timer thread's last, goes where the number
\* leads by then.
OnOwnSocket == astray <= 1 /\ (astray = 1 => robbed)

\* The header of a call's next packet: after the one sent last, or its first.
Expected ==
    IF sent.call = call
    THEN [mark |-> FALSE, seq |-> (sent.header.seq + 1) % SEQ_MOD,
          ts |-> (sent.header.ts + sent.length) % TS_MOD]
    ELSE [mark |-> TRUE, seq |-> begun.seq, ts |-> begun.ts]

\* What RTP asks of the packets of a call: the first is marked and has the numbers
\* the call began with, and each later one follows the one before, also where the
\* counters wrap.  Only a call that begins while a packet of the call before is
\* still in work may be served otherwise.
RTPStream == [][packets' # packets /\ ~cut /\ ~muddled => sent'.header = Expected]_vars

\* StopUDP releases what StartUDP took, also when it failed half way.
NothingLeft ==
    caller = "idle" =>
        UDPbufferPtr # "block" /\ \A d \in Descriptors : descriptors[d] # "rtp"

\* What udp.c:105 says: the buffer is freed if it is allocated.  CloseUDP does not
\* clear the pointer, so the next stop without a start frees the block again.
FreeIfAllocated ==
    caller = "closing session" /\ codec # CODEC_NONE => UDPbufferPtr # "freed"
-------------------------------------------------------------------------------
\* The inductive strengthening of these properties.

InCall == {"allocating", "opening", "enabling", "in call"}

NoSocket == \A d \in Descriptors : descriptors[d] # "rtp"
HasSession ==
    /\ UDPbufferPtr = "block"
    /\ robbed \/ OnCallsSocket

\* A call has its session from InitUDP to StopUDP, and nobody else has one.
Held ==
    /\ caller \in {"allocating", "opening"} => codec # CODEC_NONE
    /\ caller = "opening" => UDPbufferPtr = "block"
    /\ (caller = "enabling" \/ SendingUDP) /\ codec # CODEC_NONE => HasSession
    /\ caller \in {"idle", "allocating", "closing socket"} \/ codec = CODEC_NONE
         => UDPbufferPtr # "block"
    /\ caller \in {"idle", "allocating", "opening"} \/ codec = CODEC_NONE => NoSocket
    /\ \A d \in Descriptors : descriptors[d] = "rtp" => d = datagram

\* Packets are begun in a call only; one that outlives its call is cut.
InWork ==
    /\ SendingUDP => caller = "in call"
    /\ Working /\ ~cut => SendingUDP
    /\ cut => Working

\* The counters are those of the header; a call has sent nothing when it begins.
Counted ==
    /\ sequence = header.seq /\ timestamp = header.ts
    /\ sent.call <= call /\ (caller \in InCall => call > 0)
    /\ caller = "allocating" => sent.call < call

\* A session begins with the first header of its call, unless a packet is in work.
Ready ==
    caller \in {"opening", "enabling"} /\ codec # CODEC_NONE /\ ~muddled =>
        ~Working /\ sent.call < call /\ header = Expected

\* The header is the one expected, but between a packet's Send and its CountPacket.
Numbered ==
    SendingUDP /\ codec # CODEC_NONE /\ ~muddled =>
        /\ ~cut
        /\ timer = "counting" =>
             sent.call = call /\ sent.header = header /\ sent.length = length
        /\ timer # "counting" => header = Expected

\* A call loses its socket only to a stop, and the packet that misses it is the last.
LastAstray ==
    /\ robbed => rtl \in {"closing", "closed"}
    /\ astray = 0 \/ (astray = 1 /\ robbed /\ timer \in {"counting", "ended"})

\* What the theorems of UdpSession_proof rest on.
IInv == TypeOK /\ Held /\ InWork /\ Counted /\ Ready /\ Numbered /\ LastAstray
===============================================================================
