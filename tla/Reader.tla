-------------------------------- MODULE Reader --------------------------------
(***************************************************************************)
(* The child process that feeds the receiver, Source/filereader.c with     *)
(* Source/usb.c, and the way of its samples to the decoder: 48 kHz samples *)
(* from a file or a sound card are averaged in pairs and written through   *)
(* stdio's buffer into the pipe, ReadFromPipe (Common/linux_spawn.c) takes *)
(* as many bytes as one tick of the timer thread wants, and DSPDemod       *)
(* (Common/FSKdsp.c) averages pairs again.  No part of the way knows where *)
(* another part has cut the stream.                                        *)
(*                                                                         *)
(* Samples have values here, so that byte order, lost bytes and shifted    *)
(* pairs show.  The stream is kept whole and the positions in it move.     *)
(***************************************************************************)
EXTENDS Integers, Sequences, SequencesExt

CONSTANTS
    FILE_READ_SIZE, USB_READ_SIZE,  \* samples in one read of the input
    BUFSIZ, PIPE_SIZE,              \* bytes stdio collects, bytes the pipe holds
    PIPE_READ_SIZE,                 \* samples in one read of the pipe
    Starts,                         \* bound: how the program is started, and where
    Input,                          \* bound: the bytes of the file, or of the card
    MaxOverruns                     \* bound: overruns and short reads of the card

ASSUME SizesAssumption ==
    \A s \in {FILE_READ_SIZE, USB_READ_SIZE, BUFSIZ, PIPE_SIZE, PIPE_READ_SIZE} :
        s \in Nat \ {0}

\* The averaged pairs do not depend on where the stream is cut because every
\* full read has whole pairs and every block of stdio pairs of samples.
ASSUME PairsAssumption ==
    /\ FILE_READ_SIZE % 2 = 0 /\ USB_READ_SIZE % 2 = 0
    /\ BUFSIZ % 4 = 0 /\ PIPE_READ_SIZE % 2 = 0
ASSUME InputAssumption == Input \in Seq(0 .. 255) /\ MaxOverruns \in Nat

\* What can be on the command line (a shift by more than 15 would not be one of a
\* sample's 16 bits in an int), and the numbers of the cards.
Options ==
    [opt : {"f", "l", "b", "bad"}] \cup [opt : {"ui"}, vendor : Nat, product : Nat]
        \cup [opt : {"uc"}, card : Nat] \cup [opt : {"g"}, gain : 0 .. 15]
ASSUME StartsAssumption ==
    \A start \in Starts :
        /\ start.args \in Seq(Options)
        /\ DOMAIN start.system.devices = 1 .. Len(start.system.devices)
        /\ Len(start.system.devices) \in Nat /\ DOMAIN start.system.cards \subseteq Nat

VARIABLES
    args, system,               \* options not parsed yet; the computer
    mode, rdBufSize, wrBufSize, shift1, gain, usbdev,    \* what the options set
    pc, exitcode,               \* where main is
    at, overruns,               \* bytes of Input gone, overruns and short reads so far
    bytesRead,                  \* the last fread or readUSB
    stream, flushed,            \* samples written, and bytes of them in the pipe
    nread, demod,               \* bytes the parent has read, and DSPDemod's samples
    closed,                     \* the child's end of the pipe
    intact                      \* history: the card has lost nothing

options == <<mode, rdBufSize, wrBufSize, shift1, gain, usbdev>>
input == <<at, overruns, bytesRead, intact>>
parent == <<nread, demod>>
vars == <<args, system, mode, rdBufSize, wrBufSize, shift1, gain, usbdev, pc, exitcode,
          at, overruns, bytesRead, stream, flushed, nread, demod, closed, intact>>

Unset == -1         \* an uninitialized local
SAMPLE == 2         \* sizeof(RTL_SAMPLE), and USB_FRAME_SIZE
Shorts == -32768 .. 32767   \* RTL_SAMPLE
Int16(x) == ((x + 32768) % 65536) - 32768
Lesser(x, y) == IF x <= y THEN x ELSE y
-------------------------------------------------------------------------------
Init ==
    /\ \E start \in Starts : args = start.args /\ system = start.system
    /\ mode = "none" /\ rdBufSize = Unset /\ wrBufSize = Unset
    /\ shift1 = 8 /\ gain = 0
    /\ usbdev = [idVendor |-> 0, idProduct |-> 0, cardNum |-> 0]
    /\ pc = "options" /\ exitcode = Unset
    /\ at = 0 /\ overruns = 0 /\ bytesRead = 0
    /\ stream = << >> /\ flushed = 0
    /\ nread = 0 /\ demod = << >>
    /\ closed = FALSE /\ intact = TRUE

\* exit() and the return from main close the pipe once stdio's buffer is out.
Exit(code) ==
    /\ pc' = "exiting"
    /\ exitcode' = code

\* One option; a source option sets the buffer sizes along with the mode.  %x
\* stores 32 bits where the fields have 16, the vendor over the product as well,
\* which comes second and is right again; a card number has 8.
Option(o) ==
    CASE o.opt = "f" ->
            /\ mode' = "file"
            /\ rdBufSize' = FILE_READ_SIZE * SAMPLE
            /\ wrBufSize' = FILE_READ_SIZE
            /\ UNCHANGED <<shift1, gain, usbdev>>
      [] o.opt \in {"ui", "uc"} ->
            /\ mode' = o.opt
            /\ rdBufSize' = USB_READ_SIZE * SAMPLE
            /\ wrBufSize' = USB_READ_SIZE
            /\ usbdev' = IF o.opt = "ui"
                         THEN [usbdev EXCEPT !.idVendor = o.vendor % 2^16,
                                             !.idProduct = o.product % 2^16]
                         ELSE [usbdev EXCEPT !.cardNum = o.card % 2^8]
            /\ UNCHANGED <<shift1, gain>>
      [] o.opt = "g" -> gain' = o.gain /\ UNCHANGED <<mode, rdBufSize, wrBufSize, shift1, usbdev>>
      [] o.opt = "l" -> shift1' = 0 /\ UNCHANGED <<mode, rdBufSize, wrBufSize, gain, usbdev>>
      [] o.opt = "b" -> shift1' = 8 /\ UNCHANGED <<mode, rdBufSize, wrBufSize, gain, usbdev>>

ParseOption ==
    /\ pc = "options" /\ args # << >>
    /\ args' = Tail(args)
    /\ \/ /\ Head(args).opt = "bad"
          /\ Exit(100)
          /\ UNCHANGED options
       \/ /\ Head(args).opt # "bad"
          /\ Option(Head(args))
          /\ UNCHANGED <<pc, exitcode>>
    /\ UNCHANGED <<system, input, stream, flushed, parent, closed>>

\* malloc: with no source option the sizes were never set, and anything can come
\* of them.
Allocate ==
    /\ pc = "options" /\ args = << >>
    /\ \/ pc' = "opening" /\ UNCHANGED exitcode
       \/ mode = "none" /\ Exit(200)
    /\ UNCHANGED <<args, system, options, input, stream, flushed, parent, closed>>
-------------------------------------------------------------------------------
\* usb.c

\* Mutant of UsbCards: the last card is not looked at.
UsbCardsShort == 0 .. Len(system.devices) - 2

\* getUSBCardNum looks at as many cards as there are USB devices.
UsbCards == 0 .. Len(system.devices) - 1

\* Those of them that have the name: strcmp against /proc/asound/card<n>/usbid.
CardsOf(id) == {c \in UsbCards \cap DOMAIN system.cards : system.cards[c] = id}

\* FindUSBDevice: the first descriptor that cannot be read ends the search.
UsbId == <<usbdev.idVendor, usbdev.idProduct>>
Listed ==
    \E i \in DOMAIN system.devices :
        /\ system.devices[i] = UsbId
        /\ \A j \in 1 .. i : system.devices[j] # << >>
FindUSBDevice(card) ==
    /\ Listed /\ card \in CardsOf(UsbId)
    /\ \A c \in CardsOf(UsbId) : card <= c

\* The calls OpenUSBDevice makes; each may fail, and none after it is made.
AlsaCalls ==
    <<"open", "any", "access", "nonblock", "resample", "format", "rate", "channels",
      "periods", "buffer_size", "params", "prepare">>
OpenUSBDevice(failed) ==
    \/ failed = "none" /\ pc' = "reading" /\ shift1' = 0 /\ UNCHANGED exitcode
    \/ failed \in ToSet(AlsaCalls) /\ Exit(100) /\ UNCHANGED shift1

\* The switch on the mode, up to the loop.
OpenInput ==
    /\ pc = "opening"
    /\ \/ /\ mode = "none"
          /\ Exit(100)
          /\ UNCHANGED <<shift1, usbdev>>
       \/ /\ mode = "file"
          /\ Exit(100) \/ (pc' = "reading" /\ UNCHANGED exitcode)   \* fopen
          /\ UNCHANGED <<shift1, usbdev>>
       \/ /\ mode = "ui" /\ ~\E card \in UsbCards : FindUSBDevice(card)
          /\ Exit(100)
          /\ UNCHANGED <<shift1, usbdev>>
       \/ /\ mode \in {"ui", "uc"}
          /\ \/ mode = "uc" /\ UNCHANGED usbdev
             \/ /\ mode = "ui"
                /\ \E card \in UsbCards :
                    FindUSBDevice(card) /\ usbdev' = [usbdev EXCEPT !.cardNum = card]
          /\ \E failed \in {"none"} \cup ToSet(AlsaCalls) : OpenUSBDevice(failed)
    /\ UNCHANGED <<args, system, mode, rdBufSize, wrBufSize, gain, input, stream, flushed,
                   parent, closed>>
-------------------------------------------------------------------------------
\* Mutant of Got: the end of the input is not noticed.
GotForever(n) ==
    /\ bytesRead' = n
    /\ at' = at + n
    /\ pc' = "read"
    /\ UNCHANGED exitcode

\* A read that gave n bytes: nothing is the end, an odd byte is left out.
Got(n) ==
    /\ bytesRead' = n
    /\ at' = at + n
    /\ IF n = 0 THEN Exit(0) ELSE pc' = "read" /\ UNCHANGED exitcode

ReadFile ==
    /\ pc = "reading" /\ mode = "file"
    /\ Got(Lesser(FILE_READ_SIZE * SAMPLE, Len(Input) - at))
    /\ UNCHANGED <<overruns, intact>>

\* readUSB: -EPIPE (frames were lost) and no data at all are tried again, any
\* other error comes back as the end of the input.  So does the end of Input.
ReadUSB ==
    /\ pc = "reading" /\ mode \in {"ui", "uc"}
    /\ \/ /\ USB_READ_SIZE * SAMPLE <= Len(Input) - at
          /\ Got(USB_READ_SIZE * SAMPLE)
          /\ UNCHANGED <<overruns, intact>>
       \/ /\ overruns < MaxOverruns /\ (USB_READ_SIZE - 1) * SAMPLE <= Len(Input) - at
          /\ overruns' = overruns + 1
          /\ Got((USB_READ_SIZE - 1) * SAMPLE)
          /\ intact' = FALSE
       \/ /\ overruns < MaxOverruns /\ at + SAMPLE <= Len(Input)
          /\ overruns' = overruns + 1
          /\ at' = at + SAMPLE
          /\ intact' = FALSE
          /\ UNCHANGED <<bytesRead, pc, exitcode>>
       \/ Got(0) /\ UNCHANGED <<overruns, intact>>

ReadInput ==
    /\ ReadFile \/ ReadUSB
    /\ UNCHANGED <<args, system, options, stream, flushed, parent, closed>>

\* The sample in two bytes of the input, and the average of two samples with the
\* gain: the shift is made in 32 bits and stored in 16.
InSample(b) ==
    Int16(IF shift1 = 8 THEN 256 * Input[b] + Input[b + 1] ELSE Input[b] + 256 * Input[b + 1])

Average(b) == Int16(((InSample(b) + InSample(b + 2)) \div 2) * 2^gain)

\* Mutant of samplestowrite: as many as were read.
Undecimated == bytesRead \div SAMPLE

\* The loop over the buffer gives a sample for every second one it takes, and
\* starts anew with every buffer.
samplestowrite == bytesRead \div (2 * SAMPLE)
Decimate ==
    /\ pc = "read"
    /\ pc' = "writing"
    /\ stream' = stream \o [k \in 1 .. samplestowrite |->
                                Average(at - bytesRead + 2 * SAMPLE * (k - 1) + 1)]
    /\ UNCHANGED <<args, system, options, exitcode, input, flushed, parent, closed>>

\* Mutant of Unflushed: stdio's block is not a whole number of samples.
UnflushedOdd == Lesser(SAMPLE * Len(stream) - flushed, BUFSIZ - 1)

\* What fwrite gives to the pipe: whole blocks; the end of the program the rest.
Unflushed == Lesser(SAMPLE * Len(stream) - flushed, BUFSIZ)
Flush ==
    /\ pc \in {"writing", "exiting"}
    /\ Unflushed > 0 /\ (pc = "writing" => SAMPLE * Len(stream) - flushed >= BUFSIZ)
    /\ flushed + Unflushed - nread <= PIPE_SIZE     \* a write of a block is atomic
    /\ flushed' = flushed + Unflushed
    /\ UNCHANGED <<args, system, options, pc, exitcode, input, stream, parent, closed>>

Written ==
    /\ \/ /\ pc = "writing" /\ SAMPLE * Len(stream) - flushed < BUFSIZ
          /\ pc' = "reading"
          /\ UNCHANGED closed
       \/ /\ pc = "exiting" /\ SAMPLE * Len(stream) = flushed
          /\ pc' = "exited"
          /\ closed' = TRUE
    /\ UNCHANGED <<args, system, options, exitcode, input, stream, flushed, parent>>

\* StopRTL kills the child: what is in stdio's buffer is gone.
Kill ==
    /\ ~closed
    /\ pc' = "killed"
    /\ closed' = TRUE
    /\ UNCHANGED <<args, system, options, exitcode, input, stream, flushed, parent>>
-------------------------------------------------------------------------------
\* The parent.  A byte of the stream, and the sample that starts with it.
StreamByte(p) ==
    LET s == stream[p \div SAMPLE + 1] IN IF p % 2 = 0 THEN s % 256 ELSE (s \div 256) % 256
StreamSample(p) == Int16(StreamByte(p) + 256 * StreamByte(p + 1))

\* A tick of the timer thread: ReadFromPipe takes what is there, up to what it
\* wants, and DSPDemod averages the pairs of whole samples in it.
Tick ==
    /\ flushed > nread
    /\ LET dwRead == Lesser(PIPE_READ_SIZE * SAMPLE, flushed - nread)
       IN  /\ nread' = nread + dwRead
           /\ demod' = demod \o
                [k \in 1 .. (dwRead \div SAMPLE) \div 2 |->
                    LET p == nread + 2 * SAMPLE * (k - 1)
                    IN  (StreamSample(p) + StreamSample(p + SAMPLE)) \div 2]
    /\ UNCHANGED <<args, system, options, pc, exitcode, input, stream, flushed, closed>>
-------------------------------------------------------------------------------
Child == ParseOption \/ Allocate \/ OpenInput \/ ReadInput \/ Decimate \/ Flush \/ Written
Next == Child \/ Kill \/ Tick

\* The program runs, and the timer thread keeps reading; nobody must kill.
Fairness == WF_vars(Child) /\ WF_vars(Tick)
Spec == Init /\ [][Next]_vars /\ Fairness
-------------------------------------------------------------------------------
\* Whatever the order of the options, a read fits the read buffer and what is
\* made of it the write buffer, which has as many bytes as the other has samples.
BuffersFit ==
    pc \in {"read", "writing"} =>
        /\ bytesRead <= rdBufSize
        /\ samplestowrite * SAMPLE <= wrBufSize

\* A device asked for by its ID is read from a card that has this ID, and the
\* program gives up only when no card it may look at has it, or it is not listed.
DeviceFound ==
    mode = "ui" =>
        /\ pc \in {"reading", "read", "writing"} =>
            /\ usbdev.cardNum \in DOMAIN system.cards
            /\ system.cards[usbdev.cardNum] = UsbId
        /\ (\E c \in DOMAIN system.cards :
                /\ system.cards[c] = UsbId /\ Listed /\ c < Len(system.devices))
            => \E card \in UsbCards : FindUSBDevice(card)

\* As long as the card loses nothing, what the decoder gets is the input
\* decimated by four: no byte of a sample and no sample of a pair is lost or
\* joined to the wrong one where a buffer, a pipe write or a read ends.
Average4(k) ==
    LET b == 8 * (k - 1) + 1 IN (Average(b) + Average(b + 4)) \div 2
Aligned == intact => \A k \in DOMAIN demod : demod[k] = Average4(k)

\* A file that was opened is decoded to its end, unless the child is killed.
Drained ==
    (pc = "reading" /\ mode = "file") ~>
        \/ pc = "killed"
        \/ pc = "exited" /\ Len(demod) = Len(Input) \div 8
-------------------------------------------------------------------------------
\* The inductive strengthening.
TypeOK ==
    /\ args \in Seq(Options)
    /\ DOMAIN system.devices = 1 .. Len(system.devices)
    /\ Len(system.devices) \in Nat /\ DOMAIN system.cards \subseteq Nat
    /\ mode \in {"none", "file", "ui", "uc"}
    /\ shift1 \in {0, 8} /\ gain \in 0 .. 15
    /\ usbdev = [idVendor |-> usbdev.idVendor, idProduct |-> usbdev.idProduct,
                 cardNum |-> usbdev.cardNum]
    /\ pc \in {"options", "opening", "reading", "read", "writing", "exiting", "exited", "killed"}
    /\ at \in 0 .. Len(Input) /\ bytesRead \in 0 .. at
    /\ stream \in Seq(Shorts) /\ demod \in Seq(Int)
    /\ flushed \in Nat /\ nread \in Nat
    /\ intact \in BOOLEAN

\* The sizes of the source that was chosen, and a read of it.
Sized ==
    /\ mode = "file" => rdBufSize = FILE_READ_SIZE * SAMPLE /\ wrBufSize = FILE_READ_SIZE
    /\ mode \in {"ui", "uc"} => rdBufSize = USB_READ_SIZE * SAMPLE /\ wrBufSize = USB_READ_SIZE
    /\ pc \in {"reading", "read", "writing"} => mode # "none"
    /\ pc \in {"read", "writing"} => bytesRead <= rdBufSize

\* The card that a device asked for by its ID was found on.
OnItsCard ==
    mode = "ui" /\ pc \in {"reading", "read", "writing"} =>
        usbdev.cardNum \in DOMAIN system.cards /\ system.cards[usbdev.cardNum] = UsbId

\* Nothing has been read as long as options can still change what is read.
NotStarted ==
    pc \in {"options", "opening"} =>
        at = 0 /\ stream = << >> /\ flushed = 0 /\ nread = 0 /\ demod = << >>

\* Every read but the last ended with a pair, and the stream has the averages of
\* all pairs before the buffer that is not decimated yet.
Decimated ==
    /\ pc \in {"reading", "read", "writing"} => at % 4 = 0 \/ at = Len(Input)
    /\ pc = "read" => at - bytesRead = 4 * Len(stream)
    /\ pc \in {"reading", "writing"} => Len(stream) = at \div 4
    /\ Len(stream) <= at \div 4
    /\ \A k \in DOMAIN stream : stream[k] = Average(4 * (k - 1) + 1)

\* What is in the pipe and what has been read from it are whole pairs of samples, up
\* to the end of the stream, and every pair that was read gave a sample.
Paired ==
    /\ nread <= flushed /\ flushed <= SAMPLE * Len(stream)
    /\ \/ flushed % 4 = 0
       \/ flushed = SAMPLE * Len(stream) /\ pc \in {"exiting", "exited", "killed"}
    /\ nread % 4 = 0 \/ nread = flushed
    /\ Len(demod) = nread \div 4

\* DSPDemod has the samples of the stream in pairs, whatever became of the input.
Joined == \A k \in DOMAIN demod : demod[k] = (stream[2 * k - 1] + stream[2 * k]) \div 2

\* What the theorems of Reader_proof rest on.
IInv ==
    /\ TypeOK /\ Sized /\ OnItsCard /\ NotStarted
    /\ intact => Decimated
    /\ Paired /\ Joined
===============================================================================
