----------------------------- MODULE Reader_proof -----------------------------
(***************************************************************************)
(* Theorems about the child that reads the samples and their way to the    *)
(* decoder, for any input, any buffer sizes that hold whole pairs, any     *)
(* command line and any set of cards.                                      *)
(***************************************************************************)
EXTENDS Reader, SequenceTheorems, WellFoundedInduction, TLAPS

\* The numbers that the sizes are.
LEMMA Sizes ==
    /\ FILE_READ_SIZE \in Nat \ {0} /\ USB_READ_SIZE \in Nat \ {0} /\ BUFSIZ \in Nat \ {0}
    /\ PIPE_SIZE \in Nat \ {0} /\ PIPE_READ_SIZE \in Nat \ {0}
    /\ FILE_READ_SIZE % 2 = 0 /\ USB_READ_SIZE % 2 = 0
    /\ BUFSIZ % 4 = 0 /\ PIPE_READ_SIZE % 2 = 0
BY SizesAssumption, PairsAssumption

\* A short has 16 bits.
LEMMA Interval ==
    ASSUME NEW a \in Int, NEW b \in Int
    PROVE  \A s : s \in a .. b <=> s \in Int /\ a <= s /\ s <= b
OBVIOUS

LEMMA ShortBounds == \A s : s \in Shorts <=> s \in Int /\ -32768 <= s /\ s <= 32767
<1> SUFFICES ASSUME NEW s, NEW a, NEW b, a = -32768, b = 32767
             PROVE  s \in Shorts <=> s \in Int /\ a <= s /\ s <= b
  OBVIOUS
<1>1. Shorts = a .. b
  BY DEF Shorts
<1>2. a \in Int /\ b \in Int
  OBVIOUS
<1> QED
  BY ONLY <1>1, <1>2, Interval

LEMMA Int16Range == ASSUME NEW x \in Int PROVE Int16(x) \in Shorts
<1>1. ((x + 32768) % 65536) - 32768 >= -32768
  OBVIOUS
<1>2. ((x + 32768) % 65536) - 32768 <= 32767
  OBVIOUS
<1>3. ((x + 32768) % 65536) - 32768 \in Int
  OBVIOUS
<1> QED
  BY <1>1, <1>2, <1>3, ShortBounds DEF Int16

\* A number of 16 bits is not changed, nor one that is a lap of them above.
LEMMA Int16Same ==
    ASSUME NEW x \in Int, -32768 <= x, x <= 32767
    PROVE  Int16(x) = x /\ Int16(x + 65536) = x
<1>1. ((x + 32768) % 65536) - 32768 = x
  OBVIOUS
<1>2. (x + 65536 + 32768) % 65536 = x + 32768
  OBVIOUS
<1> QED
  BY <1>1, <1>2 DEF Int16

\* A sample is what its two bytes make.
LEMMA TwoBytes ==
    ASSUME NEW s \in Shorts
    PROVE  Int16((s % 256) + 256 * ((s \div 256) % 256)) = s
<1> DEFINE q == s \div 256
<1> DEFINE r == s % 256
<1>1. s \in Int /\ -32768 <= s /\ s <= 32767
  BY ShortBounds
<1>2. s = 256 * q + r /\ r \in Int /\ q \in Int
  BY <1>1
<1>3. -128 <= q /\ q <= 127
  BY <1>1
<1> HIDE DEF q, r
<1>4. q % 256 = IF q >= 0 THEN q ELSE q + 256
  BY <1>2, <1>3
<1>5. r + 256 * (q % 256) = IF q >= 0 THEN s ELSE s + 65536
  BY <1>1, <1>2, <1>4
<1>6. Int16(r + 256 * (q % 256)) = s
  BY <1>1, <1>5, Int16Same
<1> QED
  BY <1>6 DEF q, r

LEMMA Elements ==
    ASSUME NEW S, NEW s \in Seq(S) PROVE Len(s) \in Nat /\ \A i \in 1 .. Len(s) : s[i] \in S
OBVIOUS

\* The bytes of the input, and the gain.
LEMMA Inputs == Len(Input) \in Nat /\ \A i \in 1 .. Len(Input) : Input[i] \in Int
<1>1. Input \in Seq(0 .. 255)
  BY InputAssumption
<1>2. 0 \in Int /\ 255 \in Int
  OBVIOUS
<1>3. Len(Input) \in Nat /\ \A i \in 1 .. Len(Input) : Input[i] \in 0 .. 255
  BY <1>1, Elements, Zenon
<1> QED
  BY <1>2, <1>3, Interval, Zenon

LEMMA Power == ASSUME NEW g \in Nat PROVE 2 ^ g \in Int
OBVIOUS

\* Four bytes of the input make a sample.
LEMMA AverageRange ==
    ASSUME TypeOK, NEW b \in Nat, 1 <= b, b + 3 <= Len(Input)
    PROVE  Average(b) \in Shorts
<1>1. ASSUME NEW i \in Nat, 1 <= i, i + 1 <= Len(Input) PROVE InSample(i) \in Int
  <2>1. Input[i] \in Int /\ Input[i + 1] \in Int
    BY <1>1, Inputs
  <2>2. 256 * Input[i] + Input[i + 1] \in Int /\ Input[i] + 256 * Input[i + 1] \in Int
    BY <2>1
  <2>3. InSample(i) \in Shorts
    BY <2>2, Int16Range DEF InSample
  <2> QED
    BY <2>3, ShortBounds
<1>2. InSample(b) \in Int /\ InSample(b + 2) \in Int
  BY <1>1, Inputs
<1>3. gain \in Nat
  <2>1. gain \in 0 .. 15
    BY Zenon DEF TypeOK
  <2> QED
    BY <2>1
<1>4. ((InSample(b) + InSample(b + 2)) \div 2) * 2 ^ gain \in Int
  BY <1>2, <1>3, Power
<1> QED
  BY <1>4, Int16Range DEF Average

\* What a pair of bytes is depends on the options only.
LEMMA SameOptions ==
    ASSUME UNCHANGED <<shift1, gain>> PROVE \A b : Average(b)' = Average(b)
BY DEF Average, InSample

\* The whole sample that starts at an even place in the stream.
LEMMA WholeSample ==
    ASSUME TypeOK, NEW p \in Nat, p % 2 = 0, p + 2 <= 2 * Len(stream)
    PROVE  StreamSample(p) = stream[p \div 2 + 1] /\ stream[p \div 2 + 1] \in Shorts
<1> DEFINE s == stream[p \div 2 + 1]
<1>0. stream \in Seq(Shorts)
  BY DEF TypeOK
<1>1. p \div 2 + 1 \in 1 .. Len(stream) /\ Len(stream) \in Nat
  BY <1>0
<1>2. s \in Shorts
  BY <1>0, <1>1
<1>3. (p + 1) \div 2 = p \div 2 /\ (p + 1) % 2 = 1
  OBVIOUS
<1>4. StreamByte(p) = s % 256
  BY DEF StreamByte, SAMPLE
<1>5. StreamByte(p + 1) = (s \div 256) % 256
  BY <1>3 DEF StreamByte, SAMPLE
<1>6. StreamSample(p) = Int16((s % 256) + 256 * ((s \div 256) % 256))
  BY <1>4, <1>5 DEF StreamSample
<1> QED
  BY <1>2, <1>6, TwoBytes
-------------------------------------------------------------------------------
LEMMA InitIInv == Init => IInv
<1> SUFFICES ASSUME Init PROVE IInv
  OBVIOUS
<1>1. PICK start \in Starts : args = start.args /\ system = start.system
  BY DEF Init
<1>2. /\ start.args \in Seq(Options)
      /\ DOMAIN start.system.devices = 1 .. Len(start.system.devices)
      /\ Len(start.system.devices) \in Nat /\ DOMAIN start.system.cards \subseteq Nat
  BY StartsAssumption, Zenon
<1>3. /\ args \in Seq(Options)
      /\ DOMAIN system.devices = 1 .. Len(system.devices)
      /\ Len(system.devices) \in Nat /\ DOMAIN system.cards \subseteq Nat
  BY <1>1, <1>2, Zenon
<1>4. usbdev = [idVendor |-> usbdev.idVendor, idProduct |-> usbdev.idProduct,
                cardNum |-> usbdev.cardNum]
  BY DEF Init
<1>5. stream = << >> /\ demod = << >> /\ Len(stream) = 0 /\ Len(demod) = 0
  BY DEF Init
<1>6. intact \in BOOLEAN
  BY Zenon DEF Init
<1>7. TypeOK
  BY <1>3, <1>4, <1>5, <1>6, Inputs DEF Init, TypeOK
<1>8. Sized /\ OnItsCard /\ NotStarted
  BY DEF Init, Sized, OnItsCard, NotStarted
<1>9. Decimated
  BY <1>5, Inputs DEF Init, Decimated
<1>10. Paired /\ Joined
  BY <1>5 DEF Init, Paired, Joined, SAMPLE
<1> QED
  BY <1>7, <1>8, <1>9, <1>10 DEF IInv

\* An option sets the sizes of its source, and nothing is read yet.
LEMMA OptionIInv == IInv /\ ParseOption => IInv'
<1> SUFFICES ASSUME IInv, ParseOption PROVE IInv'
  OBVIOUS
<1>1. pc = "options" /\ args # << >> /\ args \in Seq(Options)
  BY DEF ParseOption, IInv, TypeOK
<1>2. args' \in Seq(Options) /\ Head(args) \in Options
  BY <1>1 DEF ParseOption
<1> DEFINE o == Head(args)
<1>3. /\ mode' \in {"none", "file", "ui", "uc"}
      /\ shift1' \in {0, 8} /\ gain' \in 0 .. 15
      /\ usbdev' = [idVendor |-> usbdev'.idVendor, idProduct |-> usbdev'.idProduct,
                    cardNum |-> usbdev'.cardNum]
      /\ mode' = "file" => rdBufSize' = FILE_READ_SIZE * SAMPLE /\ wrBufSize' = FILE_READ_SIZE
      /\ mode' \in {"ui", "uc"} => rdBufSize' = USB_READ_SIZE * SAMPLE /\ wrBufSize' = USB_READ_SIZE
  <2>1. CASE o.opt = "bad"
    BY <2>1 DEF ParseOption, options, IInv, TypeOK, Sized
  <2>2. CASE o.opt # "bad"
    <3>1. Option(o) /\ o \in Options
      BY <1>2, <2>2 DEF ParseOption
    <3>2. CASE o.opt = "f"
      BY <3>1, <3>2 DEF Option, IInv, TypeOK
    <3>3. CASE o.opt \in {"ui", "uc"}
      BY <3>1, <3>3 DEF Option, IInv, TypeOK
    <3>4. CASE o.opt = "g"
      <4>1. o.gain \in 0 .. 15
        BY <3>1, <3>4 DEF Options
      <4> QED
        BY <3>1, <3>4, <4>1 DEF Option, IInv, TypeOK, Sized
    <3>5. CASE o.opt \in {"l", "b"}
      BY <3>1, <3>5 DEF Option, IInv, TypeOK, Sized
    <3>6. o.opt \in {"f", "ui", "uc", "g", "l", "b"}
      BY <2>2, <3>1 DEF Options
    <3> QED
      BY <3>2, <3>3, <3>4, <3>5, <3>6
  <2> QED
    BY <2>1, <2>2
<1>4. pc' \in {"options", "exiting"}
  BY <1>1 DEF ParseOption, Exit
<1>5. UNCHANGED <<system, at, overruns, bytesRead, intact, stream, flushed, nread, demod, closed>>
  BY DEF ParseOption, input, parent
<1>6. TypeOK'
  BY <1>2, <1>3, <1>4, <1>5 DEF IInv, TypeOK
<1>7. Sized' /\ OnItsCard'
  BY <1>3, <1>4 DEF Sized, OnItsCard
<1>8. at = 0 /\ stream = << >> /\ flushed = 0 /\ nread = 0 /\ demod = << >>
  BY <1>1 DEF IInv, NotStarted
<1>9. NotStarted'
  BY <1>5, <1>8 DEF NotStarted
<1>10. Decimated' /\ Paired' /\ Joined'
  <2>1. Len(stream') = 0 /\ Len(demod') = 0 /\ stream' = << >> /\ demod' = << >>
    BY <1>5, <1>8
  <2> QED
    BY <1>4, <1>5, <1>8, <2>1, Inputs DEF Decimated, Paired, Joined, SAMPLE
<1> QED
  BY <1>6, <1>7, <1>9, <1>10 DEF IInv

\* What is read and what has become of it does not depend on where main is before it
\* reads or after it has stopped.
LEMMA Elsewhere ==
    ASSUME IInv, UNCHANGED <<at, bytesRead, stream, flushed, nread, demod, intact>>,
           UNCHANGED <<shift1, gain>> \/ stream = << >>,
           \/ pc' \in {"opening", "exiting", "exited", "killed"}
           \/ pc' = "reading" /\ pc \in {"opening", "writing"},
           pc' = "opening" => pc = "options",
           flushed % 4 = 0 \/ pc' \in {"exiting", "exited", "killed"}
    PROVE  NotStarted' /\ Paired' /\ Joined' /\ (intact' => Decimated')
<1> USE DEF IInv
<1>1. NotStarted'
  BY DEF NotStarted
<1>2. Paired' /\ Joined'
  BY DEF Paired, Joined
<1>3. ASSUME intact' PROVE Decimated'
  <2>1. Decimated
    BY <1>3
  <2>2. \A k \in DOMAIN stream' : stream'[k] = Average(4 * (k - 1) + 1)'
    <3>1. CASE stream = << >>
      BY <3>1
    <3>2. CASE UNCHANGED <<shift1, gain>>
      BY <2>1, <3>2, SameOptions DEF Decimated
    <3> QED
      BY <3>1, <3>2
  <2>3. pc = "opening" => at = 0 /\ Len(stream) = 0
    BY DEF NotStarted
  <2> QED
    BY <2>1, <2>2, <2>3 DEF Decimated
<1> QED
  BY <1>1, <1>2, <1>3

LEMMA AllocateIInv == IInv /\ Allocate => IInv'
<1> SUFFICES ASSUME IInv, Allocate PROVE IInv'
  OBVIOUS
<1> USE DEF Allocate, Exit, options, input, parent
<1>1. TypeOK'
  BY DEF IInv, TypeOK
<1>2. Sized' /\ OnItsCard'
  BY DEF IInv, Sized, OnItsCard
<1>3. NotStarted' /\ Paired' /\ Joined' /\ (intact' => Decimated')
  <2>1. flushed % 4 = 0
    BY DEF IInv, NotStarted
  <2> QED
    BY <2>1, Elsewhere
<1> QED
  BY <1>1, <1>2, <1>3 DEF IInv

\* A card that was found has the ID, and OpenUSBDevice does not touch the number.
LEMMA OpenIInv == IInv /\ OpenInput => IInv'
<1> SUFFICES ASSUME IInv, OpenInput PROVE IInv'
  OBVIOUS
<1> USE DEF OpenInput, OpenUSBDevice, Exit, input, parent
<1>1. pc = "opening" /\ pc' \in {"reading", "exiting"} /\ shift1' \in {0, 8}
  BY DEF IInv, TypeOK
<1>2. at = 0 /\ stream = << >> /\ flushed = 0 /\ nread = 0 /\ demod = << >>
  BY <1>1 DEF IInv, NotStarted
<1>3. /\ usbdev' = [idVendor |-> usbdev'.idVendor, idProduct |-> usbdev'.idProduct,
                    cardNum |-> usbdev'.cardNum]
      /\ usbdev'.idVendor = usbdev.idVendor /\ usbdev'.idProduct = usbdev.idProduct
  BY DEF IInv, TypeOK
<1>4. TypeOK'
  BY <1>1, <1>3 DEF IInv, TypeOK
<1>5. Sized'
  BY <1>1 DEF IInv, Sized
<1>6. OnItsCard'
  <2> SUFFICES ASSUME mode' = "ui", pc' = "reading"
               PROVE  usbdev'.cardNum \in DOMAIN system.cards
                        /\ system.cards[usbdev'.cardNum] = UsbId
    BY <1>1, <1>3 DEF OnItsCard, UsbId
  <2>1. PICK card \in UsbCards : FindUSBDevice(card) /\ usbdev' = [usbdev EXCEPT !.cardNum = card]
    OBVIOUS
  <2>2. usbdev'.cardNum = card
    BY <2>1 DEF IInv, TypeOK
  <2> QED
    BY <2>1, <2>2 DEF FindUSBDevice, CardsOf
<1>7. NotStarted' /\ Paired' /\ Joined' /\ (intact' => Decimated')
  BY <1>1, <1>2, Elsewhere
<1> QED
  BY <1>4, <1>5, <1>6, <1>7 DEF IInv

\* Written and Kill do not touch the samples.
LEMMA WrittenIInv == IInv /\ (Written \/ Kill) => IInv'
<1> SUFFICES ASSUME IInv, Written \/ Kill PROVE IInv'
  OBVIOUS
<1> USE DEF Written, Kill, options, input, parent
<1>1. TypeOK'
  BY DEF IInv, TypeOK
<1>2. Sized' /\ OnItsCard'
  BY DEF IInv, Sized, OnItsCard, UsbId
<1>3. pc' \in {"exited", "killed"} \/ (pc = "writing" /\ pc' = "reading" /\ flushed % 4 = 0)
  BY DEF IInv, Paired
<1>4. NotStarted' /\ Paired' /\ Joined' /\ (intact' => Decimated')
  BY <1>3, Elsewhere
<1> QED
  BY <1>1, <1>2, <1>4 DEF IInv

\* A read of whole pairs is whole samples of both, and as much as the buffer holds.
LEMMA FullReads ==
    /\ (FILE_READ_SIZE * SAMPLE) % 4 = 0 /\ FILE_READ_SIZE * SAMPLE \in Nat \ {0}
    /\ (USB_READ_SIZE * SAMPLE) % 4 = 0 /\ USB_READ_SIZE * SAMPLE \in Nat \ {0}
    /\ (PIPE_READ_SIZE * SAMPLE) % 4 = 0 /\ PIPE_READ_SIZE * SAMPLE \in Nat \ {0}
    /\ (USB_READ_SIZE - 1) * SAMPLE \in Nat
    /\ (USB_READ_SIZE - 1) * SAMPLE <= USB_READ_SIZE * SAMPLE
BY Sizes DEF SAMPLE

LEMMA MultiplesOf4 ==
    ASSUME NEW a \in Int, NEW b \in Int, a % 4 = 0, b % 4 = 0
    PROVE  (a + b) % 4 = 0 /\ a = 4 * (a \div 4) /\ (a + b) \div 4 = a \div 4 + b \div 4
OBVIOUS

\* What a read of the input can be: the end, a whole number of pairs or the last bytes
\* of the file, or a short one after an overrun.
LEMMA Reads ==
    ASSUME IInv, ReadInput
    PROVE  /\ pc = "reading" /\ mode \in {"file", "ui", "uc"}
           /\ intact' \in BOOLEAN /\ (intact' => intact)
           /\ at' \in at .. Len(Input)
           /\ \/ ~intact' /\ pc' = "reading" /\ bytesRead' = bytesRead
              \/ pc' = "exiting" /\ bytesRead' = 0 /\ at' = at
              \/ /\ pc' = "read" /\ at' = at + bytesRead'
                 /\ bytesRead' \in 0 .. rdBufSize
                 /\ intact' => (bytesRead' % 4 = 0 \/ at' = Len(Input)) /\ bytesRead' > 0
<1> USE DEF ReadInput
<1>1. at \in 0 .. Len(Input) /\ intact \in BOOLEAN /\ Len(Input) \in Nat
  BY Inputs DEF IInv, TypeOK
<1>2. CASE ReadFile
  <2>1. mode = "file" /\ pc = "reading" /\ intact' = intact /\ rdBufSize = FILE_READ_SIZE * SAMPLE
    BY <1>2 DEF ReadFile, IInv, Sized
  <2> DEFINE n == Lesser(FILE_READ_SIZE * SAMPLE, Len(Input) - at)
  <2>2. n \in Nat /\ n <= rdBufSize /\ at + n <= Len(Input) /\ (n % 4 = 0 \/ at + n = Len(Input))
    BY <1>1, <2>1, FullReads DEF Lesser
  <2>3. Got(n)
    BY <1>2 DEF ReadFile
  <2> HIDE DEF n
  <2> QED
    BY <1>1, <2>1, <2>2, <2>3, FullReads DEF Got, Exit
<1>3. CASE ReadUSB
  <2>1. mode \in {"ui", "uc"} /\ pc = "reading" /\ rdBufSize = USB_READ_SIZE * SAMPLE
    BY <1>3 DEF ReadUSB, IInv, Sized
  <2> DEFINE n == USB_READ_SIZE * SAMPLE
  <2> DEFINE m == (USB_READ_SIZE - 1) * SAMPLE
  <2>2. n \in Nat /\ m \in Nat /\ m <= n /\ n % 4 = 0 /\ rdBufSize = n
    BY <2>1, FullReads
  <2>3. \/ n <= Len(Input) - at /\ Got(n) /\ intact' = intact
        \/ m <= Len(Input) - at /\ Got(m) /\ intact' = FALSE
        \/ /\ at + SAMPLE <= Len(Input) /\ at' = at + SAMPLE /\ intact' = FALSE
           /\ UNCHANGED <<bytesRead, pc, exitcode>>
        \/ Got(0) /\ intact' = intact
    BY <1>3 DEF ReadUSB
  <2> HIDE DEF n, m
  <2>4. CASE n <= Len(Input) - at /\ Got(n) /\ intact' = intact
    BY <1>1, <2>1, <2>2, <2>4 DEF Got, Exit
  <2>5. CASE m <= Len(Input) - at /\ Got(m) /\ intact' = FALSE
    <3>1. intact' \in BOOLEAN /\ ~intact'
      BY <2>5, Zenon
    <3>2. at' = at + m /\ bytesRead' = m /\ (m = 0 => pc' = "exiting") /\ (m # 0 => pc' = "read")
      BY <2>5 DEF Got, Exit
    <3> QED
      BY <1>1, <2>1, <2>2, <2>5, <3>1, <3>2
  <2>6. CASE /\ at + SAMPLE <= Len(Input) /\ at' = at + SAMPLE /\ intact' = FALSE
             /\ UNCHANGED <<bytesRead, pc, exitcode>>
    <3>1. intact' \in BOOLEAN /\ ~intact'
      BY <2>6, Zenon
    <3>2. at' \in at .. Len(Input)
      BY <1>1, <2>6 DEF SAMPLE
    <3> QED
      BY <2>1, <2>6, <3>1, <3>2
  <2>7. CASE Got(0) /\ intact' = intact
    BY <1>1, <2>1, <2>7 DEF Got, Exit
  <2> QED
    BY <2>3, <2>4, <2>5, <2>6, <2>7
<1> QED
  BY <1>2, <1>3

LEMMA ReadIInv == IInv /\ ReadInput => IInv'
<1> SUFFICES ASSUME IInv, ReadInput PROVE IInv'
  OBVIOUS
<1>1. UNCHANGED <<args, system, options, stream, flushed, parent, closed>>
  BY DEF ReadInput
<1>2. pc' \in {"reading", "exiting", "read"} /\ pc = "reading"
  BY Reads
<1>3. at \in 0 .. Len(Input) /\ bytesRead \in 0 .. at /\ Len(Input) \in Nat
  BY Inputs DEF IInv, TypeOK
<1>4. at' \in 0 .. Len(Input) /\ bytesRead' \in 0 .. at'
  <2>1. bytesRead' = bytesRead \/ bytesRead' = 0
          \/ (at' = at + bytesRead' /\ bytesRead' \in 0 .. rdBufSize)
    BY Reads
  <2> QED
    BY <1>3, <2>1, Reads
<1>5. TypeOK'
  BY <1>1, <1>2, <1>4, Reads DEF IInv, TypeOK, options, parent
<1>6. Sized' /\ OnItsCard'
  <2>1. pc' = "read" => bytesRead' <= rdBufSize
    BY Reads DEF IInv, Sized
  <2> QED
    BY <1>1, <1>2, <2>1, Reads DEF IInv, Sized, OnItsCard, UsbId, options
<1>7. NotStarted' /\ Paired' /\ Joined'
  BY <1>1, <1>2 DEF IInv, NotStarted, Paired, Joined, parent
<1>8. ASSUME intact' PROVE Decimated'
  <2>1. Decimated
    BY <1>8, Reads DEF IInv
  <2>2. \A k \in DOMAIN stream' : stream'[k] = Average(4 * (k - 1) + 1)'
    BY <1>1, <2>1, SameOptions DEF Decimated, options
  <2>3. Len(stream) = at \div 4 /\ (at % 4 = 0 \/ at = Len(Input)) /\ stream' = stream
    BY <1>1, <1>2, <2>1 DEF Decimated
  <2>4. CASE pc' = "exiting" /\ bytesRead' = 0 /\ at' = at
    BY <2>2, <2>3, <2>4, <1>3 DEF Decimated
  <2>5. CASE /\ pc' = "read" /\ at' = at + bytesRead'
             /\ bytesRead' \in 0 .. rdBufSize
             /\ intact' => (bytesRead' % 4 = 0 \/ at' = Len(Input)) /\ bytesRead' > 0
    <3>1. bytesRead' \in Nat /\ bytesRead' > 0 /\ at' <= Len(Input)
      BY <1>4, <1>8, <2>5
    <3>2. at % 4 = 0 /\ at = 4 * Len(stream)
      BY <1>3, <2>3, <2>5, <3>1
    <3>3. at' % 4 = 0 \/ at' = Len(Input)
      <4>1. bytesRead' % 4 = 0 \/ at' = Len(Input)
        BY <1>8, <2>5, Zenon
      <4>2. at' = at + bytesRead' /\ at \in Int /\ bytesRead' \in Int
        BY <1>3, <2>5, <3>1
      <4> QED
        BY <3>2, <4>1, <4>2, MultiplesOf4
    <3>4. at' - bytesRead' = 4 * Len(stream) /\ Len(stream) <= at' \div 4
      BY <1>3, <2>5, <3>1, <3>2, SMTT(40)
    <3> QED
      BY <2>2, <2>3, <2>5, <3>3, <3>4 DEF Decimated
  <2> QED
    BY <1>8, <2>4, <2>5, Reads
<1> QED
  BY <1>5, <1>6, <1>7, <1>8 DEF IInv

\* Samples appended to samples.
LEMMA Appended ==
    ASSUME NEW S, NEW s \in Seq(S), NEW n \in Nat, NEW g \in [1 .. n -> S]
    PROVE  /\ s \o g \in Seq(S) /\ Len(s) \in Nat /\ Len(s \o g) = Len(s) + n
           /\ DOMAIN (s \o g) = 1 .. Len(s) + n /\ DOMAIN s = 1 .. Len(s)
           /\ \A k \in 1 .. Len(s) : (s \o g)[k] = s[k]
           /\ \A k \in 1 .. n : (s \o g)[Len(s) + k] = g[k]
<1>1. g \in Seq(S) /\ Len(g) = n
  OBVIOUS
<1>2. s \o g \in Seq(S) /\ Len(s \o g) = Len(s) + n
  BY <1>1, ConcatProperties
<1>3. Len(s) \in Nat /\ DOMAIN s = 1 .. Len(s) /\ DOMAIN (s \o g) = 1 .. Len(s) + n
  BY <1>2
<1>4. \A i \in 1 .. Len(s) + n : (s \o g)[i] = IF i <= Len(s) THEN s[i] ELSE g[i - Len(s)]
  BY <1>1, <1>3, ConcatProperties
<1>5. ASSUME NEW k \in 1 .. n PROVE (s \o g)[Len(s) + k] = g[k]
  BY <1>3, <1>4
<1> QED
  BY <1>2, <1>3, <1>4, <1>5

\* The first byte of the pair that gives sample k of a buffer.
LEMMA PairInBuffer ==
    ASSUME TypeOK, NEW k \in 1 .. samplestowrite
    PROVE  LET b == at - bytesRead + 2 * SAMPLE * (k - 1) + 1
           IN  b \in Nat /\ 1 <= b /\ b + 3 <= Len(Input)
<1>1. at \in 0 .. Len(Input) /\ bytesRead \in 0 .. at /\ Len(Input) \in Nat
  BY Inputs DEF TypeOK
<1>2. k \in Nat /\ 1 <= k /\ 4 * k <= bytesRead
  BY <1>1 DEF samplestowrite, SAMPLE
<1> QED
  BY <1>1, <1>2 DEF SAMPLE

\* The averages of the buffer go behind the stream, and on from where it ended.
LEMMA DecimateIInv == IInv /\ Decimate => IInv'
<1> SUFFICES ASSUME IInv, Decimate PROVE IInv'
  OBVIOUS
<1> DEFINE First(k) == at - bytesRead + 2 * SAMPLE * (k - 1) + 1
<1> DEFINE g == [k \in 1 .. samplestowrite |-> Average(First(k))]
<1>1. /\ pc = "read" /\ pc' = "writing" /\ stream' = stream \o g
      /\ UNCHANGED <<args, system, options, exitcode, input, flushed, parent, closed>>
  BY DEF Decimate
<1>2. at \in 0 .. Len(Input) /\ bytesRead \in 0 .. at /\ samplestowrite \in Nat
  BY Inputs DEF IInv, TypeOK, samplestowrite, SAMPLE
<1>3. stream \in Seq(Shorts) /\ g \in [1 .. samplestowrite -> Shorts]
  <2>1. ASSUME NEW k \in 1 .. samplestowrite PROVE Average(First(k)) \in Shorts
    BY PairInBuffer, AverageRange DEF IInv
  <2> QED
    BY <2>1 DEF IInv, TypeOK
<1>4. \A k \in 1 .. samplestowrite : g[k] = Average(First(k))
  OBVIOUS
<1> HIDE DEF g
<1>5. /\ stream' \in Seq(Shorts) /\ Len(stream) \in Nat
      /\ Len(stream') = Len(stream) + samplestowrite
      /\ DOMAIN stream' = 1 .. Len(stream) + samplestowrite /\ DOMAIN stream = 1 .. Len(stream)
      /\ \A k \in 1 .. Len(stream) : stream'[k] = stream[k]
      /\ \A k \in 1 .. samplestowrite : stream'[Len(stream) + k] = g[k]
  BY <1>1, <1>2, <1>3, Appended
<1>6. TypeOK'
  BY <1>1, <1>5 DEF IInv, TypeOK, options, input, parent
<1>7. Sized' /\ OnItsCard' /\ NotStarted'
  BY <1>1 DEF IInv, Sized, OnItsCard, NotStarted, UsbId, options, input, parent
<1>8. Paired'
  BY <1>1, <1>2, <1>5, SMTT(40) DEF IInv, TypeOK, Paired, SAMPLE, parent
<1>9. Joined'
  <2> SUFFICES ASSUME NEW k \in DOMAIN demod
               PROVE  demod[k] = (stream'[2 * k - 1] + stream'[2 * k]) \div 2
    BY <1>1 DEF Joined, parent
  <2>1. 2 * k - 1 \in 1 .. Len(stream) /\ 2 * k \in 1 .. Len(stream)
    <3>1. nread \in Nat /\ flushed \in Nat /\ nread <= 2 * Len(stream) /\ Len(demod) = nread \div 4
      BY <1>5 DEF IInv, TypeOK, Paired, SAMPLE
    <3>2. k \in 1 .. Len(demod)
      BY DEF IInv, TypeOK
    <3> QED
      BY <1>5, <3>1, <3>2
  <2> QED
    BY <1>5, <2>1 DEF IInv, Joined
<1>10. ASSUME intact' PROVE Decimated'
  <2>1. Decimated
    BY <1>1, <1>10 DEF IInv, input
  <2>2. at - bytesRead = 4 * Len(stream)
    BY <1>1, <2>1 DEF Decimated
  <2>3. ASSUME NEW k \in DOMAIN stream' PROVE stream'[k] = Average(4 * (k - 1) + 1)'
    <3>1. CASE k \in 1 .. Len(stream)
      BY <1>1, <1>5, <2>1, <3>1, SameOptions DEF Decimated, options
    <3>2. CASE k \notin 1 .. Len(stream)
      <4>1. k - Len(stream) \in 1 .. samplestowrite /\ k = Len(stream) + (k - Len(stream))
        BY <1>2, <1>5, <3>2
      <4>2. stream'[k] = Average(First(k - Len(stream)))
        BY <1>4, <1>5, <4>1
      <4>3. First(k - Len(stream)) = 4 * (k - 1) + 1
        BY <1>2, <1>5, <2>2, <4>1 DEF SAMPLE
      <4> QED
        BY <1>1, <4>2, <4>3, SameOptions DEF options
    <3> QED
      BY <3>1, <3>2
  <2>4. Len(stream') = at \div 4
    BY <1>2, <1>5, <2>2 DEF samplestowrite, SAMPLE
  <2> QED
    BY <1>1, <2>1, <2>3, <2>4 DEF Decimated, input
<1> QED
  BY <1>6, <1>7, <1>8, <1>9, <1>10 DEF IInv

\* Blocks of stdio are whole pairs of samples; the last one ends the stream.
LEMMA FlushIInv == IInv /\ Flush => IInv'
<1> SUFFICES ASSUME IInv, Flush PROVE IInv'
  OBVIOUS
<1>1. UNCHANGED <<args, system, options, pc, exitcode, input, stream, parent, closed>>
  BY DEF Flush
<1>2. flushed \in Nat /\ nread \in Nat /\ Len(stream) \in Nat /\ Len(demod) \in Nat
  BY DEF IInv, TypeOK
<1>3. BUFSIZ \in Nat \ {0} /\ BUFSIZ % 4 = 0
  BY Sizes
<1>4. /\ flushed % 4 = 0 /\ flushed < 2 * Len(stream) /\ flushed' \in Nat /\ flushed <= flushed'
      /\ \/ flushed' = flushed + BUFSIZ /\ flushed' <= 2 * Len(stream)
         \/ flushed' = 2 * Len(stream) /\ pc = "exiting"
  BY <1>2, <1>3 DEF Flush, Unflushed, Lesser, SAMPLE, IInv, Paired
<1>5. TypeOK'
  BY <1>1, <1>4 DEF IInv, TypeOK, options, input, parent
<1>6. Sized' /\ OnItsCard' /\ Joined'
  BY <1>1 DEF IInv, Sized, OnItsCard, UsbId, Joined, options, input, parent
<1>7. NotStarted'
  BY <1>1 DEF Flush, IInv, NotStarted, input, parent
<1>8. Paired'
  <2>1. flushed' % 4 = 0 \/ (flushed' = 2 * Len(stream) /\ pc = "exiting")
    <3>1. CASE flushed' = flushed + BUFSIZ
      BY <1>2, <1>3, <1>4, <3>1, MultiplesOf4
    <3>2. CASE flushed' = 2 * Len(stream) /\ pc = "exiting"
      BY <3>2
    <3> QED
      BY <1>4, <3>1, <3>2
  <2>2. nread % 4 = 0 /\ nread <= flushed' /\ flushed' <= 2 * Len(stream)
    BY <1>2, <1>4 DEF IInv, Paired
  <2> QED
    BY <1>1, <1>2, <1>4, <2>1, <2>2 DEF IInv, Paired, SAMPLE, parent
<1>9. intact' => Decimated'
  BY <1>1, SameOptions DEF IInv, Decimated, options, input
<1> QED
  BY <1>5, <1>6, <1>7, <1>8, <1>9 DEF IInv

\* ReadFromPipe takes whole pairs, but for what is left behind the last block, and a
\* pair of what it takes is a pair of the stream.
LEMMA TickIInv == IInv /\ Tick => IInv'
<1> SUFFICES ASSUME IInv, Tick PROVE IInv'
  OBVIOUS
<1> DEFINE dwRead == Lesser(PIPE_READ_SIZE * SAMPLE, flushed - nread)
<1> DEFINE m == (dwRead \div SAMPLE) \div 2
<1> DEFINE p(k) == nread + 2 * SAMPLE * (k - 1)
<1> DEFINE g == [k \in 1 .. m |-> (StreamSample(p(k)) + StreamSample(p(k) + SAMPLE)) \div 2]
<1>1. /\ flushed > nread /\ nread' = nread + dwRead /\ demod' = demod \o g
      /\ UNCHANGED <<args, system, options, pc, exitcode, input, stream, flushed, closed>>
  BY DEF Tick
<1>2. /\ flushed \in Nat /\ nread \in Nat /\ Len(stream) \in Nat /\ demod \in Seq(Int)
      /\ Len(demod) \in Nat /\ stream \in Seq(Shorts) /\ flushed <= 2 * Len(stream)
      /\ nread % 4 = 0 /\ Len(demod) = nread \div 4 /\ nread = 4 * Len(demod)
  BY <1>1, SMTT(40) DEF IInv, TypeOK, Paired, SAMPLE
<1>3. dwRead \in Nat /\ dwRead <= flushed - nread /\ (dwRead % 4 = 0 \/ nread + dwRead = flushed)
  BY <1>1, <1>2, FullReads DEF Lesser
<1> HIDE DEF dwRead
<1>4. m \in Nat /\ m = dwRead \div 4 /\ (nread + dwRead) \div 4 = Len(demod) + m
  BY <1>2, <1>3 DEF SAMPLE
<1>5. ASSUME NEW k \in 1 .. m
      PROVE  /\ StreamSample(p(k)) = stream[2 * (Len(demod) + k) - 1]
             /\ StreamSample(p(k) + SAMPLE) = stream[2 * (Len(demod) + k)]
             /\ StreamSample(p(k)) \in Int /\ StreamSample(p(k) + SAMPLE) \in Int
  <2>1. /\ p(k) \in Nat /\ p(k) % 2 = 0 /\ p(k) + 4 <= 2 * Len(stream)
        /\ p(k) + SAMPLE = p(k) + 2 /\ (p(k) + 2) % 2 = 0
    BY <1>2, <1>3, <1>4 DEF SAMPLE
  <2>2. p(k) \div 2 + 1 = 2 * (Len(demod) + k) - 1 /\ (p(k) + 2) \div 2 + 1 = 2 * (Len(demod) + k)
    BY <1>2, <1>4 DEF SAMPLE
  <2> HIDE DEF p
  <2>3. p(k) + 2 \in Nat /\ p(k) + 2 + 2 <= 2 * Len(stream) /\ p(k) + 2 <= 2 * Len(stream)
    BY <1>2, <2>1
  <2>4. StreamSample(p(k)) = stream[p(k) \div 2 + 1] /\ StreamSample(p(k)) \in Shorts
    BY <2>1, <2>3, WholeSample DEF IInv
  <2>5. /\ StreamSample(p(k) + 2) = stream[(p(k) + 2) \div 2 + 1]
        /\ StreamSample(p(k) + 2) \in Shorts
    BY <2>1, <2>3, WholeSample DEF IInv
  <2> QED
    BY <2>1, <2>2, <2>4, <2>5, ShortBounds, SMTT(40)
<1>6. g \in [1 .. m -> Int]
  <2>1. ASSUME NEW k \in 1 .. m
        PROVE  (StreamSample(p(k)) + StreamSample(p(k) + SAMPLE)) \div 2 \in Int
    BY <1>5
  <2> QED
    BY <2>1
<1>7. ASSUME NEW k \in 1 .. m
      PROVE  g[k] = (stream[2 * (Len(demod) + k) - 1] + stream[2 * (Len(demod) + k)]) \div 2
  <2>1. g[k] = (StreamSample(p(k)) + StreamSample(p(k) + SAMPLE)) \div 2
    OBVIOUS
  <2> QED
    BY <1>5, <2>1
<1> HIDE DEF g, m, p
<1>8. /\ demod' \in Seq(Int) /\ Len(demod') = Len(demod) + m
      /\ DOMAIN demod' = 1 .. Len(demod) + m /\ DOMAIN demod = 1 .. Len(demod)
      /\ \A k \in 1 .. Len(demod) : demod'[k] = demod[k]
      /\ \A k \in 1 .. m : demod'[Len(demod) + k] = g[k]
  <2>1. m \in Nat /\ demod \in Seq(Int) /\ demod' = demod \o g
    BY <1>1, <1>2, <1>4
  <2> QED
    BY <1>6, <2>1, Appended
<1>9. TypeOK'
  <2>1. nread' \in Nat /\ demod' \in Seq(Int)
    BY <1>1, <1>2, <1>3, <1>8, SMTT(40)
  <2>2. UNCHANGED <<args, system, mode, shift1, gain, usbdev, pc, at, bytesRead, stream, flushed, intact>>
    BY <1>1 DEF options, input
  <2> QED
    BY <2>1, <2>2 DEF IInv, TypeOK
<1>10. Sized' /\ OnItsCard' /\ NotStarted'
  <2>1. pc \notin {"options", "opening"}
    BY <1>1 DEF IInv, NotStarted
  <2> QED
    BY <1>1, <2>1 DEF IInv, Sized, OnItsCard, NotStarted, UsbId, options, input
<1>11. Paired'
  <2>1. nread' % 4 = 0 \/ nread' = flushed
    BY <1>1, <1>2, <1>3, MultiplesOf4
  <2>2. Len(demod') = nread' \div 4
    BY <1>1, <1>4, <1>8, Zenon
  <2>3. nread' <= flushed
    BY <1>1, <1>2, <1>3
  <2>4. UNCHANGED <<flushed, stream, pc>>
    BY <1>1
  <2> QED
    BY <2>1, <2>2, <2>3, <2>4 DEF IInv, Paired
<1>12. Joined'
  <2> SUFFICES ASSUME NEW k \in DOMAIN demod'
               PROVE  demod'[k] = (stream[2 * k - 1] + stream[2 * k]) \div 2
    BY <1>1 DEF Joined
  <2>1. CASE k \in 1 .. Len(demod)
    BY <1>8, <2>1 DEF IInv, Joined
  <2>2. CASE k \notin 1 .. Len(demod)
    <3>1. k - Len(demod) \in 1 .. m /\ k = Len(demod) + (k - Len(demod))
      BY <1>2, <1>4, <1>8, <2>2, SMTT(40)
    <3>2. demod'[k] = g[k - Len(demod)]
      BY <1>8, <3>1
    <3> QED
      BY <1>7, <3>1, <3>2
  <2> QED
    BY <2>1, <2>2
<1>13. intact' => Decimated'
  BY <1>1, SameOptions DEF IInv, Decimated, options, input
<1> QED
  BY <1>9, <1>10, <1>11, <1>12, <1>13 DEF IInv
-------------------------------------------------------------------------------
\* A step changes nothing or is one of the actions.
LEMMA StepIInv == IInv /\ [Next]_vars => IInv'
<1> SUFFICES ASSUME IInv, [Next]_vars PROVE IInv'
  OBVIOUS
<1>1. CASE ParseOption
  BY <1>1, OptionIInv
<1>2. CASE Allocate
  BY <1>2, AllocateIInv
<1>3. CASE OpenInput
  BY <1>3, OpenIInv
<1>4. CASE ReadInput
  BY <1>4, ReadIInv
<1>5. CASE Decimate
  BY <1>5, DecimateIInv
<1>6. CASE Flush
  BY <1>6, FlushIInv
<1>7. CASE Written \/ Kill
  BY <1>7, WrittenIInv
<1>8. CASE Tick
  BY <1>8, TickIInv
<1>9. CASE UNCHANGED vars
  <2>1. TypeOK' /\ Sized' /\ OnItsCard'
    BY <1>9 DEF IInv, vars, TypeOK, Sized, OnItsCard, UsbId
  <2>2. NotStarted' /\ Paired' /\ Joined'
    BY <1>9 DEF IInv, vars, NotStarted, Paired, Joined
  <2>3. intact' => Decimated'
    BY <1>9, SameOptions DEF IInv, vars, Decimated
  <2> QED
    BY <2>1, <2>2, <2>3 DEF IInv
<1> QED
  BY <1>1, <1>2, <1>3, <1>4, <1>5, <1>6, <1>7, <1>8, <1>9 DEF Next, Child

LEMMA SpecIInv == Spec => []IInv
<1> QED
  BY InitIInv, StepIInv, PTL DEF Spec

\* For every order of the options a read fits the buffer it was read into, and what
\* is made of it the other.
THEOREM ReaderBuffersFit == Spec => []BuffersFit
<1>1. IInv => BuffersFit
  <2> SUFFICES ASSUME IInv, pc \in {"read", "writing"}
               PROVE  bytesRead <= rdBufSize /\ samplestowrite * SAMPLE <= wrBufSize
    BY DEF BuffersFit
  <2>1. bytesRead \in Nat /\ bytesRead <= rdBufSize
    BY Inputs DEF IInv, TypeOK, Sized
  <2>2. \/ rdBufSize = FILE_READ_SIZE * 2 /\ wrBufSize = FILE_READ_SIZE
        \/ rdBufSize = USB_READ_SIZE * 2 /\ wrBufSize = USB_READ_SIZE
    BY DEF IInv, TypeOK, Sized, SAMPLE
  <2> QED
    BY <2>1, <2>2, Sizes DEF samplestowrite, SAMPLE
<1> QED
  BY <1>1, SpecIInv, PTL

\* A set of numbers that is not empty has a least one.
LessThan == {p \in Nat \X Nat : p[1] < p[2]}

LEMMA LessThanWellFounded == IsWellFoundedOn(LessThan, Nat)
BY NatLessThanWellFounded DEF OpToRel, LessThan

LEMMA Least ==
    ASSUME NEW T \in SUBSET Nat, T # {} PROVE \E x \in T : \A y \in T : x <= y
<1>1. PICK x \in T : \A y \in T : ~ (<<y, x>> \in LessThan)
  BY LessThanWellFounded, WFMin, Zenon
<1>2. ASSUME NEW y \in T PROVE x <= y
  <2>1. <<y, x>> \in Nat \X Nat /\ <<y, x>>[1] = y /\ <<y, x>>[2] = x
    OBVIOUS
  <2>2. ~ (y < x)
    BY <1>1, <2>1, Zenon DEF LessThan
  <2> QED
    BY <2>2
<1> QED
  BY <1>2

\* Whatever devices and cards the computer has, the card that is read has the ID that
\* was asked for, and one is found if there is one among the cards looked at.
THEOREM ReaderDeviceFound == Spec => []DeviceFound
<1>1. IInv => DeviceFound
  <2> SUFFICES ASSUME IInv, mode = "ui", NEW c \in DOMAIN system.cards,
                      system.cards[c] = UsbId, Listed, c < Len(system.devices)
               PROVE  \E card \in UsbCards : FindUSBDevice(card)
    BY DEF DeviceFound, IInv, OnItsCard
  <2>1. c \in Nat /\ Len(system.devices) \in Nat
    BY DEF IInv, TypeOK
  <2>2. c \in UsbCards
    BY <2>1 DEF UsbCards
  <2>3. CardsOf(UsbId) \in SUBSET Nat /\ c \in CardsOf(UsbId)
    BY <2>1, <2>2 DEF CardsOf, UsbCards
  <2>4. PICK card \in CardsOf(UsbId) : \A d \in CardsOf(UsbId) : card <= d
    BY <2>3, Least
  <2>5. card \in UsbCards
    BY <2>4 DEF CardsOf
  <2> QED
    BY <2>4, <2>5 DEF FindUSBDevice
<1> QED
  BY <1>1, SpecIInv, PTL

\* Wherever the buffers, the blocks and the reads of the pipe cut the stream, the
\* decoder gets the input decimated by four as long as the card loses nothing.
THEOREM ReaderAligned == Spec => []Aligned
<1>1. IInv => Aligned
  <2> SUFFICES ASSUME IInv, intact, NEW k \in DOMAIN demod PROVE demod[k] = Average4(k)
    BY DEF Aligned
  <2>1. demod[k] = (stream[2 * k - 1] + stream[2 * k]) \div 2
    BY DEF IInv, Joined
  <2>2. 2 * k - 1 \in 1 .. Len(stream) /\ 2 * k \in 1 .. Len(stream) /\ k \in Int
    <3>1. nread \in Nat /\ flushed \in Nat /\ nread <= 2 * Len(stream) /\ Len(demod) = nread \div 4
      BY DEF IInv, TypeOK, Paired, SAMPLE
    <3>2. k \in 1 .. Len(demod) /\ Len(stream) \in Nat
      BY DEF IInv, TypeOK
    <3> QED
      BY <3>1, <3>2
  <2>3. \A i \in 1 .. Len(stream) : stream[i] = Average(4 * (i - 1) + 1)
    BY SMTT(40) DEF IInv, TypeOK, Decimated
  <2>4. stream[2 * k - 1] = Average(8 * (k - 1) + 1) /\ stream[2 * k] = Average(8 * (k - 1) + 5)
    <3>1. 4 * (2 * k - 1 - 1) + 1 = 8 * (k - 1) + 1 /\ 4 * (2 * k - 1) + 1 = 8 * (k - 1) + 5
      BY <2>2
    <3> QED
      BY <2>2, <2>3, <3>1
  <2>5. 8 * (k - 1) + 1 + 4 = 8 * (k - 1) + 5
    BY <2>2
  <2> QED
    BY <2>1, <2>4, <2>5 DEF Average4
<1> QED
  BY <1>1, SpecIInv, PTL
===============================================================================
