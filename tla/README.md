# PiWxRx receiver: TLA+ specifications

PiWxRx receives NOAA weather radio on a Raspberry Pi. A native library
(`src/JNI`, written in C) starts a software radio as a child process, reads its
samples every 30 ms, decodes the FSK alert messages, and sends the audio as RTP
packets while a telephone call is up. A Java application, shipped as bytecode
only, drives the library through JNI. This directory specifies the library and
the reader program that can stand in for the radio, model-checks them with TLC
and proves part of what they promise with TLAPS.

## The system

    SDR program, or --pipe--> timer thread --+--> RTP session --> socket
    filereader       30 ms       |           |
      (child)                    |      sample ring
                          timer signal       |
                                 |       DSP thread: front end, bit decoder
                     Java worker (RunRTL)    |
                                         byte ring --> Java reader (getRxByte)

| component | source | state | operations | hard because |
|---|---|---|---|---|
| received-byte ring | `Common/databuffer.c` | 128 slots, two pointers, a condition | put (DSP thread), get (Java) | no full test; slot read after the unlock; wait without a loop |
| sample ring | `Common/FSKdsp.c` | 4096 slots, two pointers, a condition | DSPDemod (timer thread), head of the DSP loop | written with the mutex, read without it; no full test; signals even when it stored nothing |
| front end | `Common/osc.c`, `fir.c`, `demod.c`, the middle of the DSP loop | oscillator phases, filter rings, delay lines, slicer level | one pass per sample | fixed point in 16 and 32 bits, four rings with different wraps |
| bit and byte decoder | `Common/FSKdsp.c`, `Common/demod.c` | correlator register, edge detector, bit clock, byte in work | one turn per sample; DSPClearSync from Java | free-running clock against 23.04 samples per bit; stale register |
| life cycle | `Source/rtl.c`, parts of `FSKdsp.c`, `linux_spawn.c` | exit flags, timer, signal masks, pipe buffer, threads | InitRTL, RunRTL (Linux and Windows), StopRTL, the timer signal, both thread functions | a signal handler that locks a mutex; joins; flags without locks |
| child process and pipe | `Common/linux_spawn.c` | six pipe ends, pid, capture thread | initChildProcess, capture_fn, SIGCHLD handler, ReadFromPipe, CloseChildProcess | descriptors closed twice or under a reader; a child that dies, or will not |
| file and USB readers | `Source/filereader.c`, `Source/usb.c` | options, buffers, position in the stream | parse, open, read, decimate, write | the stream is cut anew by every buffer on its way |
| RTP session | `Common/udp.c`, `Common/udpsocket.c`, `Source/rtl.c` | codec, packet buffer, counters, socket, SendingUDP | StartUDP, StopUDP (Java), SendUDPPacket (timer thread) | no lock at all; pointers and descriptors outlive what they stood for |
| codecs | `Common/codecs.c`, `Common/g711.c` | deemphasis state | PCMEncode, the G.711 conversions | segment boundaries, clipping, fixed point |
| error names | `Common/errno.c` | a table | geterrno | |
| Java application | jars under `src/Rev_4.4.2` | NOAA protocol machine, SIP calls | the caller of all of the above | bytecode only |
| portal, configuration | `src/PiWxRxWeb`, `src/etc`, `src/US`, `src/Asterisk` | data files | none | no logic |

What makes each part correct:

* The rings lose no wakeup, are FIFO queues until they overrun (or are woken
  without cause), and never hand over an item twice or out of order even when
  they overrun.
* The front end keeps its values within the widths they are stored in, its rings
  in step, and gives out the bit that was sent, a fixed delay later.
* The decoder samples every bit once and decodes every byte of a clean signal;
  giving up a message does not cost the next one, but for one case named below.
* The pipe buffer outlives its user, the signal handler never deadlocks on the
  thread it interrupts, stop reaches every thread, and ticks are served.
* The child's pipes are the receiver's own, nobody spins or sleeps for ever on a
  pipe whose other end is gone, and no child survives a stop that gets past
  `DSPStop` (it need not, see the violated runs).
* The reader's samples arrive whole and in pairs, whichever way they are cut.
* A call's packets are built in a live buffer, leave on the call's socket as long
  as the receiver is not stopped under it, and are numbered without a gap; a stop
  releases what the start took.
* The codecs lose no more than G.711 is designed to lose, but for the A-law
  samples just below zero.

## Modules

| module | models | how |
|---|---|---|
| `OrderedChannel` | what both rings promise | abstract: items are published, and delivered in increasing order, possibly with gaps |
| `DataBuffer` | `databuffer.c` | a byte is its serial number; `databuffer_put` is one critical section, `databuffer_get` is cut at its unlock into `GetCheck` and `GetTake` |
| `DataBufferPosix` | the same, with waits that return without a signal | adds `SpuriousWake`; a run has none or up to `MaxSpurious` |
| `SampleBuffer` | `DSPDemod` and the head of `dsp_threads_fn` | lock, one slot per step, publish; the DSP thread's check, wake and take interleave with the copy; `SpuriousWake` is a wait that returns without a signal; a run has no strays (such waits, and reads of a single sample) or up to `MaxStray` |
| `FrontEnd` | `osc.c`, `fir.c`, `PhaseDiscrim`, the slicer | one step per sample, in the code's integers; `(int)(x * .00015)` and `(int)(x * 0.99985)` are written out as what the doubles give |
| `BitDecoder` | `SyncCorrelator`, `EdgeDetect`, `RunBitClock`, the byte assembly, `DSPClearSync` | one sample of the sliced signal per step, with the code's own constants; the transmitter is ideal and sends at least three or four sync bytes first, a bounded number of samples is inverted |
| `Lifecycle` | `InitRTL`, both versions of `RunRTL`, `RTL_timer_signal`, `timer_threads_fn`, `StopRTL` | four threads; on Linux a signal runs its handler on top of any thread that does not block it, on Windows the worker ticks; the sample ring is the distance of its pointers, modulo its size; waits may return without a signal |
| `ChildProcess` | `linux_spawn.c` | parent and child each have a table from descriptor numbers to pipe ends; numbers are given out lowest first, also to other threads; `DSPStop` may never return, nor a read of somebody else's descriptor (`ReadElsewhere`) |
| `Reader` | `filereader.c`, `usb.c`, `ReadFromPipe`, the pair loop of `DSPDemod` | samples have values; the stream is kept whole and positions in it move |
| `UdpSession` | `StartUDP`, `StopUDP`, `InitUDP`, `SendUDPPacket`, `CloseUDP`, the socket | each step is one access to the state the Java thread and the timer thread share; `StopRTL` ends the timer thread and closes a number that may be the socket's |
| `G711` | `g711.c` | both codecs and the conversion tables, as operators |
| `Codecs` | `PCMEncode`, the three encoders, `deemph` | one step per packet; a scenario gives reads, codec, gain and filter switch |

Each `*_proof` module holds the theorems of the module it is named after, that of
`DataBufferPosix` those of `DataBuffer` as well; `Dsp_proof` has those of the DSP
thread, `FrontEnd` and `BitDecoder`. `MC*`
modules and configurations give constants their values for TLC; `PROJECT.json`
maps each definition to its lines. Definitions marked "Mutant of" are variants
with a plausible bug, each of which breaks a property.

The modules meet in what one hands to the other: `Reader` ends in the
samples `DSPDemod` makes of a pipe read, `SampleBuffer` moves such samples,
`FrontEnd` turns them into bits, `BitDecoder` bits into the bytes that
`DataBuffer` moves. `Lifecycle` has the threads that run all this and reduces
the ring to a backlog; `ChildProcess` has the pipe under `Lifecycle`'s
`CloseChildProcess` and `TimerRead`; `UdpSession` is the packet that a read may
send, `Codecs` its payload. The two rings implement `OrderedChannel`.

## Runs

The passing runs:

| run | bounds | shows |
|---|---|---|
| `byte_ring` | 4 slots, 14 bytes: the writer laps the reader three times; no or up to 2 waits that return without a signal | no lost wakeup, FIFO until an overrun or such a wait, losses and repeats in whole laps, everything delivered to a reader that keeps asking; without such waits the ring implements `OrderedChannel` |
| `sample_ring` | 4 slots, 10 filled, reads of 2, 3 and 5 samples; no or up to 2 strays: reads of one sample and waits that return without a signal | the same of the ring that is read while it is written; `DataToProcess`: the thread goes on only when there is a sample, but for overruns, signals without a sample and waits without a signal, and what one of the last two costs is at most a lap |
| `front_end` | 16 bits as tones of full scale and of a 64th of it; 8400 samples of steady tone; the 45 samples that drive each filter hardest | mixers, filters and discriminator fit their widths, the level does while the input is not loud, rings and delay lines hold what the input makes them, every bit comes out 28 or 29 samples late |
| `decoder` | 17 messages in 7 phases, one in 5 phases that lose a third sync byte, one with any two samples inverted, two given up at 7 places, one given up at 2 places with a sample inverted; the code's constants | every bit sampled once from a sync byte on, clean messages decoded whole and cut where they were sent, the message after a new sync lost only to a sync byte across two others, and stale samples make a sync only for as long as the register holds them |
| `lifecycle` | Linux and Windows; one start, one stop at any time, up to three samples waiting | the four safety properties, ticks served, and the worker returns once its timer thread has had a tick |
| `child_process` | 10 descriptor numbers, one other descriptor, pipes of one write | nothing of others is touched before the stop and at most once after, the capture thread never spins, a dead child ends a read, a stop past `DSPStop` ends and reaps any child |
| `reader` | sizes scaled down by 120; 75 samples and an odd byte; one overrun; 7 command lines, 5 computers | reads fit their buffers, the right card is read, no cut shifts the samples, a file is decoded to its end |
| `udp_session` | two calls, a stop without a call, three packets, a stop of the receiver at any time, 3 descriptors, counters of 3 and 4 values | buffer, socket and header are a call's own, whatever fails before, but for at most one packet after a stop of the receiver closed the socket; stops release everything |
| `codecs` | every 16-bit average (u-law), every third of a sample (A-law), at two gains; mixed packets; five signals through the filter | errors within what each codec is designed for, the A-law samples -7 .. -1 apart; the filter within its widths for inputs up to 10900 |

Why these bounds are enough. Ring properties depend on the distance between the
pointers and on laps: each configuration has all distances, an overrun at each
place of the reader, and further laps after it; the theorems lift size and
count. `front_end` has full periods of the oscillator against both tones, the
longest settling of the level (a steady tone, which no message contains), and by
`Hardest` the largest sum each filter can reach. The decoder's runs of equal
bits go up to the nine its clock bridges, its phases include both ends of each
range in which it starts differently (242, 243, 292, 293). Ten descriptors are the three standard
ones, six pipe ends and one of another thread, so numbers that were closed are
taken by the other thread and by nobody. In `reader` the stdio block is a
whole number of samples but of no read on either side, as 4096 bytes are against
1440, and the input ends in the middle of everything. A third call in `udp_session`
repeats the state left by the second, and three packets take both counters round. `codecs` is exhaustive in
what a coder may be given without gain.

The violated runs, each a disagreement of the code with its own comments:

| run | property | what happens |
|---|---|---|
| `lifecycle_stop_hangs` | `StopReturns` | `DSPStop` joins a DSP thread that waits for samples and is not signalled |
| `udp_double_stop` | `FreeIfAllocated` | `CloseUDP` frees a block again when a stop follows a stop |
| `codecs_alaw` | `ALawFaithful` | two bugs in one trace. The A-law encoder does not decimate: a call hears a third of each read at a third of its amplitude. And its coder subtracts 8 from the magnitude of a negative sample: -7 .. -1 get a code that is heard as -248 |

Met while modelling, and left to the text or made an exception of a property:

* Rings. A read of one sample fills no slot yet signals the DSP thread
  (`FSKdsp.c:125`), and its wait may return without a signal (the test at `:209` is
  an `if`): it then runs past the write pointer, against the comment at `:215`.
  `DataToProcess` counts both as `early` and bounds what they cost by a lap each. A
  reader of bytes that wakes without a signal hands out old bytes and not the
  `NO_BYTE` of `databuffer.c:44`.
* Front end. `dcslice_level` has 16 bits. An undistorted tone of full scale leaves
  it below 26667; a clipped one drives the discriminator beyond what `Linear`
  allows and, if it lasts for most of a second, the level over 32767. For
  discriminator outputs below 6667 the gain truncates to 0 and the level does
  not adapt. Tones below a hundredth of full scale are lost to truncation.
* Decoder. After `DSPClearSync` the correlator, which keeps its old samples, can
  find a code that was not sent (`demod.c:55`): `FreshSync` holds from the moment
  on when its register is new. If the rest of the message given up then has a sync
  byte that lies across two of its bytes, the bytes are cut there and the next
  message is lost as well: `NextMessageDecoded` and `BytesInStep` except it as not
  `Unambiguous`. `EdgeDetect` does not reset its count at samples
  that agree (`FSKdsp.c:153`), so three samples that differ need not be
  consecutive. The clock takes 24 samples per bit where `rtl.h:133` calls 23
  nominal. A receiver that begins to listen near the middle of a bit (phases 243
  to 292 of 576) has its bit clock started so that it reads the first bit after
  the next edge twice: it finds the fourth sync byte and not the third, which
  `Eaten` says. NOAA sends sixteen.
* Life cycle. `RunRTL` does not return when it stops the timer while its timer
  thread still waits for a tick (`rtl.c:162-167`, `271-277`), so `RunReturns` asks only
  for a thread that has had its tick.
  The error returns of `RunRTL` leave the buffer allocated, the signal blocked and, at
  `timer_settime`, the timer thread waiting: read off the lines, and nothing in the
  repository says otherwise. After an `InitRTL` that failed, `StopRTL` would join a
  thread that was never created.
* Child process. When the first pipe cannot be made, the second is not tried and
  no error is returned (`linux_spawn.c:113`): the receiver goes on with four
  numbers 0, the excepted case of `OnlyAtStop`. The result of the dup2 for stdout
  is compared with 0, which it never is (`:142`). A message of 256 bytes on stderr
  puts the terminator behind the buffer (`:73`). `CloseChildProcess` closes
  `CHILD_WRITE_FD` a second time (`:178`), which may by then be a call's socket: the
  exception of `OnOwnSocket`. A timer thread that reads a number which is somebody
  else's by then may block for as long as that does.
* Readers. `usb.c:261` counts `nframes` where `nframesRead` is printed;
  `set_periods` gets the record size (`usb.c:203`), and the buffer size is 4
  frames where the comment says 4 periods (`usb.c:209`). `%x` stores 32 bits into
  fields of 16.
* RTP session. The packet in work when a call is stopped is built in a freed
  buffer, which `NoDanglingBuffer` excepts; a call that begins while it is in work may
  have its first header counted on by it, which `RTPStream` excepts. The first stop
  without a start closes descriptor 0.

## Fairness

Safety properties assume none.

* Rings: the reading thread is scheduled, by weak fairness for unlocked steps and
  strong fairness for the DSP thread's steps that need `bfr_mutex`, which the
  timer thread takes for a moment every 30 ms. No wait need return without a
  signal.
* `Lifecycle`: strong fairness stands for scheduling between signals, because a
  thread inside the handler does nothing else and signals come again and again;
  the timer and the delivery of its signal are weakly fair. A child that lives is
  assumed to answer a read.
* `ChildProcess`: weak fairness of the steps of `initChildProcess`, of
  `CloseChildProcess` once begun, of the capture and timer threads and of the
  SIGCHLD handler. `DSPStop` is not fair, since its join may never return, nor is
  `ReadElsewhere`, a read of somebody else's descriptor. The child need not do
  anything; nobody must stop it.
* `Reader`: weak fairness of the program and of the ticks; `Kill` is not fair.

Nothing is assumed of the radio (samples need not come), of Java (nobody has to
call stop), nor of failures.

## Proofs

All for every value of the constants, from the assumptions named in the modules:
a ring has more than one slot, a read does not fill a whole ring, reads hold
whole pairs of samples (1440, 1024 and 720 shorts; stdio has 4096 bytes), amplitudes have 16
bits, a gain is a shift an int has room for, bounds are natural numbers. A message
begins with the sync bytes the decoder loses and one more, has at most two inverted
samples, and no run of equal bits longer than nine less these; it may be of any
length and in any phase.

* `DataBufferPosix_proof`, first for `DataBuffer`. The invariant needs more than
  FIFO: `Contents` says which byte each slot holds as a function of its distance
  behind `wrptr`, `ReaderBehind` that what was handed out is older than all that
  lies ahead of the reader (the whole ring, if it is taking from a ring overrun
  since its test), `InStep` that without an overrun the pointers count what is
  outstanding. With waits that return without a signal, types, contents and wakeups
  survive, and so does `InLaps`: what was put, and a ring for every such wait, less
  what was taken and what the pointers show, is a whole number of laps and at least
  one while a reader is on its way past the writer. The rest holds until the first
  such wait. From these follow `TypeOK`, `QueueUntilOverrun`, `InWholeLaps`, and that
  every step is a step or a stutter of `OrderedChannel`.
* `SampleBuffer_proof`. The same with the private write pointer of a copy in
  progress: distances run from the published pointer and from the private one.
  Reads of any size are allowed, and waits that return without a signal; `stray` counts
  what may wake the thread without a sample and `early` how often it did, after which
  types, wakeups and copies in progress still agree, and so does `InLaps`: what was
  published, and a ring for each early wait, less what was taken and what the pointers
  show (`Owed`) is never negative. That gives the bound of `DataToProcess`.
* `Dsp_proof`, front end. `LinesInv` (indices in range, `DelayLines`) shows that four
  rings with three different wraps hold the last inputs in order, for an input
  of any length and any table. `LevelSettles` rests on two bounds: within `Linear`
  the gain is at most 5 either way, and what is left of a level of at most 26667
  after the leak is at most 26662. `FilterFits` is a bound on 45 partial sums, by
  induction over the taps: a mixed sample is within 16 bits because an amplitude
  is, and the magnitudes of the coefficients add up to 46718, which times 2^15 is
  below 2^31. `MixerFits` bounds the product of two 16-bit factors, and `CrossFits`
  the difference of two products of filter outputs, which are within 23359 by
  `FilterFits`' sum after its shift. The four together are `InWidth`, the level's part
  only while the discriminator stays within `Linear`.
* `Dsp_proof`, decoder. `Register` says that the correlator holds what was received
  since the search began: that alone gives `FreshSync`. The rest follows the bit
  clock with two predicates. `Locked(q)` holds from the first edge after a match on.
  It says that bit q is the next to be
  read, and bounds the place in that bit: after an edge that is between 300 and
  375 576ths of it, 25 more for each inverted sample, and each bit read
  without an edge adds 24. The edge detector is either `Steady`, in agreement with the
  signal since the reset, or `Pending`, in a bit whose edge it has not counted out
  yet, and a run that is `Bridged` ends before the drift reaches the next bit. Before
  the first edge there is no such bound. A match may be anywhere in a one-bit, so
  `Opening(a)` only has it begin in bit a, all ones from there to the first edge or
  to now, and `NoSyncByte` that too many of the bits read were ones for a sync byte:
  nothing is given out before the clock is `Locked`. That is `EachBitOnce`, after the
  first sync and any other.
* `Dsp_proof`, bytes. For `Decoded`, about a first message, the match is sample 345
  or 346, because two sync bytes compare equal to themselves only
  when they are lined up; `Entering` follows the clock from there, `SyncAt` lists the
  bytes that the register of eight bits goes through up to the first sync byte,
  and `Gathering(q)` has what is in it and in `out` from then on. After a new sync
  the decoder may track anything, so `AnyInv` says less of the byte and it is enough:
  by `Preread` and `Window` what looks like a sync byte has all its eight bits
  received, none read twice; `Unambiguous` puts those on a byte's place, and `Bytewise`
  keeps them there, which is `BytesInStep`. For `NextMessageDecoded` it has, for every
  message `Coming(p)`, a time `MatchBy(p)` by which its first two sync bytes match if
  nothing did before, and `Hunting` that the bits gathered up then reach back far
  enough for its third sync byte to be found, by the last bit of it at the latest.
* `Codecs_proof`. A magnitude is found in its segment, so its code is that of an
  interval of known width around what the decoder returns: that gives the errors in
  `ULawFaithful` and `ALawCoded`, for every integer and so for every gain. The middle
  of an interval is coded as this interval, and the two tables are eight rows that are
  linear but for one bend each: that gives `Requantized`. `DeemphInRange` needs the
  bound that the filter's feedback maps into itself, 51922, smaller than the one
  the product with `coeff01` needs; induction over the samples of a packet.
* `Reader_proof`. `Sized` and `NotStarted` (no size changes once something is read)
  give `BuffersFit`, `OnItsCard` gives `DeviceFound`. For `Aligned` the invariant
  has the two ends of the stream apart: `Decimated` says what the child has put into
  it in terms of the input, `Paired` and `Joined` what the receiver has taken out of
  it, each by its position and with the remainders modulo 4 at which stdio's blocks, the
  pipe and the reads may cut.
* `Lifecycle_proof`. Buffer, masks and flags against the threads' places, for both
  versions of `RunRTL`: `Masked` is why the handler cannot hit the mutex's holder
  (the timer thread inherits a blocked signal), `Allocated` why the buffer
  outlives it, `Flagged` why no stop is lost.
* `ChildProcess_proof`. `Numbers`: the six numbers kept are distinct and stand for
  their ends until these are closed; with `Made` (which pipe exists when),
  `StdOpen` (no pipe end is ever 0, 1 or 2) and `Order` this gives `Counted`, and
  from it `OnlyAtStop` and `CaptureSleeps`, for any number of descriptors. The
  types are part of it and in no run, as in `Reader` and `Codecs`.
* `UdpSession_proof`. `Held`: who has a buffer and a socket, by the place of the
  Java thread. `InWork`: a packet in work belongs to the call, or was cut by a
  stop. `Counted`, `Ready` and `Numbered`: the header is the expected one before
  a packet is sent, and the sent one until it is counted. `LastAstray`: a call is `robbed` of its
  socket only by a stop of the receiver, whose flag the timer thread finds at the end
  of the packet in work. From these follow `NoDanglingBuffer`, `NothingLeft`,
  `OnOwnSocket` and `RTPStream`, for counters of any width.

Where a proof needs induction over data (the taps of a filter, the samples of a
packet), it takes the least natural number outside a set of good ones, from the
library's theorem that < on them is well-founded; its induction schemes, which
have an operator for a parameter, cannot be cited here.

Only model-checked: all liveness (`Delivered`, `Processed`, `TickServed`,
`RunReturns`, `EndOfSamples`, `StopEndsChild`, `Drained`), which needs fairness, and
`ToneDecoded`, a fact about a table of cosines and two given tones.

## Abstractions

* Bytes and samples in the rings are serial numbers. Mutexes are atomic steps;
  `pthread_cond_wait` is a place from which a signal moves the thread on.
* `FrontEnd` starts from a 12 kHz sample in the ring; the 512 values of the first
  quarter of the cosine are a constant, the others follow by symmetry as in
  `InitOsc`.
* In `Lifecycle` the worker calls once and is stopped once, not after a failed
  start. The Windows version runs with the child of `linux_spawn.c`, since the
  repository has no other, and is built by no makefile of it.
* In `ChildProcess` what the child runs is any program; a write is one unit, a
  read takes all there is; `DSPStop`, between the flag and `CloseChildProcess`, is one
  step that may never come, and what it does is in `Lifecycle`. A pid is not a number: that it
  may have been given to another process when `kill` is called is not modelled.
* `Reader` leaves out the parameters of the ALSA device: a call succeeds or
  fails. A program whose sizes were never set may get any outcome from malloc.
* In `UdpSession` CODEC_PCMU stands for both codecs; a second free is undefined
  and the model goes on after it; Java starts one call at a time, and stops it
  once, or stops one that was never answered. Of `StopRTL` it has the exit flag and
  the closes, at any time; packets end with the timer thread and the library is not
  started again.
* Variables marked "history" record what happened, for the properties, and
  guard nothing but the named bounds.

## Not modelled, and why

* `errno.c`: 125 texts in the order of the system's numbers. Its two
  callers print errno after `execv` and `waitpid`, whose errors the table has.
* The Java application: bytecode without source. The modules allow the library's
  functions to be called in the orders named above.
* `src/JNI/Include/usb.c` (an older revision of `Source/usb.c`), `Source/lpass.c` (a fragment): nothing
  builds them. `Include/jni.h`, `jni_md.h`, `PiJNI_RTLsdrJNI.h`: declarations.
* `PCMDecode` has no caller in the repository: the properties of `Codecs` use it as
  the far end of the call. `PipeDecimate` returns its input at once, since a read
  is never longer than `PIPE_READ_LEN`.
* Web portal, SIP, site configuration: data files.
